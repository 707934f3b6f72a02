---------------------------- MODULE PaperSupervisor ----------------------------
(***************************************************************************)
(* OperatorPaperSupervisor (app/api/operator_paper_supervisor.py): the one *)
(* bounded PAPER process an operator may run, the requests that start and  *)
(* stop it, and what the API process finds again after it died.            *)
(*                                                                         *)
(* A request is a handler on a thread of the API server's pool.  It is cut *)
(* at every call that polls, signals, launches or waits for a process and  *)
(* at every write of the session store; _session and _process are read     *)
(* again after each of these calls, as the code does.  Only a start holds  *)
(* _process_lifecycle_lock; a shutdown by the server's lifespan or by a    *)
(* signal holds none, and neither do a stop, a reconciliation and the      *)
(* status snapshots the panel polls.                                       *)
(*                                                                         *)
(* A session object is written to the append-only store in the step that   *)
(* changes it, so one record stands for the object and for its last row;   *)
(* a write that fails, and parts the two, is left out.                     *)
(* STOPPED, EXITED and FAILED are one status, ENDED: the exit code only    *)
(* chooses among them.  Sessions are numbered in the order of              *)
(* requested_at and a session's child has the session's number; a process  *)
(* id the system reuses is left out.                                       *)
(***************************************************************************)
EXTENDS Naturals

CONSTANTS
    Request,      \* handler threads
    MaxSession,   \* bound on the sessions the store holds
    MaxRestarts   \* bound on the deaths of the API process

ASSUME BoundAssumption == MaxSession \in Nat /\ MaxRestarts \in Nat
ASSUME RequestAssumption == "none" \notin Request

VARIABLES
    current,   \* _session, 0 for None
    handle,    \* _process: the session whose child it is, 0 for None
    record,    \* a session's status, and whether its pid is known
    child,     \* the child process of a session
    req,       \* a request: its step, what it polled, the session it works on
    lock,      \* who holds _process_lifecycle_lock
    closing,   \* _shutdown_requested
    restarts

memory == <<current, handle>>
server == <<lock, closing, restarts>>
vars == <<memory, record, child, req, server>>

Session == 1..MaxSession
Operation == {"start", "stop", "status", "reconcile", "shutdown"}
Active == {"STARTING", "RUNNING", "STOP_REQUESTED"}
Blocking_Forgets == {"STARTING", "RUNNING", "UNKNOWN"}
Blocking == Active \union {"UNKNOWN"}        \* _validate_start_request refuses
Final == {"ENDED", "REFUSED", "RECONCILED"}
Step == {"poll", "apply", "decide", "prepare", "launch", "publish",
         "mark", "wait", "repoll", "reapply", "finish"}

Idle == [op |-> "none", pc |-> "idle", gone |-> FALSE, at |-> 0]

TypeOK ==
    /\ current \in 0..MaxSession /\ handle \in 0..MaxSession
    /\ handle # 0 => child[handle] # "none"
    /\ record \in [Session -> [status : {"ABSENT"} \union Blocking \union Final, pid : BOOLEAN]]
    /\ child \in [Session -> {"none", "live", "gone"}]
    /\ req \in [Request -> [op : Operation \union {"none"}, pc : Step \union {"idle"},
                            gone : BOOLEAN, at : 0..MaxSession]]
    /\ lock \in Request \union {"none"}
    /\ closing \in BOOLEAN
    /\ restarts \in 0..MaxRestarts

Known(s) == record[s].status # "ABSENT"
\* the next requested_at: every earlier session is in the store
Fresh(s) == \A t \in Session : Known(t) <=> t < s
\* latest_session: the greatest requested_at
Latest(s) == Known(s) /\ \A t \in Session : Known(t) => t <= s

At(r, op, pc) == req[r].op = op /\ req[r].pc = pc
Goto(r, pc) == req' = [req EXCEPT ![r].pc = pc]
\* the response is returned; a start gives the lock back
Done(r) ==
    /\ req' = [req EXCEPT ![r] = Idle]
    /\ lock' = IF lock = r THEN "none" ELSE lock
    /\ UNCHANGED <<closing, restarts>>
Save(s, status) == record' = [record EXCEPT ![s].status = status]
CurrentIs(statuses) == current # 0 /\ record[current].status \in statuses

Init ==
    /\ current = 0 /\ handle = 0
    /\ record = [s \in Session |-> [status |-> "ABSENT", pid |-> FALSE]]
    /\ child = [s \in Session |-> "none"]
    /\ req = [r \in Request |-> Idle]
    /\ lock = "none" /\ closing = FALSE /\ restarts = 0

-----------------------------------------------------------------------------
\* A request arrives.  A start takes the lock and is refused once a shutdown
\* was requested; only the first shutdown does anything.
Arrive(r, op) ==
    /\ req[r].pc = "idle"
    /\ op \in {"start", "shutdown"} => ~closing
    /\ op = "start" => lock = "none" /\ \E s \in Session : Fresh(s)
    /\ req' = [req EXCEPT ![r] = [op |-> op, pc |-> "poll", gone |-> FALSE, at |-> 0]]
    /\ lock' = IF op = "start" THEN r ELSE lock
    /\ closing' = (closing \/ op = "shutdown")
    /\ UNCHANGED <<memory, record, child, restarts>>

\* _refresh_process_state, which every request calls first and a stop again
\* at its end: poll the held child ...
Refreshed(r) ==
    IF req[r].pc \in {"repoll", "reapply"} THEN "finish"
    ELSE IF req[r].op = "status" THEN "idle" ELSE "decide"

Poll(r) ==
    /\ req[r].pc \in {"poll", "repoll"}
    /\ IF current = 0 \/ handle = 0
         THEN IF Refreshed(r) = "idle" THEN req' = [req EXCEPT ![r] = Idle] ELSE Goto(r, Refreshed(r))
         ELSE req' = [req EXCEPT ![r].pc = IF @ = "poll" THEN "apply" ELSE "reapply",
                                 ![r].gone = child[handle] = "gone"]
    /\ UNCHANGED <<memory, record, child, server>>

\* ... and apply what it said to the session that is current then.
AfterPoll_Stuck(status, gone) ==
    IF gone /\ status = "RUNNING" THEN "ENDED" ELSE status

AfterPoll(status, gone) ==
    IF gone THEN IF status \in Active THEN "ENDED" ELSE status
    ELSE IF status \in {"STOP_REQUESTED", "STARTING"} THEN status ELSE "RUNNING"

Apply(r) ==
    /\ req[r].pc \in {"apply", "reapply"}
    /\ Save(current, AfterPoll(record[current].status, req[r].gone))
    /\ IF Refreshed(r) = "idle" THEN req' = [req EXCEPT ![r] = Idle] ELSE Goto(r, Refreshed(r))
    /\ UNCHANGED <<memory, child, server>>

-----------------------------------------------------------------------------
\* A refused start persists a REFUSED session; some other reason to refuse
\* (the request, the account, the runner) always exists.  A request the API
\* itself refuses, before the supervisor sees it, persists nothing.
StartRefuse(r) ==
    /\ At(r, "start", "decide")
    /\ \E s \in Session : Fresh(s) /\ Save(s, "REFUSED")
    /\ Done(r)
    /\ UNCHANGED <<memory, child>>

StartValidate(r) ==
    /\ At(r, "start", "decide")
    /\ ~CurrentIs(Blocking)
    /\ Goto(r, "prepare")
    /\ UNCHANGED <<memory, record, child, server>>

\* The session is persisted as STARTING, without a pid, before the launch.
StartPersist_Late(r) ==
    /\ At(r, "start", "prepare")
    /\ \E s \in Session : Fresh(s) /\ req' = [req EXCEPT ![r].pc = "launch", ![r].at = s]
    /\ UNCHANGED <<memory, record, child, server>>

StartPersist(r) ==
    /\ At(r, "start", "prepare")
    /\ \E s \in Session :
          /\ Fresh(s)
          /\ Save(s, "STARTING")
          /\ req' = [req EXCEPT ![r].pc = "launch", ![r].at = s]
    /\ UNCHANGED <<memory, child, server>>

StartFails_KeepsHandle(r) ==
    /\ At(r, "start", "launch")
    /\ Save(req[r].at, "ENDED")
    /\ current' = req[r].at /\ handle' = req[r].at
    /\ Done(r)
    /\ UNCHANGED child

StartFails(r) ==
    /\ At(r, "start", "launch")
    /\ Save(req[r].at, "ENDED")
    /\ current' = req[r].at /\ handle' = 0
    /\ Done(r)
    /\ UNCHANGED child

StartLaunch(r) ==
    /\ At(r, "start", "launch")
    /\ child' = [child EXCEPT ![req[r].at] = "live"]
    /\ Goto(r, "publish")
    /\ UNCHANGED <<memory, record, server>>

\* pid, RUNNING, _session and _process are set and the session is persisted.
StartPublish(r) ==
    /\ At(r, "start", "publish")
    /\ record' = [record EXCEPT ![req[r].at] = [status |-> "RUNNING", pid |-> TRUE]]
    /\ current' = req[r].at /\ handle' = req[r].at
    /\ Done(r)
    /\ UNCHANGED child

-----------------------------------------------------------------------------
\* NO_ACTIVE_RUN, or the signal could not be sent.
StopRefuse(r) ==
    /\ At(r, "stop", "decide")
    /\ handle # 0 /\ CurrentIs(Active) => child[handle] = "live"
    /\ Done(r)
    /\ UNCHANGED <<memory, record, child>>

StopSignal(r) ==
    /\ At(r, "stop", "decide")
    /\ handle # 0 /\ CurrentIs(Active)
    /\ Goto(r, "mark")
    /\ UNCHANGED <<memory, record, child, server>>

\* STOP_REQUESTED is persisted; the wait begins on the handle of that moment,
\* and the handler dies of a None handle.
StopMark(r) ==
    /\ At(r, "stop", "mark")
    /\ Save(current, "STOP_REQUESTED")
    /\ IF handle = 0 THEN req' = [req EXCEPT ![r] = Idle]
       ELSE req' = [req EXCEPT ![r].pc = "wait", ![r].at = handle]
    /\ UNCHANGED <<memory, child, server>>

StopTimeout(r) ==
    /\ At(r, "stop", "wait")
    /\ child[req[r].at] = "live"
    /\ Done(r)
    /\ UNCHANGED <<memory, record, child>>

StopExited(r) ==
    /\ At(r, "stop", "wait")
    /\ child[req[r].at] = "gone"
    /\ Goto(r, "repoll")
    /\ UNCHANGED <<memory, record, child, server>>

StopFinish(r) ==
    /\ At(r, "stop", "finish")
    /\ handle' = 0
    /\ Done(r)
    /\ UNCHANGED <<current, record, child>>

-----------------------------------------------------------------------------
\* A reconciliation is refused unless the session is UNKNOWN, every
\* confirmation is given and the probe proves its process gone.
ReconcileRefuse(r) ==
    /\ At(r, "reconcile", "decide")
    /\ Done(r)
    /\ UNCHANGED <<memory, record, child>>

ReconcileProbe(r) ==
    /\ At(r, "reconcile", "decide")
    /\ CurrentIs({"UNKNOWN"})
    /\ record[current].pid /\ child[current] = "gone"
    /\ Goto(r, "mark")
    /\ UNCHANGED <<memory, record, child, server>>

ReconcileClose(r) ==
    /\ At(r, "reconcile", "mark")
    /\ Save(current, "RECONCILED")
    /\ handle' = 0
    /\ Done(r)
    /\ UNCHANGED <<current, child>>

-----------------------------------------------------------------------------
\* shutdown_active_processes: nothing to do, no handle, or the kill failed.
ShutdownRefuse(r) ==
    /\ At(r, "shutdown", "decide")
    /\ handle # 0 /\ CurrentIs(Active) => child[handle] = "live"
    /\ Done(r)
    /\ UNCHANGED <<memory, record, child>>

ShutdownKill(r) ==
    /\ At(r, "shutdown", "decide")
    /\ handle # 0 /\ CurrentIs(Active)
    /\ Goto(r, "mark")
    /\ UNCHANGED <<memory, record, child, server>>

\* The killed process may still be there when it is polled.
ShutdownMark(r) ==
    /\ At(r, "shutdown", "mark")
    /\ record' = IF handle = 0 THEN record
                 ELSE [record EXCEPT ![current].status =
                          IF child[handle] = "live" THEN "STOP_REQUESTED" ELSE "ENDED"]
    /\ Done(r)
    /\ UNCHANGED <<memory, child>>

-----------------------------------------------------------------------------
\* A child ends: its time is up, it was signalled, or it failed.
ChildExits(s) ==
    /\ child[s] = "live"
    /\ child' = [child EXCEPT ![s] = "gone"]
    /\ UNCHANGED <<memory, record, req, server>>

\* The API process dies and starts again: __init__ loads the latest session
\* and _reconcile_latest_session_on_startup probes the pid of an active one.
\* A probe that fails, a missing pid and a configuration that forbids the
\* reconciliation leave UNKNOWN.
Adopt(s) ==
    /\ record[s].pid /\ child[s] = "live"
    /\ Save(s, "RUNNING") /\ handle' = s
FindGone(s) ==
    /\ record[s].pid /\ child[s] = "gone"
    /\ Save(s, "RECONCILED") /\ handle' = 0
LeaveUnknown(s) == Save(s, "UNKNOWN") /\ handle' = 0

Load(s) ==
    /\ current' = s
    /\ IF record[s].status \in Active
         THEN Adopt(s) \/ FindGone(s) \/ LeaveUnknown(s)
         ELSE handle' = 0 /\ UNCHANGED record

Restart ==
    /\ restarts < MaxRestarts
    /\ restarts' = restarts + 1
    /\ req' = [r \in Request |-> Idle]
    /\ lock' = "none" /\ closing' = FALSE
    /\ \/ \E s \in Session : Latest(s) /\ Load(s)
       \/ (\A s \in Session : ~Known(s)) /\ UNCHANGED <<memory, record>>
    /\ UNCHANGED child

Handle(r) ==
    \/ Poll(r) \/ Apply(r)
    \/ StartRefuse(r) \/ StartValidate(r) \/ StartPersist(r)
    \/ StartFails(r) \/ StartLaunch(r) \/ StartPublish(r)
    \/ StopRefuse(r) \/ StopSignal(r) \/ StopMark(r)
    \/ StopTimeout(r) \/ StopExited(r) \/ StopFinish(r)
    \/ ReconcileRefuse(r) \/ ReconcileProbe(r) \/ ReconcileClose(r)
    \/ ShutdownRefuse(r) \/ ShutdownKill(r) \/ ShutdownMark(r)

Next ==
    \/ \E r \in Request, op \in Operation : Arrive(r, op)
    \/ \E r \in Request : Handle(r)
    \/ \E s \in Session : ChildExits(s)
    \/ Restart

Spec == Init /\ [][Next]_vars

\* Handlers run on; the panel polls the status and the operator reconciles
\* again and again; a child's run is bounded in time.
FairSpec ==
    /\ Spec
    /\ \A r \in Request :
          /\ WF_vars(Handle(r))
          /\ SF_vars(Arrive(r, "status")) /\ SF_vars(Arrive(r, "reconcile"))
          /\ SF_vars(ReconcileProbe(r))
    /\ \A s \in Session : WF_vars(ChildExits(s))

-----------------------------------------------------------------------------
Live == {s \in Session : child[s] = "live"}

\* A start that was refused after s was launched: its record is later than
\* that of s, so a restart loads it and never looks at s again.
Masked(s) == record[s].status \in Blocking /\ \E t \in Session : t > s /\ record[t].status = "REFUSED"

\* A second process is only ever launched next to one that the record of a
\* later refused start hides from the restart (DUPLICATE_ACTIVE_RUN promises one
\* process at a time): _validate_start_request, the
\* adoption and the reconciliation leave no other way to two of them.
SecondChildIsMasked == \A s, t \in Live : s < t => Masked(s)

\* A session that blocks a start and a stop's refusal agree: the handle of an
\* active session is its own child's, so an operator can always stop it.
ActiveIsHeld == CurrentIs(Active) => handle = current

\* A live child is held, or being launched, or waits as UNKNOWN for the
\* operator, or is masked: no crash and no timeout loses it otherwise.
NoChildForgotten ==
    \A s \in Live :
        \/ handle = s
        \/ current = s /\ record[s].status = "UNKNOWN"
        \/ \E r \in Request : At(r, "start", "publish") /\ req[r].at = s
        \/ Masked(s)

\* A session whose child is gone stops blocking the next start, through a
\* status poll or through the operator's reconciliation, provided its pid was
\* recorded: the one without a pid can never be reconciled.
GoneUnblocks ==
    \A s \in Session :
        (current = s /\ CurrentIs(Blocking) /\ record[s].pid /\ child[s] = "gone")
            ~> ~(current = s /\ CurrentIs(Blocking))
=============================================================================
