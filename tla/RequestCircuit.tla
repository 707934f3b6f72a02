---------------------------- MODULE RequestCircuit ----------------------------
(***************************************************************************)
(* BatchedAlpacaPollingClient (app/data/polling_client.py): the workers of *)
(* a poll, their retries, and the circuit that all their requests share.   *)
(*                                                                         *)
(* The client lives on one event loop, so a step ends where a request      *)
(* waits: for a slot of the request budget, for the answer, for the end of *)
(* a backoff.  What follows an answer is one step, because the registered  *)
(* callbacks are plain functions.  The budget has a slot for every worker, *)
(* so it only delays a request; its rate is left out.                      *)
(*                                                                         *)
(* Time is counted in ticks.  The client is one instance: a replaced       *)
(* client takes its circuit with it.                                       *)
(***************************************************************************)
EXTENDS Integers

CONSTANTS
    Worker,       \* the workers of _run_jobs, at most max_concurrency
    MaxJobs,      \* bound on the batches of a poll
    MaxRetries,
    Threshold,    \* circuit_failure_threshold
    Cooldown,     \* circuit_cooldown_seconds
    RetryAfter    \* what the provider may ask for when it limits the rate

ASSUME PolicyAssumption ==
    /\ MaxJobs \in Nat /\ MaxRetries \in Nat /\ Threshold \in Nat \ {0}
    /\ Cooldown \in Nat \ {0} /\ RetryAfter \subseteq Nat \ {0}

VARIABLES
    circuit,     \* _circuit_state
    cool,        \* what is left until _circuit_open_until
    failures,    \* _consecutive_failures, as far as the threshold
    told,        \* what is left of the longest Retry-After the client was told
    jobs,        \* batches of this poll that no worker has taken
    req,         \* a worker's request: its step, its attempt, half_open_probe
    sick,        \* the provider may still fail
    passed       \* history: sent while the circuit is open since it opened

breaker == <<circuit, cool, passed>>
vars == <<breaker, failures, told, jobs, req, sick>>

Idle == [pc |-> "idle", attempt |-> 0, probe |-> FALSE]
Queued(attempt, probe) == [pc |-> "queued", attempt |-> attempt, probe |-> probe]

TypeOK ==
    /\ circuit \in {"CLOSED", "OPEN", "HALF_OPEN"}
    /\ cool \in Nat /\ told \in Nat
    /\ cool > 0 => circuit = "OPEN"
    /\ failures \in 0..Threshold
    /\ jobs \in 0..MaxJobs
    /\ req \in [Worker -> [pc : {"idle", "queued", "sent", "backoff"},
                           attempt : 0..MaxRetries, probe : BOOLEAN]]
    /\ sick \in BOOLEAN /\ passed \subseteq Worker

Init ==
    /\ circuit = "CLOSED" /\ cool = 0 /\ failures = 0 /\ told = 0
    /\ jobs = 0 /\ req = [w \in Worker |-> Idle]
    /\ sick = TRUE /\ passed = {}

Later(a, b) == IF a > b THEN a ELSE b
Less(a) == IF a > 0 THEN a - 1 ELSE 0
At(w, pc) == req[w].pc = pc
Goes(w, pc) == req' = [req EXCEPT ![w].pc = pc]
Ends(w) == req' = [req EXCEPT ![w] = Idle]

-----------------------------------------------------------------------------
\* poll_once fills the queue; the next one waits for its last worker.
Poll ==
    /\ jobs = 0 /\ \A w \in Worker : At(w, "idle")
    /\ jobs' \in 1..MaxJobs
    /\ UNCHANGED <<breaker, failures, told, req, sick>>

\* A worker takes a batch, and its request is let in ...
Takes(w) == At(w, "idle") /\ jobs > 0 /\ jobs' = jobs - 1

Admit(w) ==
    /\ Takes(w)
    /\ circuit = "CLOSED"
    /\ req' = [req EXCEPT ![w] = Queued(0, FALSE)]
    /\ passed' = passed \ {w}
    /\ UNCHANGED <<circuit, cool, failures, told, sick>>

\* ... or is the one that tries an open circuit that has cooled down ...
Probe(w) ==
    /\ Takes(w)
    /\ circuit = "OPEN" /\ cool = 0
    /\ circuit' = "HALF_OPEN"
    /\ req' = [req EXCEPT ![w] = Queued(0, TRUE)]
    /\ passed' = passed \ {w}
    /\ UNCHANGED <<cool, failures, told, sick>>

\* ... or is refused at once.
Refuse(w) ==
    /\ Takes(w)
    /\ circuit = "HALF_OPEN" \/ (circuit = "OPEN" /\ cool > 0)
    /\ UNCHANGED <<breaker, failures, told, req, sick>>

\* The slot is there and the request is sent; nobody looks at the circuit.
Send(w) ==
    /\ At(w, "queued")
    /\ Goes(w, "sent")
    /\ passed' = IF circuit = "OPEN" THEN passed \union {w} ELSE passed
    /\ UNCHANGED <<circuit, cool, failures, told, jobs, sick>>

-----------------------------------------------------------------------------
(* The answer.                                                             *)

OpenCircuit_Anew(seconds) ==
    /\ circuit' = "OPEN" /\ cool' = seconds
    /\ passed' = IF circuit = "OPEN" THEN passed ELSE {}

OpenCircuit(seconds) ==
    /\ circuit' = "OPEN" /\ cool' = Later(cool, seconds)
    /\ passed' = IF circuit = "OPEN" THEN passed ELSE {}

Unresolved_Never(w) == FALSE
\* the finally clause: a probe that did not close the circuit opens it again
Unresolved(w) == req[w].probe /\ circuit = "HALF_OPEN"
Leaves(w) ==
    /\ IF Unresolved(w) THEN OpenCircuit(Cooldown) ELSE UNCHANGED breaker
    /\ Ends(w)

\* _record_transport_failure counts to the threshold
Counted == IF failures < Threshold THEN failures + 1 ELSE failures
Trips == Counted >= Threshold

\* 200: only the probe closes a half-open circuit, and only a request that
\* is none keeps a closed one.
Succeeds(w) ==
    /\ At(w, "sent")
    /\ failures' = 0
    /\ IF circuit = (IF req[w].probe THEN "HALF_OPEN" ELSE "CLOSED")
       THEN circuit' = "CLOSED" /\ cool' = 0 /\ UNCHANGED passed
       ELSE UNCHANGED breaker
    /\ Ends(w)
    /\ UNCHANGED <<told, jobs, sick>>

\* 429
RateLimited(w) ==
    /\ At(w, "sent") /\ sick
    /\ \E seconds \in RetryAfter :
          /\ OpenCircuit(seconds)
          /\ told' = Later(told, seconds)
    /\ Ends(w)
    /\ UNCHANGED <<failures, jobs, sick>>

\* another status below 500: it counts, and is not tried again
Rejected(w) ==
    /\ At(w, "sent") /\ sick
    /\ failures' = Counted
    /\ IF Trips THEN OpenCircuit(Cooldown) /\ Ends(w) ELSE Leaves(w)
    /\ UNCHANGED <<told, jobs, sick>>

\* 200 without JSON raises past the handlers: it does not count
Malformed(w) ==
    /\ At(w, "sent") /\ sick
    /\ Leaves(w)
    /\ UNCHANGED <<failures, told, jobs, sick>>

BacksOff(w) == Goes(w, "backoff") /\ UNCHANGED breaker

Errs_KeepsTrying(w) ==
    /\ At(w, "sent") /\ sick
    /\ failures' = Counted
    /\ IF req[w].attempt < MaxRetries
       THEN Goes(w, "backoff") /\ IF Trips THEN OpenCircuit(Cooldown) ELSE UNCHANGED breaker
       ELSE IF Trips THEN OpenCircuit(Cooldown) /\ Ends(w) ELSE Leaves(w)
    /\ UNCHANGED <<told, jobs, sick>>

Errs_OnceMore(w) ==
    /\ At(w, "sent") /\ sick
    /\ failures' = Counted
    /\ IF Trips THEN OpenCircuit(Cooldown) /\ Ends(w)
       ELSE IF circuit # "OPEN" /\ req[w].attempt <= MaxRetries THEN BacksOff(w)
       ELSE Leaves(w)
    /\ UNCHANGED <<told, jobs, sick>>

\* a server error, a timeout or a broken connection: it is tried again unless
\* the circuit is open by now
Errs(w) ==
    /\ At(w, "sent") /\ sick
    /\ failures' = Counted
    /\ IF Trips THEN OpenCircuit(Cooldown) /\ Ends(w)
       ELSE IF circuit # "OPEN" /\ req[w].attempt < MaxRetries THEN BacksOff(w)
       ELSE Leaves(w)
    /\ UNCHANGED <<told, jobs, sick>>

Retries(w) ==
    /\ At(w, "backoff")
    /\ req' = [req EXCEPT ![w] = Queued(@.attempt + 1, @.probe)]
    /\ UNCHANGED <<breaker, failures, told, jobs, sick>>

-----------------------------------------------------------------------------
Tick ==
    /\ cool > 0 \/ told > 0
    /\ cool' = Less(cool) /\ told' = Less(told)
    /\ UNCHANGED <<circuit, failures, jobs, req, sick, passed>>

\* From now on the provider answers every request with what it asks for.
Recovers ==
    /\ sick /\ sick' = FALSE
    /\ UNCHANGED <<breaker, failures, told, jobs, req>>

Steps(w) ==
    \/ Admit(w) \/ Probe(w) \/ Refuse(w) \/ Send(w) \/ Succeeds(w) \/ RateLimited(w)
    \/ Rejected(w) \/ Malformed(w) \/ Errs(w) \/ Retries(w)

Next == Poll \/ Tick \/ Recovers \/ \E w \in Worker : Steps(w)

Spec == Init /\ [][Next]_vars

\* The poll loop goes on, a request gets its slot and its answer (or a timeout)
\* and its backoff ends, and time passes.  Nothing makes the provider recover.
FairSpec ==
    /\ Spec
    /\ WF_vars(Poll) /\ WF_vars(Tick) /\ \A w \in Worker : WF_vars(Steps(w))

-----------------------------------------------------------------------------
\* As long as a Retry-After lasts that the client was told, its circuit stays
\* open and cooling: no success of an older request, no failure with a shorter
\* cooldown and no second limit lets a new request in before its end.
RetryAfterKept == told > 0 => circuit = "OPEN" /\ told <= cool

\* A request that was let in before the circuit opened sends at most once
\* while it is open, however many workers wait for slots and backoffs.
OncePerOpening ==
    [][\A w \in passed : circuit = "OPEN" /\ At(w, "queued") => req'[w].pc # "sent"]_vars

\* Once the provider is well the circuit closes: no late failure and no probe
\* that ended in an unusual way leaves it open or half open for good.
CircuitHeals == ~sick /\ circuit # "CLOSED" ~> circuit = "CLOSED"
=============================================================================
