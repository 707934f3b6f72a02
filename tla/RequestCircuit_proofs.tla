------------------------- MODULE RequestCircuit_proofs -------------------------
(***************************************************************************)
(* Proofs about RequestCircuit, for any workers, batches, retries,         *)
(* threshold, cooldown and Retry-After.                                    *)
(***************************************************************************)
EXTENDS RequestCircuit, TLAPS

\* An opening never shortens the cooldown, and leaves it at least as long as
\* what it was opened for (_open_circuit).
LEMMA OpeningCools ==
  ASSUME NEW seconds \in Nat, TypeOK, OpenCircuit(seconds)
  PROVE  /\ circuit' = "OPEN" /\ cool' \in Nat
         /\ cool' >= cool /\ cool' >= seconds /\ passed' \subseteq Worker
  BY DEF OpenCircuit, Later, TypeOK

\* What a request that leaves does to the circuit: nothing, or an opening.
LEMMA LeavingCools ==
  ASSUME TypeOK, NEW w \in Worker, Leaves(w)
  PROVE  \/ UNCHANGED breaker
         \/ OpenCircuit(Cooldown)
  BY DEF Leaves

Request == [pc : {"idle", "queued", "sent", "backoff"}, attempt : 0..MaxRetries,
            probe : BOOLEAN]

\* A request that backs off has an attempt left.
AttemptLeft == \A w \in Worker : At(w, "backoff") => req[w].attempt < MaxRetries

IInv == TypeOK /\ AttemptLeft

\* What a step makes of one worker's request, and of nothing else in req.
LEMMA RequestSet ==
  ASSUME IInv, NEW w \in Worker, NEW r \in Request, req' = [req EXCEPT ![w] = r],
         r.pc = "backoff" => r.attempt < MaxRetries
  PROVE  /\ req' \in [Worker -> Request]
         /\ AttemptLeft'
  BY DEF IInv, TypeOK, AttemptLeft, At, Request

LEMMA RequestEnds ==
  ASSUME IInv, NEW w \in Worker, Ends(w)
  PROVE  req' \in [Worker -> Request] /\ AttemptLeft'
<1>1. Idle \in Request /\ Idle.pc # "backoff"
  BY PolicyAssumption DEF Idle, Request
<1> QED
  BY <1>1, RequestSet DEF Ends

LEMMA RequestGoes ==
  ASSUME IInv, NEW w \in Worker, NEW pc \in {"queued", "sent", "backoff"}, Goes(w, pc),
         pc = "backoff" => req[w].attempt < MaxRetries
  PROVE  req' \in [Worker -> Request] /\ AttemptLeft'
<1> DEFINE r == [req[w] EXCEPT !.pc = pc]
<1>1. req[w] \in Request
  BY DEF IInv, TypeOK, Request
<1>2. r \in Request /\ r.pc = pc /\ r.attempt = req[w].attempt
  BY <1>1 DEF Request
<1>3. req' = [req EXCEPT ![w] = r]
  BY DEF Goes
<1> QED
  BY <1>2, <1>3, RequestSet

\* The types, and that a backoff has an attempt left, whatever the answers.
THEOREM InvariantHolds == Spec => []IInv
<1>1. Init => IInv
  BY PolicyAssumption DEF Init, IInv, TypeOK, AttemptLeft, At, Idle
<1>2. IInv /\ [Next]_vars => IInv'
  <2> SUFFICES ASSUME IInv, [Next]_vars PROVE IInv'
    OBVIOUS
  <2> USE PolicyAssumption
  <2>1. CASE UNCHANGED vars
    BY <2>1 DEF vars, breaker, IInv, TypeOK, AttemptLeft, At
  <2>2. CASE Poll
    BY <2>2 DEF Poll, breaker, IInv, TypeOK, AttemptLeft, At
  <2>3. CASE Tick
    BY <2>3 DEF Tick, Less, IInv, TypeOK, AttemptLeft, At
  <2>4. CASE Recovers
    BY <2>4 DEF Recovers, breaker, IInv, TypeOK, AttemptLeft, At
  <2>5. ASSUME NEW w \in Worker, Steps(w)  PROVE IInv'
    <3> DEFINE Breaks == UNCHANGED breaker \/ OpenCircuit(Cooldown)
               Moved == req' \in [Worker -> Request] /\ AttemptLeft'
    <3>a. \A n \in 0..MaxRetries, p \in BOOLEAN :
           Queued(n, p) \in Request /\ Queued(n, p).pc = "queued"
      BY DEF Queued, Request
    <3>d. 0 \in 0..MaxRetries
      OBVIOUS
    <3>b. ASSUME Breaks, Moved, failures' \in 0..Threshold, UNCHANGED <<told, jobs, sick>>
          PROVE  IInv'
      <4>1. CASE UNCHANGED breaker
        BY <3>b, <4>1 DEF breaker, IInv, TypeOK, Request
      <4>2. CASE OpenCircuit(Cooldown)
        <5>1. circuit' = "OPEN" /\ cool' \in Nat /\ passed' \subseteq Worker
          BY <4>2, OpeningCools DEF IInv
        <5> QED
          BY <3>b, <5>1 DEF IInv, TypeOK, Request
      <4> QED  BY <3>b, <4>1, <4>2
    <3>c. Counted \in 0..Threshold
      BY DEF Counted, IInv, TypeOK
    <3>1. CASE Admit(w)
      <4>1. Queued(0, FALSE) \in Request /\ Queued(0, FALSE).pc = "queued"
        BY <3>a, <3>d
      <4>2. req' = [req EXCEPT ![w] = Queued(0, FALSE)]
        BY <3>1 DEF Admit
      <4>3. Moved
        BY <4>1, <4>2, RequestSet
      <4>4. jobs' \in 0..MaxJobs /\ passed' \subseteq Worker
        BY <3>1 DEF Admit, Takes, IInv, TypeOK
      <4> QED
        BY <3>1, <4>3, <4>4 DEF Admit, IInv, TypeOK, Request
    <3>2. CASE Probe(w)
      <4>1. Queued(0, TRUE) \in Request /\ Queued(0, TRUE).pc = "queued"
        BY <3>a, <3>d
      <4>2. req' = [req EXCEPT ![w] = Queued(0, TRUE)]
        BY <3>2 DEF Probe
      <4>3. Moved
        BY <4>1, <4>2, RequestSet
      <4>4. jobs' \in 0..MaxJobs /\ passed' \subseteq Worker
        BY <3>2 DEF Probe, Takes, IInv, TypeOK
      <4>5. circuit' = "HALF_OPEN" /\ cool' = 0 /\ UNCHANGED <<failures, told, sick>>
        BY <3>2 DEF Probe
      <4> QED
        BY <4>3, <4>4, <4>5 DEF IInv, TypeOK, Request
    <3>3. CASE Refuse(w)
      BY <3>3 DEF Refuse, Takes, breaker, IInv, TypeOK, AttemptLeft, At
    <3>4. CASE Send(w)
      <4>1. Moved
        BY <3>4, RequestGoes DEF Send
      <4> QED
        BY <3>4, <4>1 DEF Send, IInv, TypeOK, Request
    <3>5. CASE Succeeds(w)
      <4>1. Moved
        BY <3>5, RequestEnds DEF Succeeds
      <4> QED
        BY <3>5, <4>1 DEF Succeeds, breaker, IInv, TypeOK, Request
    <3>6. CASE RateLimited(w)
      <4>1. PICK seconds \in RetryAfter : OpenCircuit(seconds) /\ told' = Later(told, seconds)
        BY <3>6 DEF RateLimited
      <4>2. seconds \in Nat
        OBVIOUS
      <4>3. circuit' = "OPEN" /\ cool' \in Nat /\ passed' \subseteq Worker
        BY <4>1, <4>2, OpeningCools DEF IInv
      <4>4. told' \in Nat
        BY <4>1, <4>2 DEF Later, IInv, TypeOK
      <4>5. Moved
        BY <3>6, RequestEnds DEF RateLimited
      <4> QED
        BY <3>6, <4>3, <4>4, <4>5 DEF RateLimited, IInv, TypeOK, Request
    <3>7. CASE Rejected(w)
      <4>1. Breaks /\ Ends(w)
        BY <3>7, LeavingCools DEF Rejected, Leaves, IInv
      <4> QED
        BY <3>7, <3>b, <3>c, <4>1, RequestEnds DEF Rejected
    <3>8. CASE Malformed(w)
      <4>1. Breaks /\ Ends(w)
        BY <3>8, LeavingCools DEF Malformed, Leaves, IInv
      <4>2. failures' \in 0..Threshold
        BY <3>8 DEF Malformed, IInv, TypeOK
      <4> QED
        BY <3>8, <3>b, <4>1, <4>2, RequestEnds DEF Malformed
    <3>9. CASE Errs(w)
      <4>1. Breaks
        BY <3>9, LeavingCools DEF Errs, BacksOff, IInv
      <4>2. Ends(w) \/ (Goes(w, "backoff") /\ req[w].attempt < MaxRetries)
        BY <3>9 DEF Errs, Leaves, BacksOff
      <4>3. Moved
        BY <4>2, RequestEnds, RequestGoes
      <4> QED
        BY <3>9, <3>b, <3>c, <4>1, <4>3 DEF Errs
    <3>10. CASE Retries(w)
      <4>1. req[w] \in Request /\ req[w].attempt < MaxRetries
        BY <3>10 DEF Retries, IInv, TypeOK, AttemptLeft, Request
      <4>2. req[w].attempt + 1 \in 0..MaxRetries /\ req[w].probe \in BOOLEAN
        BY <4>1 DEF Request
      <4>3. req' = [req EXCEPT ![w] = Queued(req[w].attempt + 1, req[w].probe)]
        BY <3>10 DEF Retries
      <4>4. Moved
        BY <3>a, <4>2, <4>3, RequestSet
      <4> QED
        BY <3>10, <4>4 DEF Retries, breaker, IInv, TypeOK, Request
    <3> QED
      BY <2>5, <3>1, <3>2, <3>3, <3>4, <3>5, <3>6, <3>7, <3>8, <3>9, <3>10 DEF Steps
  <2> QED
    BY <2>1, <2>2, <2>3, <2>4, <2>5 DEF Next
<1> QED
  BY <1>1, <1>2, PTL DEF Spec

\* Every variable keeps its type, and only an open circuit cools: whatever the
\* answers and their order, _circuit_open_until lies ahead of an open circuit
\* alone, and no request is tried more often than the policy allows.
THEOREM TypeCorrect == Spec => []TypeOK
  BY InvariantHolds, PTL DEF IInv

\* As long as a Retry-After lasts that the client was told, its circuit stays
\* open and cooling, whatever requests are still under way (RetryAfterKept):
\* _open_circuit never shortens a cooldown, and nothing but a probe, let in when
\* the cooldown is over, closes the circuit.
THEOREM RetryAfterKeptHolds == Spec => []RetryAfterKept
<1>1. Init => RetryAfterKept
  BY DEF Init, RetryAfterKept
<1>2. IInv /\ RetryAfterKept /\ [Next]_vars => RetryAfterKept'
  <2> SUFFICES ASSUME IInv, RetryAfterKept, [Next]_vars PROVE RetryAfterKept'
    OBVIOUS
  <2> USE DEF RetryAfterKept
  <2>a. cool \in Nat /\ told \in Nat /\ (cool > 0 => circuit = "OPEN")
    BY DEF IInv, TypeOK
  <2>b. ASSUME UNCHANGED breaker \/ OpenCircuit(Cooldown), UNCHANGED told
        PROVE  RetryAfterKept'
    <3>1. CASE UNCHANGED breaker
      BY <2>b, <3>1 DEF breaker
    <3>2. CASE OpenCircuit(Cooldown)
      <4>1. circuit' = "OPEN" /\ cool' \in Nat /\ cool' >= cool
        BY <3>2, PolicyAssumption, OpeningCools DEF IInv
      <4> QED
        BY <2>a, <2>b, <4>1
    <3> QED  BY <2>b, <3>1, <3>2
  <2>1. CASE UNCHANGED vars \/ Poll \/ Recovers
    BY <2>1 DEF vars, Poll, Recovers, breaker
  <2>2. CASE Tick
    BY <2>2, <2>a DEF Tick, Less
  <2>3. ASSUME NEW w \in Worker, Steps(w)  PROVE RetryAfterKept'
    <3>1. CASE Admit(w) \/ Refuse(w) \/ Send(w) \/ Retries(w)
      BY <3>1 DEF Admit, Refuse, Send, Retries, breaker
    <3>2. CASE Probe(w)
      BY <3>2, <2>a DEF Probe
    <3>3. CASE Succeeds(w)
      <4>1. circuit = "OPEN" => UNCHANGED <<circuit, cool, told>>
        BY <3>3 DEF Succeeds, breaker
      <4>2. circuit # "OPEN" => told = 0 /\ UNCHANGED told
        BY <3>3, <2>a DEF Succeeds
      <4> QED
        BY <4>1, <4>2
    <3>4. CASE RateLimited(w)
      <4>1. PICK seconds \in RetryAfter : OpenCircuit(seconds) /\ told' = Later(told, seconds)
        BY <3>4 DEF RateLimited
      <4>2. seconds \in Nat
        BY PolicyAssumption
      <4>3. circuit' = "OPEN" /\ cool' \in Nat /\ cool' >= cool /\ cool' >= seconds
        BY <4>1, <4>2, OpeningCools DEF IInv
      <4> QED
        BY <2>a, <4>1, <4>2, <4>3 DEF Later
    <3>5. CASE Rejected(w) \/ Malformed(w) \/ Errs(w)
      <4>1. (UNCHANGED breaker \/ OpenCircuit(Cooldown)) /\ UNCHANGED told
        BY <3>5, LeavingCools DEF Rejected, Malformed, Errs, BacksOff, IInv
      <4> QED
        BY <2>b, <4>1
    <3> QED
      BY <2>3, <3>1, <3>2, <3>3, <3>4, <3>5 DEF Steps
  <2> QED
    BY <2>1, <2>2, <2>3 DEF Next
<1> QED
  BY <1>1, <1>2, InvariantHolds, PTL DEF Spec

\* A request that was sent while the circuit is open waits for its answer or
\* has ended.
SentOnly == circuit = "OPEN" => \A w \in passed : At(w, "idle") \/ At(w, "sent")

\* What opens the circuit forgets who was sent before, unless it was open.
LEMMA OpeningForgets ==
  ASSUME NEW seconds, SentOnly, OpenCircuit(seconds),
         NEW w \in Worker, TypeOK, Ends(w)
  PROVE  SentOnly'
  BY DEF SentOnly, OpenCircuit, Ends, Idle, At, TypeOK

\* A request that was let in before the circuit opened sends at most once
\* while it is open (OncePerOpening): _request looks at the circuit after each
\* failed attempt and gives up when it is open.
THEOREM OncePerOpeningHolds == Spec => OncePerOpening
<1> DEFINE Once == \A w \in passed :
                      circuit = "OPEN" /\ At(w, "queued") => req'[w].pc # "sent"
<1>1. Init => SentOnly
  BY DEF Init, SentOnly
<1>2. IInv /\ SentOnly /\ [Next]_vars => SentOnly'
  <2> SUFFICES ASSUME IInv, SentOnly, [Next]_vars PROVE SentOnly'
    OBVIOUS
  <2>a. TypeOK
    BY DEF IInv
  <2>1. CASE UNCHANGED vars \/ Poll \/ Tick \/ Recovers
    BY <2>1 DEF vars, Poll, Tick, Recovers, breaker, SentOnly, At
  <2>2. ASSUME NEW w \in Worker, Steps(w)  PROVE SentOnly'
    <3>a. ASSUME UNCHANGED breaker, Ends(w)  PROVE SentOnly'
      BY <3>a, <2>a DEF breaker, Ends, Idle, SentOnly, At, TypeOK
    <3>1. CASE Admit(w) \/ Probe(w)
      BY <3>1 DEF Admit, Probe, SentOnly
    <3>2. CASE Refuse(w)
      BY <3>2 DEF Refuse, breaker, SentOnly, At
    <3>3. CASE Send(w)
      BY <3>3, <2>a DEF Send, Goes, SentOnly, At, TypeOK
    <3>4. CASE Succeeds(w)
      <4>1. CASE UNCHANGED breaker
        BY <3>4, <3>a, <4>1 DEF Succeeds
      <4>2. CASE circuit' = "CLOSED"
        BY <4>2 DEF SentOnly
      <4> QED
        BY <3>4, <4>1, <4>2 DEF Succeeds
    <3>5. CASE RateLimited(w)
      BY <3>5, <2>a, OpeningForgets DEF RateLimited
    <3>6. CASE Rejected(w) \/ Malformed(w)
      <4>1. (UNCHANGED breaker \/ OpenCircuit(Cooldown)) /\ Ends(w)
        BY <3>6 DEF Rejected, Malformed, Leaves
      <4> QED
        BY <2>a, <3>a, <4>1, OpeningForgets
    <3>7. CASE Errs(w)
      <4>1. CASE Ends(w)
        <5>1. UNCHANGED breaker \/ OpenCircuit(Cooldown)
          BY <3>7, LeavingCools, <2>a DEF Errs, BacksOff
        <5> QED
          BY <2>a, <3>a, <4>1, <5>1, OpeningForgets
      <4>2. CASE circuit # "OPEN" /\ BacksOff(w)
        BY <4>2 DEF BacksOff, breaker, SentOnly
      <4> QED
        BY <3>7, <4>1, <4>2 DEF Errs, Leaves
    <3>8. CASE Retries(w)
      BY <3>8, <2>a DEF Retries, Queued, breaker, SentOnly, At, TypeOK
    <3> QED
      BY <2>2, <3>1, <3>2, <3>3, <3>4, <3>5, <3>6, <3>7, <3>8 DEF Steps
  <2> QED
    BY <2>1, <2>2 DEF Next
<1>3. SentOnly => Once
  BY DEF SentOnly, At
<1>4. Spec => []SentOnly
  BY <1>1, <1>2, InvariantHolds, PTL DEF Spec
<1>5. SentOnly /\ [Next]_vars => [Once]_vars
  BY <1>3
<1>6. Spec => [][Once]_vars
  BY <1>4, <1>5, PTL DEF Spec
<1> QED
  BY <1>6 DEF OncePerOpening
=============================================================================
