---------------------- MODULE ExecutionEngine_proofs ----------------------
(***************************************************************************)
(* What ExecutionEngine guarantees for every set of orders, whatever calls *)
(* of the venue fail and however its threads interleave.                   *)
(***************************************************************************)
EXTENDS ExecutionEngine, TLAPS

-----------------------------------------------------------------------------
(* The parts of TypeOK, one for each place the state is kept in.           *)

FlagsType == {running, recal, sweeping, rerun, fuse, floor, liquidated} \subseteq BOOLEAN
BooksType ==
    /\ {queued, pending, attempted, workers} \subseteq SUBSET Order
    /\ age \in [Order -> {"young", "old", "expired"}]
LockType == owner \in {"none", "main"}
RouterType ==
    /\ venue \in [Order -> {"none", "live", "ended"}]
    /\ mapping \in [Order -> {"none", "active", "terminal"}]
MainType == main \in [at: MainSteps, todo: SUBSET Order, equity: {"high", "floor", "fuse"},
                      next: {"idle", "outage", "act"}]
ExecType == exec \in [at: {"idle", "get", "send", "file"}, order: Order \union {NoOrder}]
SweepType == sweep \in [at: SweepSteps, todo: SUBSET Order, second: BOOLEAN]
PcvType == pcv \in [Thread -> [at: PcvSteps, order: Order \union {NoOrder}]]
CountType == sends \in [Order -> Nat] /\ late \in Nat

Typed ==
    /\ FlagsType /\ BooksType /\ LockType /\ RouterType
    /\ MainType /\ ExecType /\ SweepType /\ PcvType /\ CountType

\* The parts make up TypeOK.
LEMMA TypeParts == Typed <=> TypeOK
BY DEF Typed, TypeOK, FlagsType, BooksType, LockType, RouterType, MainType, ExecType, SweepType,
       PcvType, CountType

-----------------------------------------------------------------------------
(* The strengthening: what a thread knows at its step, for each property.  *)

\* a thread that is at work on an order has one
ExecutorHasOrder == exec.order \in Order <=> exec.at \in {"send", "file"}
CancelHasOrder == \A t \in Thread : pcv[t].at # "idle" => pcv[t].order \in Order

\* a signal that waits or is about to be sent is not at the venue, and an order that
\* is not at the venue has no mapping
WaitingUnmapped ==
    /\ \A o \in queued : venue[o] = "none" /\ exec.order # o
    /\ exec.at = "send" => venue[exec.order] = "none"
    /\ \A o \in Order : venue[o] = "none" => mapping[o] = "none"

\* a cancel is sent by a thread that claimed the order, and one thread claims it
CancelsCounted ==
    /\ \A o \in Order : sends[o] = 0 \/ (sends[o] = 1 /\ o \in attempted)
    /\ \A t \in Thread : pcv[t].at = "send" =>
                           pcv[t].order \in attempted /\ sends[pcv[t].order] = 0
    /\ pcv["main"].at = "send" /\ pcv["sweeper"].at = "send" =>
         pcv["main"].order # pcv["sweeper"].order

\* an order is sent late by the wait that was going on, which was the last
LateStopped == late = 0 \/ (late = 1 /\ ~running /\ exec.at \in {"idle", "file"})

\* a fuse that is on while the engine runs was on at the start, and no signal got
\* in since, or has just triggered, and the main loop is about to stop the engine
Untouched == queued = {} /\ exec.order = NoOrder /\ \A o \in Order : venue[o] = "none"
FuseActed == fuse /\ running => Untouched \/ main.at \in {"clear", "stop"}

IInv ==
    /\ Typed /\ ExecutorHasOrder /\ CancelHasOrder /\ CancelsCounted
    /\ WaitingUnmapped /\ LateStopped /\ FuseActed /\ PendingComplete

-----------------------------------------------------------------------------
(* The definitions that every step needs.                                  *)

USE OrderAssumption
USE DEF flags, books, sweeper, risk, router, threads, history, NoOrder, Idle, MainIdle, SweepIdle,
        Thread, PcvAt, PcvGoto, PcvReturn, PcvKeeps, SweepGoto, SweepKeeps, Learn, Without,
        Status, CancelAcked, CancelFails, Fresh, Forgettable, SecondPass

\* A step that leaves alone what a part of the invariant speaks of keeps that part.
LEMMA Frame ==
    /\ FlagsType /\ UNCHANGED <<running, recal, sweeping, rerun, fuse, floor, liquidated>> =>
         FlagsType'
    /\ BooksType /\ UNCHANGED <<queued, pending, attempted, workers, age>> => BooksType'
    /\ LockType /\ UNCHANGED owner => LockType'
    /\ RouterType /\ UNCHANGED <<venue, mapping>> => RouterType'
    /\ MainType /\ UNCHANGED main => MainType'
    /\ ExecType /\ UNCHANGED exec => ExecType'
    /\ SweepType /\ UNCHANGED sweep => SweepType'
    /\ PcvType /\ UNCHANGED pcv => PcvType'
    /\ CountType /\ UNCHANGED <<sends, late>> => CountType'
    /\ ExecutorHasOrder /\ UNCHANGED exec => ExecutorHasOrder'
    /\ CancelHasOrder /\ UNCHANGED pcv => CancelHasOrder'
    /\ CancelsCounted /\ UNCHANGED <<attempted, pcv, sends>> => CancelsCounted'
    /\ WaitingUnmapped /\ UNCHANGED <<queued, exec, venue, mapping>> => WaitingUnmapped'
    /\ LateStopped /\ UNCHANGED <<late, running, exec>> => LateStopped'
    /\ FuseActed /\ UNCHANGED <<fuse, running, queued, exec, venue, main>> => FuseActed'
    /\ PendingComplete /\ UNCHANGED <<liquidated, venue, mapping, pending, exec>> =>
         PendingComplete'
BY DEF FlagsType, BooksType, LockType, RouterType, MainType, ExecType, SweepType, PcvType,
       CountType, ExecutorHasOrder, CancelHasOrder, CancelsCounted, WaitingUnmapped, LateStopped,
       FuseActed, Untouched, PendingComplete

-----------------------------------------------------------------------------
(* One lemma for each thread, one step for each action, and under it one   *)
(* for each part of the invariant that the action can disturb.             *)

\* Time and the venue.  Only an order that lives can end.
LEMMA EnvironmentKeeps == ASSUME IInv, Environment  PROVE  IInv'
<1> USE DEF IInv, Typed
<1>1. ASSUME NEW o \in Order, VenueEnd(o)  PROVE  IInv'
  <2> USE <1>1 DEF VenueEnd
  <2>1. RouterType'  BY DEF RouterType
  <2>2. WaitingUnmapped'  BY DEF WaitingUnmapped, ExecutorHasOrder, ExecType, BooksType,
         RouterType
  <2>3. FuseActed'  BY DEF FuseActed, Untouched, ExecutorHasOrder, ExecType, MainType, BooksType
  <2>4. PendingComplete'  BY DEF PendingComplete, ExecutorHasOrder, ExecType, RouterType,
         BooksType
  <2> QED  BY <2>1, <2>2, <2>3, <2>4, Frame
<1>2. ASSUME NEW o \in Order, Ages(o)  PROVE  IInv'
  <2> USE <1>2 DEF Ages
  <2>1. BooksType'  BY DEF BooksType
  <2> QED  BY <2>1, Frame
<1> QED  BY <1>1, <1>2 DEF Environment

\* A signal gets in only while the fuse is off.
LEMMA AdmissionKeeps == ASSUME IInv, Admission  PROVE  IInv'
<1> USE DEF IInv, Typed
<1>1. CASE PauseEnds
  <2> USE <1>1 DEF PauseEnds
  <2>1. FlagsType'  BY DEF FlagsType
  <2> QED  BY <2>1, Frame
<1>2. ASSUME NEW o \in Order, Admit(o)  PROVE  IInv'
  <2> USE <1>2 DEF Admit
  <2>1. BooksType'  BY DEF BooksType
  <2>2. WaitingUnmapped'  BY DEF WaitingUnmapped, ExecutorHasOrder, ExecType, BooksType,
         RouterType
  <2>3. FuseActed'  BY DEF FuseActed, Untouched, ExecutorHasOrder, ExecType, MainType, BooksType
  <2> QED  BY <2>1, <2>2, <2>3, Frame
<1> QED  BY <1>1, <1>2 DEF Admission

\* The main loop: a fuse that triggers goes on to stop the engine.
LEMMA AssessmentKeeps == ASSUME IInv, Assessment  PROVE  IInv'
<1> USE DEF IInv, Typed
<1>1. CASE CheckFloor
  <2> USE <1>1 DEF CheckFloor
  <2>1. FlagsType'  BY DEF FlagsType
  <2>2. MainType'  BY DEF MainType, MainSteps, BooksType
  <2>3. FuseActed'  BY DEF FuseActed, Untouched, ExecutorHasOrder, ExecType, MainType, BooksType
  <2> QED  BY <2>1, <2>2, <2>3, Frame
<1>2. CASE CancelNext
  <2> USE <1>2 DEF CancelNext
  <2>1. MainType'  BY DEF MainType, MainSteps, BooksType
  <2>2. PcvType'  BY DEF PcvType, PcvSteps, MainType
  <2>3. CancelHasOrder'  BY DEF CancelHasOrder, PcvType, MainType
  <2>4. CancelsCounted'  BY DEF CancelsCounted, CancelHasOrder, PcvType, CountType, BooksType
  <2>5. FuseActed'  BY DEF FuseActed, Untouched, ExecutorHasOrder, ExecType, MainType, BooksType
  <2> QED  BY <2>1, <2>2, <2>3, <2>4, <2>5, Frame
<1>3. CASE CheckFuse
  <2> USE <1>3 DEF CheckFuse
  <2>1. FlagsType'  BY DEF FlagsType
  <2>2. MainType'  BY DEF MainType, MainSteps
  <2>3. FuseActed'  BY DEF FuseActed, Untouched, ExecutorHasOrder, ExecType, MainType, BooksType
  <2> QED  BY <2>1, <2>2, <2>3, Frame
<1>4. CASE CheckOutage
  <2> USE <1>4 DEF CheckOutage
  <2>1. MainType'  BY DEF MainType, MainSteps
  <2>2. FuseActed'  BY DEF FuseActed, Untouched, ExecutorHasOrder, ExecType, MainType, BooksType
  <2> QED  BY <2>1, <2>2, Frame
<1>5. CASE Act
  <2> USE <1>5 DEF Act
  <2>1. LockType'  BY DEF LockType
  <2>2. MainType'
    <3>1. CASE main' = MainIdle  BY <3>1 DEF MainType, MainSteps
    <3>2. CASE main' = [main EXCEPT !.at = "clear", !.next = "idle"]
      BY <3>2 DEF MainType, MainSteps
    <3> QED  BY <3>1, <3>2
  <2>3. FuseActed'  BY DEF FuseActed, Untouched, ExecutorHasOrder, ExecType, MainType, BooksType
  <2> QED  BY <2>1, <2>2, <2>3, Frame
<1>6. CASE EmergencyClear
  <2> USE <1>6 DEF EmergencyClear
  <2>1. FlagsType'  BY DEF FlagsType
  <2>2. BooksType'  BY DEF BooksType
  <2>3. MainType'  BY DEF MainType, MainSteps
  <2>4. FuseActed'  BY DEF FuseActed, Untouched, ExecutorHasOrder, ExecType, MainType, BooksType
  <2>5. PendingComplete'  BY DEF PendingComplete, ExecutorHasOrder, ExecType, RouterType,
         BooksType
  <2> QED  BY <2>1, <2>2, <2>3, <2>4, <2>5, Frame
<1>7. CASE EmergencyStop
  <2> USE <1>7 DEF EmergencyStop
  <2>1. FlagsType'  BY DEF FlagsType
  <2>2. MainType'  BY DEF MainType, MainSteps
  <2>3. LateStopped'  BY DEF LateStopped, ExecutorHasOrder, ExecType, CountType, FlagsType
  <2>4. FuseActed'  BY DEF FuseActed, Untouched, ExecutorHasOrder, ExecType, MainType, BooksType
  <2> QED  BY <2>1, <2>2, <2>3, <2>4, Frame
<1> QED  BY <1>1, <1>2, <1>3, <1>4, <1>5, <1>6, <1>7 DEF Assessment

\* The executor: after a stop it begins no wait and takes no second signal.
LEMMA ExecutorKeeps == ASSUME IInv, Executor  PROVE  IInv'
<1> USE DEF IInv, Typed
<1>1. CASE ExecutorLoop
  <2> USE <1>1 DEF ExecutorLoop
  <2>1. ExecType'  BY DEF ExecType
  <2>2. ExecutorHasOrder'  BY DEF ExecutorHasOrder, ExecType
  <2>3. WaitingUnmapped'  BY DEF WaitingUnmapped, ExecutorHasOrder, ExecType, BooksType,
         RouterType
  <2>4. LateStopped'  BY DEF LateStopped, ExecutorHasOrder, ExecType, CountType, FlagsType
  <2>5. FuseActed'  BY DEF FuseActed, Untouched, ExecutorHasOrder, ExecType, MainType, BooksType
  <2>6. PendingComplete'  BY DEF PendingComplete, ExecutorHasOrder, ExecType, RouterType,
         BooksType
  <2> QED  BY <2>1, <2>2, <2>3, <2>4, <2>5, <2>6, Frame
<1>2. CASE Get
  <2> USE <1>2 DEF Get
  <2>1. BooksType'  BY DEF BooksType
  <2>2. ExecType'  BY DEF ExecType, BooksType
  <2>3. ExecutorHasOrder'  BY DEF ExecutorHasOrder, ExecType, BooksType
  <2>4. WaitingUnmapped'  BY DEF WaitingUnmapped, ExecutorHasOrder, ExecType, BooksType,
         RouterType
  <2>5. LateStopped'  BY DEF LateStopped, ExecutorHasOrder, ExecType, CountType, FlagsType
  <2>6. FuseActed'  BY DEF FuseActed, Untouched, ExecutorHasOrder, ExecType, MainType, BooksType
  <2>7. PendingComplete'  BY DEF PendingComplete, ExecutorHasOrder, ExecType, RouterType,
         BooksType
  <2> QED  BY <2>1, <2>2, <2>3, <2>4, <2>5, <2>6, <2>7, Frame
<1>3. CASE Send
  <2> USE <1>3 DEF Send
  <2>1. RouterType'  BY DEF RouterType
  <2>2. ExecType'  BY DEF ExecType
  <2>3. CountType'  BY DEF CountType
  <2>4. ExecutorHasOrder'  BY DEF ExecutorHasOrder, ExecType
  <2>5. WaitingUnmapped'  BY DEF WaitingUnmapped, ExecutorHasOrder, ExecType, BooksType,
         RouterType
  <2>6. LateStopped'  BY DEF LateStopped, ExecutorHasOrder, ExecType, CountType, FlagsType
  <2>7. FuseActed'  BY DEF FuseActed, Untouched, ExecutorHasOrder, ExecType, MainType, BooksType
  <2>8. PendingComplete'
    <3> SUFFICES ASSUME ~liquidated, NEW o \in Order, venue'[o] = "live", mapping'[o] = "active"
                 PROVE  o \in pending \/ exec' = [at |-> "file", order |-> o]
      BY DEF PendingComplete
    <3>1. CASE o # exec.order  BY <3>1 DEF PendingComplete, ExecType, RouterType
    <3>2. CASE o = exec.order /\ mapping[o] = "none"
      BY <3>2 DEF ExecType, RouterType
    <3>3. mapping[exec.order] = "none"
      BY DEF ExecType, RouterType, ExecutorHasOrder, WaitingUnmapped
    <3> QED  BY <3>1, <3>2, <3>3
  <2> QED  BY <2>1, <2>2, <2>3, <2>4, <2>5, <2>6, <2>7, <2>8, Frame
<1>4. CASE File
  <2> USE <1>4 DEF File
  <2>1. BooksType'  BY DEF BooksType, ExecType, ExecutorHasOrder
  <2>2. ExecType'  BY DEF ExecType
  <2>3. ExecutorHasOrder'  BY DEF ExecutorHasOrder, ExecType
  <2>4. WaitingUnmapped'  BY DEF WaitingUnmapped, ExecutorHasOrder, ExecType, BooksType,
         RouterType
  <2>5. LateStopped'  BY DEF LateStopped, ExecutorHasOrder, ExecType, CountType, FlagsType
  <2>6. FuseActed'  BY DEF FuseActed, Untouched, ExecutorHasOrder, ExecType, MainType, BooksType
  <2>7. PendingComplete'  BY DEF PendingComplete, ExecutorHasOrder, ExecType, RouterType,
         BooksType
  <2> QED  BY <2>1, <2>2, <2>3, <2>4, <2>5, <2>6, <2>7, Frame
<1> QED  BY <1>1, <1>2, <1>3, <1>4 DEF Executor

\* A verified cancel: the claim under the lock lets one thread through.
LEMMA CancellationKeeps == ASSUME IInv, NEW t \in Thread, Cancellation(t)  PROVE  IInv'
<1> USE DEF IInv, Typed
<1>1. CASE PcvCheck(t)
  <2> USE <1>1 DEF PcvCheck
  <2>1. PcvType'  BY DEF PcvType, PcvSteps, CancelHasOrder
  <2>2. CancelHasOrder'  BY DEF CancelHasOrder, PcvType
  <2>3. CancelsCounted'  BY DEF CancelsCounted, CancelHasOrder, PcvType, CountType, BooksType
  <2> QED  BY <2>1, <2>2, <2>3, Frame
<1>2. CASE PcvTerminal(t)
  <2> USE <1>2 DEF PcvTerminal
  <2>1. BooksType'  BY DEF BooksType, PcvType, CancelHasOrder
  <2>2. RouterType'  BY DEF RouterType, PcvType, CancelHasOrder
  <2>3. PcvType'  BY DEF PcvType, PcvSteps, CancelHasOrder
  <2>4. CancelHasOrder'  BY DEF CancelHasOrder, PcvType
  <2>5. CancelsCounted'  BY DEF CancelsCounted, CancelHasOrder, PcvType, CountType, BooksType
  <2>6. WaitingUnmapped'  BY DEF WaitingUnmapped, ExecutorHasOrder, ExecType, BooksType,
         RouterType, CancelHasOrder, PcvType
  <2>7. PendingComplete'  BY DEF PendingComplete, ExecutorHasOrder, ExecType, RouterType,
         BooksType
  <2> QED  BY <2>1, <2>2, <2>3, <2>4, <2>5, <2>6, <2>7, Frame
<1>3. CASE PcvClaim(t)
  <2> USE <1>3 DEF PcvClaim
  <2>1. BooksType'  BY DEF BooksType, PcvType, CancelHasOrder
  <2>2. PcvType'  BY DEF PcvType, PcvSteps, CancelHasOrder
  <2>3. CancelHasOrder'  BY DEF CancelHasOrder, PcvType
  <2>4. CancelsCounted'  BY DEF CancelsCounted, CancelHasOrder, PcvType, CountType, BooksType
  <2> QED  BY <2>1, <2>2, <2>3, <2>4, Frame
<1>4. CASE PcvSend(t)
  <2> USE <1>4 DEF PcvSend
  <2>1. RouterType'  BY DEF RouterType, PcvType, CancelHasOrder
  <2>2. PcvType'  BY DEF PcvType, PcvSteps, CancelHasOrder
  <2>3. CountType'  BY DEF CountType, PcvType, CancelHasOrder
  <2>4. CancelHasOrder'  BY DEF CancelHasOrder, PcvType
  <2>5. CancelsCounted'  BY DEF CancelsCounted, CancelHasOrder, PcvType, CountType, BooksType
  <2>6. WaitingUnmapped'  BY DEF WaitingUnmapped, ExecutorHasOrder, ExecType, BooksType,
         RouterType, CancelHasOrder, PcvType
  <2>7. PendingComplete'  BY DEF PendingComplete, ExecutorHasOrder, ExecType, RouterType,
         BooksType
  <2> QED  BY <2>1, <2>2, <2>3, <2>4, <2>5, <2>6, <2>7, Frame
<1>5. CASE PcvVerify(t)
  <2> USE <1>5 DEF PcvVerify
  <2>1. BooksType'  BY DEF BooksType, PcvType, CancelHasOrder
  <2>2. RouterType'  BY DEF RouterType, PcvType, CancelHasOrder
  <2>3. PcvType'  BY DEF PcvType, PcvSteps, CancelHasOrder
  <2>4. CancelHasOrder'  BY DEF CancelHasOrder, PcvType
  <2>5. CancelsCounted'  BY DEF CancelsCounted, CancelHasOrder, PcvType, CountType, BooksType
  <2>6. WaitingUnmapped'  BY DEF WaitingUnmapped, ExecutorHasOrder, ExecType, BooksType,
         RouterType, CancelHasOrder, PcvType
  <2>7. PendingComplete'  BY DEF PendingComplete, ExecutorHasOrder, ExecType, RouterType,
         BooksType
  <2> QED  BY <2>1, <2>2, <2>3, <2>4, <2>5, <2>6, <2>7, Frame
<1> QED  BY <1>1, <1>2, <1>3, <1>4, <1>5 DEF Cancellation

\* The sweeper: it forgets an order only on a status that ends the mapping.
LEMMA SweeperKeeps == ASSUME IInv, Sweeper  PROVE  IInv'
<1> USE DEF IInv, Typed
<1>1. CASE Wake
  <2> USE <1>1 DEF Wake
  <2>1. SweepType'  BY DEF SweepType, SweepSteps
  <2> QED  BY <2>1, Frame
<1>2. CASE Begin
  <2> USE <1>2 DEF Begin
  <2>1. FlagsType'  BY DEF FlagsType
  <2>2. SweepType'
    <3>1. \/ sweep' = SweepIdle
          \/ sweep' = [at |-> "prune", todo |-> pending, second |-> FALSE]
      OBVIOUS
    <3> HIDE DEF Begin
    <3>2. CASE sweep' = SweepIdle  BY <3>2 DEF SweepType, SweepSteps
    <3>3. CASE sweep' = [at |-> "prune", todo |-> pending, second |-> FALSE]
      BY <3>3 DEF SweepType, SweepSteps, BooksType
    <3> QED  BY <3>1, <3>2, <3>3
  <2> QED  BY <2>1, <2>2, Frame
<1>3. CASE Select
  <2> USE <1>3 DEF Select
  <2>1. SweepType'  BY DEF SweepType, SweepSteps, BooksType
  <2> QED  BY <2>1, Frame
<1>4. CASE Total
  <2> USE <1>4 DEF Total
  <2>1. SweepType'  BY DEF SweepType, SweepSteps, BooksType
  <2> QED  BY <2>1, Frame
<1>5. CASE Update
  <2> USE <1>5 DEF Update
  <2>1. FlagsType'  BY DEF FlagsType
  <2>2. SweepType'  BY DEF SweepType, SweepSteps
  <2> QED  BY <2>1, <2>2, Frame
<1>6. CASE Rerun
  <2> USE <1>6 DEF Rerun
  <2>1. FlagsType'  BY DEF FlagsType
  <2>2. SweepType'  BY DEF SweepType, SweepSteps, BooksType
  <2> QED  BY <2>1, <2>2, Frame
<1>7. CASE Finish
  <2> USE <1>7 DEF Finish
  <2>1. FlagsType'  BY DEF FlagsType
  <2>2. SweepType'  BY DEF SweepType, SweepSteps
  <2> QED  BY <2>1, <2>2, Frame
<1>8. ASSUME NEW o \in Order, Prune(o)  PROVE  IInv'
  <2> USE <1>8 DEF Prune
  <2>1. BooksType'  BY DEF BooksType
  <2>2. RouterType'  BY DEF RouterType
  <2>3. SweepType'  BY DEF SweepType, SweepSteps
  <2>4. WaitingUnmapped'  BY DEF WaitingUnmapped, ExecutorHasOrder, ExecType, BooksType,
         RouterType
  <2>5. PendingComplete'  BY DEF PendingComplete, ExecutorHasOrder, ExecType, RouterType,
         BooksType
  <2> QED  BY <2>1, <2>2, <2>3, <2>4, <2>5, Frame
<1>9. ASSUME NEW o \in Order, SweepOne(o)  PROVE  IInv'
  <2> USE <1>9 DEF SweepOne
  <2>1. BooksType'  BY DEF BooksType
  <2>2. RouterType'  BY DEF RouterType
  <2>3. SweepType'  BY DEF SweepType, SweepSteps
  <2>4. PcvType'  BY DEF PcvType, PcvSteps, SweepType
  <2>5. CancelHasOrder'  BY DEF CancelHasOrder, PcvType
  <2>6. CancelsCounted'  BY DEF CancelsCounted, CancelHasOrder, PcvType, CountType, BooksType
  <2>7. WaitingUnmapped'  BY DEF WaitingUnmapped, ExecutorHasOrder, ExecType, BooksType,
         RouterType
  <2>8. PendingComplete'  BY DEF PendingComplete, ExecutorHasOrder, ExecType, RouterType,
         BooksType
  <2> QED  BY <2>1, <2>2, <2>3, <2>4, <2>5, <2>6, <2>7, <2>8, Frame
<1> QED  BY <1>1, <1>2, <1>3, <1>4, <1>5, <1>6, <1>7, <1>8, <1>9 DEF Sweeper

\* The start of an assessment, the operator, the pool and the shutdown.
LEMMA OtherKeeps ==
  ASSUME IInv, \/ \E equity \in {"high", "floor", "fuse"} : Assess(equity)
               \/ OperatorStop
               \/ \E o \in Order : EmergencyCancel(o) \/ ShutdownPrune(o)
  PROVE  IInv'
<1> USE DEF IInv, Typed
<1>1. ASSUME NEW equity \in {"high", "floor", "fuse"}, Assess(equity)  PROVE  IInv'
  <2> USE <1>1 DEF Assess
  <2>1. LockType'  BY DEF LockType
  <2>2. MainType'  BY DEF MainType, MainSteps
  <2>3. FuseActed'  BY DEF FuseActed, Untouched, ExecutorHasOrder, ExecType, MainType, BooksType
  <2> QED  BY <2>1, <2>2, <2>3, Frame
<1>2. CASE OperatorStop
  <2> USE <1>2 DEF OperatorStop
  <2>1. FlagsType'  BY DEF FlagsType
  <2>2. LateStopped'  BY DEF LateStopped, ExecutorHasOrder, ExecType, CountType, FlagsType
  <2>3. FuseActed'  BY DEF FuseActed, Untouched, ExecutorHasOrder, ExecType, MainType, BooksType
  <2> QED  BY <2>1, <2>2, <2>3, Frame
<1>3. ASSUME NEW o \in Order, EmergencyCancel(o)  PROVE  IInv'
  <2> USE <1>3 DEF EmergencyCancel
  <2>1. BooksType'  BY DEF BooksType
  <2>2. RouterType'  BY DEF RouterType
  <2>3. WaitingUnmapped'  BY DEF WaitingUnmapped, ExecutorHasOrder, ExecType, BooksType,
         RouterType
  <2>4. PendingComplete'  BY DEF PendingComplete, ExecutorHasOrder, ExecType, RouterType,
         BooksType
  <2> QED  BY <2>1, <2>2, <2>3, <2>4, Frame
<1>4. ASSUME NEW o \in Order, ShutdownPrune(o)  PROVE  IInv'
  <2> USE <1>4 DEF ShutdownPrune
  <2>1. BooksType'  BY DEF BooksType
  <2>2. RouterType'  BY DEF RouterType
  <2>3. WaitingUnmapped'  BY DEF WaitingUnmapped, ExecutorHasOrder, ExecType, BooksType,
         RouterType
  <2>4. PendingComplete'  BY DEF PendingComplete, ExecutorHasOrder, ExecType, RouterType,
         BooksType
  <2> QED  BY <2>1, <2>2, <2>3, <2>4, Frame
<1> QED  BY <1>1, <1>2, <1>3, <1>4

-----------------------------------------------------------------------------
\* The invariant holds when the engine has started.
LEMMA InitKeeps == Init => IInv
<1> SUFFICES ASSUME Init  PROVE  IInv  OBVIOUS
<1> USE DEF Init
<1>1. Typed
  <2>1. TypeOK  BY DEF TypeOK, MainSteps, SweepSteps, PcvSteps
  <2> QED  BY <2>1, TypeParts
<1>2. ExecutorHasOrder /\ CancelHasOrder /\ CancelsCounted
  BY DEF ExecutorHasOrder, CancelHasOrder, CancelsCounted
<1>3. WaitingUnmapped /\ LateStopped /\ FuseActed /\ PendingComplete
  BY DEF WaitingUnmapped, LateStopped, FuseActed, Untouched, PendingComplete
<1> QED  BY <1>1, <1>2, <1>3 DEF IInv

\* Every step keeps it.
LEMMA NextKeeps == IInv /\ [Next]_vars => IInv'
<1> SUFFICES ASSUME IInv, [Next]_vars  PROVE  IInv'  OBVIOUS
<1>1. CASE Environment  BY <1>1, EnvironmentKeeps
<1>2. CASE Admission  BY <1>2, AdmissionKeeps
<1>3. CASE Assessment  BY <1>3, AssessmentKeeps
<1>4. CASE Executor  BY <1>4, ExecutorKeeps
<1>5. CASE Sweeper  BY <1>5, SweeperKeeps
<1>6. CASE \E t \in Thread : Cancellation(t)  BY <1>6, CancellationKeeps
<1>7. CASE \/ \E equity \in {"high", "floor", "fuse"} : Assess(equity)
           \/ OperatorStop
           \/ \E o \in Order : EmergencyCancel(o) \/ ShutdownPrune(o)
  BY <1>7, OtherKeeps
<1>8. CASE UNCHANGED vars  BY <1>8, Frame DEF IInv, Typed, vars
<1> QED  BY <1>1, <1>2, <1>3, <1>4, <1>5, <1>6, <1>7, <1>8 DEF Next

\* Every state of every run is well typed: no thread files, cancels or sends what
\* is not an order.
THEOREM TypeCorrect == Spec => []TypeOK
<1>1. IInv => TypeOK  BY TypeParts DEF IInv
<1> QED  BY InitKeeps, NextKeeps, <1>1, PTL DEF Spec

\* An order is canceled at most once by a verified cancel, although the main loop
\* and the sweeper may both find that it is due.
THEOREM CancelOnceHolds == Spec => []CancelOnce
<1>1. IInv => CancelOnce  BY DEF IInv, CancelsCounted, CancelOnce
<1> QED  BY InitKeeps, NextKeeps, <1>1, PTL DEF Spec

\* After the engine stopped at most one order is sent.
THEOREM OneLateOrderHolds == Spec => []OneLateOrder
<1>1. IInv => OneLateOrder  BY DEF IInv, LateStopped, OneLateOrder
<1> QED  BY InitKeeps, NextKeeps, <1>1, PTL DEF Spec

\* Between assessments a triggered fuse has stopped the engine.
THEOREM FuseStopsHolds == Spec => []FuseStops
<1>1. IInv => FuseStops  BY DEF IInv, FuseActed, Untouched, FuseStops
<1> QED  BY InitKeeps, NextKeeps, <1>1, PTL DEF Spec

\* Until an emergency, every acknowledged order that lives at the venue is pending.
THEOREM PendingCompleteHolds == Spec => []PendingComplete
<1>1. IInv => PendingComplete  BY DEF IInv
<1> QED  BY InitKeeps, NextKeeps, <1>1, PTL DEF Spec
=============================================================================
