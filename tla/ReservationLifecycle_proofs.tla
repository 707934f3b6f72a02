-------------------- MODULE ReservationLifecycle_proofs --------------------
(***************************************************************************)
(* What ReservationLifecycle guarantees for every set of reservations, of  *)
(* dedupe keys and of workers, every quantity, and every failure: each     *)
(* step of each worker is one action, so the theorems hold of every        *)
(* interleaving.                                                           *)
(***************************************************************************)
EXTENDS ReservationLifecycle, WellFoundedInduction, TLAPS

USE DEF ReadFails

-----------------------------------------------------------------------------
(* The strengthening that makes the types inductive: a call in its release *)
(* part has something to release, and a fill that is about to be recorded  *)
(* is not empty.                                                           *)

Releasing == {"r_key", "r_resolve", "r_tomb", "r_memory", "r_record", "r_remove", "r_upsert"}

ControlOK ==
    /\ pc \in [Worker -> PC]
    /\ call \in [Worker -> Call]
    /\ \A w \in Worker : pc[w] \in Releasing => call[w].release \in Terminal
    /\ \A w \in Worker : pc[w] = "f_record" => call[w].cum > 0

DataOK ==
    /\ StoreTypeOK
    /\ mem \in [Rid -> [held: BOOLEAN, filled: 0..Qty]]
    /\ venue \in [Rid -> [status: {"none", "live"} \union Terminal, filled: 0..OrderQty]]
    /\ up \in BOOLEAN /\ hydrated \in BOOLEAN
    /\ crashes \in 0..MaxCrashes

IInv == ControlOK /\ DataOK

-----------------------------------------------------------------------------
(* Facts about the operators of the model.                                 *)

\* A nonempty set of natural numbers has a least element.
LEMMA LeastNatural ==
    ASSUME NEW T \in SUBSET Nat, T # {}
    PROVE  \E x \in T : \A y \in T : x <= y
<1> DEFINE R == {ss \in Nat \X Nat : ss[1] < ss[2]}
<1>1. R = OpToRel(<, Nat)  BY DEF OpToRel
<1>2. IsWellFoundedOn(R, Nat)  BY <1>1, NatLessThanWellFounded
<1> HIDE DEF R
<1>3. PICK x \in T : \A y \in T : ~(<<y, x>> \in R)  BY <1>2, WFMin
<1>4. \A y \in T : ~(y < x)  BY <1>3 DEF R
<1> QED  BY <1>4

\* The highest cumulative quantity of the journal exists: it is 0 or that of
\* a row, and bounds every row.
LEMMA MaxCumFacts ==
    ASSUME progress \in [Rid -> SUBSET Progress], NEW r \in Rid
    PROVE  /\ MaxCum(r) \in 0..OrderQty
           /\ MaxCum(r) = 0 \/ \E p \in progress[r] : p.cum = MaxCum(r)
           /\ \A p \in progress[r] : p.cum <= MaxCum(r)
<1> DEFINE T == {u \in Nat : \A p \in progress[r] : p.cum <= u}
           IsMax(m) == /\ m = 0 \/ \E p \in progress[r] : p.cum = m
                       /\ \A p \in progress[r] : p.cum <= m
<1>1. \A p \in progress[r] : p.cum \in 1..OrderQty  BY DEF Progress
<1>2. OrderQty \in T  BY <1>1, QtyAssumption
<1>3. PICK m \in T : \A u \in T : m <= u  BY <1>2, LeastNatural
<1>4. m \in 0..OrderQty  BY <1>2, <1>3, QtyAssumption
<1>5. IsMax(m)
  <2> SUFFICES ASSUME m # 0, \A p \in progress[r] : p.cum # m
               PROVE  FALSE
    BY <1>3
  <2>1. \A p \in progress[r] : p.cum <= m - 1  BY <1>1, <1>3
  <2>2. m - 1 \in T  BY <2>1, <1>3
  <2> QED  BY <2>2, <1>3
<1>6. \E n \in 0..OrderQty : IsMax(n)  BY <1>4, <1>5
<1>7. MaxCum(r) = CHOOSE n \in 0..OrderQty : IsMax(n)  BY DEF MaxCum
<1>8. MaxCum(r) \in 0..OrderQty /\ IsMax(MaxCum(r))  BY <1>6, <1>7
<1> QED  BY <1>8

\* The call of an idle worker, and of one that starts, is well formed.
LEMMA NoCallType == NoCall \in Call /\ NoCall.release = "none"
<1>1. (CHOOSE r \in Rid : TRUE) \in Rid  BY RidAssumption
<1> QED  BY <1>1, QtyAssumption DEF NoCall, Call, NoRow, Row, Terminal

LEMMA CallForType ==
    ASSUME NEW r \in Rid
    PROVE  CallFor(r) \in Call
BY NoCallType DEF CallFor, Call

\* The rows that the exposure manager writes are rows of the ledger.
LEMMA RowTypes ==
    /\ \A n \in 0..Qty : OpenRow(n) \in Row
    /\ \A n \in Nat : CompletedRow(n) \in Row
    /\ \A s \in Terminal, n \in 0..Qty : ReleasedRow(s, n) \in Row
BY QtyAssumption DEF OpenRow, CompletedRow, ReleasedRow, Row, Terminal, Lower

-----------------------------------------------------------------------------
(* How a step moves the worker that takes it: every move keeps the control *)
(* state well formed.                                                      *)

LEMMA SetType ==
    ASSUME ControlOK, NEW w \in Worker, NEW there \in PC, NEW c \in Call, Set(w, there, c),
           there \in Releasing => c.release \in Terminal,
           there = "f_record" => c.cum > 0
    PROVE  ControlOK'
BY DEF ControlOK, Set

LEMMA GotoType ==
    ASSUME ControlOK, NEW w \in Worker, NEW there \in PC, Goto(w, there),
           there \in Releasing => call[w].release \in Terminal,
           there # "f_record"
    PROVE  ControlOK'
BY DEF ControlOK, Goto

LEMMA ReturnType ==
    ASSUME ControlOK, NEW w \in Worker, Return(w)
    PROVE  ControlOK'
BY NoCallType DEF ControlOK, Return, PC, Releasing

LEMMA AfterFillType ==
    ASSUME ControlOK, NEW w \in Worker, NEW done \in BOOLEAN, AfterFill(w, done)
    PROVE  ControlOK'
<1>1. call[w].release \in {"none"} \union Terminal  BY DEF ControlOK, Call
<1>2. CASE call[w].release = "none"
  BY <1>2, ReturnType DEF AfterFill
<1>3. CASE call[w].release = "cancelled"
  BY <1>3, GotoType DEF AfterFill, PC, Releasing, Terminal
<1>4. CASE call[w].release = "filled"
  <2>1. IF done THEN Goto(w, "r_tomb") ELSE Return(w)  BY <1>4 DEF AfterFill
  <2> QED  BY <1>4, <2>1, ReturnType, GotoType DEF PC, Releasing, Terminal
<1> QED  BY <1>1, <1>2, <1>3, <1>4 DEF Terminal

-----------------------------------------------------------------------------
(* The store's writes keep its tables well formed.                         *)

LEMMA UpsertType ==
    ASSUME StoreTypeOK, NEW r \in Rid, NEW row \in Row, Upsert(r, row)
    PROVE  StoreTypeOK'
BY DEF StoreTypeOK, Upsert

LEMMA RecordProgressType ==
    ASSUME StoreTypeOK, NEW r \in Rid, NEW p \in Progress, RecordProgress(r, p)
    PROVE  StoreTypeOK'
BY DEF StoreTypeOK, RecordProgress

LEMMA RecordTombstoneType ==
    ASSUME StoreTypeOK, NEW r \in Rid, NEW key \in Terminal, RecordTombstone(r, key)
    PROVE  StoreTypeOK'
BY DEF StoreTypeOK, RecordTombstone

LEMMA StoreSame ==
    ASSUME StoreTypeOK, UNCHANGED store
    PROVE  StoreTypeOK'
BY DEF StoreTypeOK, store

\* A step that only reads leaves the data well formed.
LEMMA ReadingType ==
    ASSUME DataOK, Reading
    PROVE  DataOK'
BY StoreSame DEF DataOK, Reading

-----------------------------------------------------------------------------
(* The steps of the three guarded helpers.                                 *)

LEMMA OpenStepType ==
    ASSUME IInv, NEW w \in Worker, OpenStep(w)
    PROVE  IInv'
<1> DEFINE c == call[w]
<1> USE DEF IInv
<1>0. /\ c \in Call /\ c.rid \in Rid /\ c.target \in Rid /\ c.row \in Row
      /\ StoreTypeOK /\ mem \in [Rid -> [held: BOOLEAN, filled: 0..Qty]]
  BY DEF ControlOK, DataOK, Call
<1>1. CASE OpenReadTombstone(w)
  BY <1>1, ReadingType, ReturnType, GotoType DEF OpenReadTombstone, PC, Releasing
<1>2. CASE OpenReadDedupe(w)
  BY <1>2, ReadingType, ReturnType, GotoType DEF OpenReadDedupe, PC, Releasing
<1>3. CASE OpenReadMemory(w)
  BY <1>3, ReadingType, ReturnType, GotoType DEF OpenReadMemory, PC, Releasing
<1>4. CASE OpenReserve(w)
  <2> DEFINE opened(q, n) == [c EXCEPT !.target = q, !.row = OpenRow(n)]
  <2>1. \A q \in Rid, n \in 0..Qty : opened(q, n) \in Call  BY <1>0, RowTypes DEF Call
  <2>2. mem' \in [Rid -> [held: BOOLEAN, filled: 0..Qty]]
    <3>1. mem' = mem \/ mem' = [mem EXCEPT ![c.rid] = Held(0)]  BY <1>4 DEF OpenReserve
    <3>2. Held(0) \in [held: BOOLEAN, filled: 0..Qty]  BY QtyAssumption DEF Held
    <3> QED  BY <3>1, <3>2, <1>0
  <2>3. DataOK'
    <3>1. Remembering  BY <1>4 DEF OpenReserve
    <3> QED  BY <3>1, <2>2, StoreSame DEF DataOK, Remembering
  <2>4. \/ Return(w)
        \/ \E q \in Rid, n \in 0..Qty : Set(w, "o_upsert", opened(q, n))
    <3>1. \/ Return(w)
          \/ Set(w, "o_upsert", opened(c.rid, 0))
          \/ \E q \in Rid : Set(w, "o_upsert", opened(q, mem[q].filled))
      BY <1>4 DEF OpenReserve, SameDedupe
    <3>2. 0 \in 0..Qty /\ \A q \in Rid : mem[q].filled \in 0..Qty  BY <1>0, QtyAssumption
    <3> HIDE DEF opened, c
    <3> QED  BY <3>1, <3>2, <1>0
  <2>5. ControlOK'
    <3> HIDE DEF opened
    <3> QED  BY <2>1, <2>4, ReturnType, SetType DEF PC, Releasing
  <2> QED  BY <2>3, <2>5
<1>5. CASE OpenUpsert(w)
  <2>1. StoreTypeOK'  BY <1>5, <1>0, UpsertType, StoreSame DEF OpenUpsert
  <2>2. DataOK'  BY <1>5, <2>1 DEF OpenUpsert, DataOK, Storing
  <2>3. ControlOK'  BY <1>5, ReturnType, GotoType DEF OpenUpsert, PC, Releasing
  <2> QED  BY <2>2, <2>3
<1>6. CASE OpenRollback(w)
  <2>1. mem' \in [Rid -> [held: BOOLEAN, filled: 0..Qty]]
    BY <1>6, <1>0, QtyAssumption DEF OpenRollback, Free
  <2>2. DataOK'  BY <1>6, <2>1, StoreSame DEF OpenRollback, DataOK, Remembering
  <2>3. ControlOK'  BY <1>6, ReturnType DEF OpenRollback
  <2> QED  BY <2>2, <2>3
<1> QED  BY <1>1, <1>2, <1>3, <1>4, <1>5, <1>6 DEF OpenStep

LEMMA FillStepType ==
    ASSUME IInv, NEW w \in Worker, FillStep(w)
    PROVE  IInv'
<1> DEFINE c == call[w]
<1> USE DEF IInv
<1>0. /\ c \in Call /\ c.rid \in Rid /\ c.row \in Row
      /\ c.cum \in 0..OrderQty /\ c.delta \in 0..OrderQty /\ c.snap \in 0..Qty
      /\ c.kind \in {"partial", "closing"} /\ c.event \in 1..OrderQty
      /\ StoreTypeOK /\ mem \in [Rid -> [held: BOOLEAN, filled: 0..Qty]]
  BY DEF ControlOK, DataOK, Call
<1>1. CASE FillResolve(w)
  BY <1>1, ReadingType, AfterFillType, GotoType DEF FillResolve, PC, Releasing
<1>2. CASE FillReadMemory(w)
  <2>1. [c EXCEPT !.snap = mem[c.rid].filled] \in Call  BY <1>0 DEF Call
  <2>2. Reading  BY <1>2 DEF FillReadMemory
  <2>3. \/ Set(w, "f_progress", [c EXCEPT !.snap = mem[c.rid].filled])
        \/ AfterFill(w, FALSE)
    BY <1>2 DEF FillReadMemory
  <2> QED  BY <2>1, <2>2, <2>3, ReadingType, AfterFillType, SetType DEF PC, Releasing
<1>3. CASE FillReadProgress(w)
  <2> DEFINE d == [c EXCEPT !.delta = Lower(c.cum - c.snap, c.delta)]
  <2>1. Reading  BY <1>3 DEF FillReadProgress
  <2>2. \/ c.cum > c.snap /\ Set(w, "f_record", d)
        \/ \E done \in BOOLEAN : AfterFill(w, done)
    BY <1>3 DEF FillReadProgress
  <2>3. ASSUME c.cum > c.snap, Set(w, "f_record", d)
        PROVE  ControlOK'
    <3>1. Lower(c.cum - c.snap, c.delta) \in 0..OrderQty
      BY <2>3, <1>0, QtyAssumption DEF Lower
    <3>2. d \in Call /\ d.cum > 0  BY <3>1, <2>3, <1>0 DEF Call
    <3> HIDE DEF d
    <3> QED  BY <3>2, <2>3, SetType DEF PC, Releasing
  <2> QED  BY <2>1, <2>2, <2>3, ReadingType, AfterFillType
<1>4. CASE FillRecord(w)
  <2> DEFINE p == [key |-> [kind |-> c.kind, event |-> c.event], cum |-> c.cum]
  <2>1. c.cum > 0  BY <1>4 DEF FillRecord, At, ControlOK
  <2>2. p \in Progress  BY <2>1, <1>0, QtyAssumption DEF Progress, FillKey
  <2>3. StoreTypeOK'
    <3>1. RecordProgress(c.rid, p) \/ UNCHANGED store  BY <1>4 DEF FillRecord
    <3> HIDE DEF p
    <3> QED  BY <3>1, <2>2, <1>0, RecordProgressType, StoreSame
  <2>4. DataOK'  BY <1>4, <2>3 DEF FillRecord, DataOK, Storing
  <2>5. ControlOK'
    <3>1. Goto(w, "f_apply") \/ AfterFill(w, FALSE)  BY <1>4 DEF FillRecord
    <3> QED  BY <3>1, GotoType, AfterFillType DEF PC, Releasing
  <2> QED  BY <2>4, <2>5
<1>5. CASE FillApply(w)
  <2> DEFINE after == Lower(Qty, mem[c.rid].filled + c.delta)
             stays == mem[c.rid].held /\ after < Qty
             d == [c EXCEPT !.row = IF stays THEN OpenRow(after) ELSE CompletedRow(c.cum)]
  <2>1. after \in 0..Qty  BY <1>0, QtyAssumption DEF Lower
  <2>2. mem' \in [Rid -> [held: BOOLEAN, filled: 0..Qty]]
    <3>1. mem' = [mem EXCEPT ![c.rid] = IF stays THEN Held(after) ELSE Free]
      BY <1>5 DEF FillApply
    <3> HIDE DEF after, stays
    <3> QED  BY <3>1, <2>1, <1>0, QtyAssumption DEF Held, Free
  <2>3. DataOK'
    <3>1. Remembering  BY <1>5 DEF FillApply
    <3> QED  BY <3>1, <2>2, StoreSame DEF DataOK, Remembering
  <2>4. d \in Call
    <3>1. (IF stays THEN OpenRow(after) ELSE CompletedRow(c.cum)) \in Row
      <4> HIDE DEF after, stays
      <4> QED  BY <2>1, <1>0, QtyAssumption, RowTypes
    <3> QED  BY <3>1, <1>0 DEF Call
  <2>5. Set(w, "f_upsert", d)  BY <1>5 DEF FillApply
  <2>6. ControlOK'
    <3> HIDE DEF d
    <3> QED  BY <2>4, <2>5, SetType DEF PC, Releasing
  <2> QED  BY <2>3, <2>6
<1>6. CASE FillUpsert(w)
  <2>1. StoreTypeOK'  BY <1>6, <1>0, UpsertType, StoreSame DEF FillUpsert
  <2>2. DataOK'  BY <1>6, <2>1 DEF FillUpsert, DataOK, Storing
  <2>3. ControlOK'  BY <1>6, AfterFillType DEF FillUpsert
  <2> QED  BY <2>2, <2>3
<1> QED  BY <1>1, <1>2, <1>3, <1>4, <1>5, <1>6 DEF FillStep

LEMMA ReleaseStepType ==
    ASSUME IInv, NEW w \in Worker, ReleaseStep(w)
    PROVE  IInv'
<1> DEFINE c == call[w]
<1> USE DEF IInv
<1>0. /\ c \in Call /\ c.rid \in Rid /\ c.row \in Row /\ c.snap \in 0..Qty
      /\ StoreTypeOK /\ mem \in [Rid -> [held: BOOLEAN, filled: 0..Qty]]
  BY DEF ControlOK, DataOK, Call
<1>r. \A here \in Releasing : At(w, here) => c.release \in Terminal
  BY DEF At, ControlOK
<1>1. CASE ReleaseReadKey(w)
  <2>1. c.release \in Terminal  BY <1>1, <1>r DEF ReleaseReadKey, Releasing
  <2> QED  BY <1>1, <2>1, ReadingType, ReturnType, GotoType DEF ReleaseReadKey, PC
<1>2. CASE ReleaseResolve(w)
  <2>1. c.release \in Terminal  BY <1>2, <1>r DEF ReleaseResolve, Releasing
  <2>2. Return(w) \/ Goto(w, "f_resolve") \/ Goto(w, "r_tomb")  BY <1>2 DEF ReleaseResolve
  <2>3. Reading  BY <1>2 DEF ReleaseResolve
  <2> QED  BY <2>1, <2>2, <2>3, ReadingType, ReturnType, GotoType DEF PC
<1>3. CASE ReleaseReadTombstone(w)
  <2>1. c.release \in Terminal  BY <1>3, <1>r DEF ReleaseReadTombstone, Releasing
  <2> QED  BY <1>3, <2>1, ReadingType, ReturnType, GotoType DEF ReleaseReadTombstone, PC
<1>4. CASE ReleaseReadMemory(w)
  <2> DEFINE d == [c EXCEPT !.snap = mem[c.rid].filled]
  <2>1. c.release \in Terminal  BY <1>4, <1>r DEF ReleaseReadMemory, Releasing
  <2>2. d \in Call /\ d.release \in Terminal  BY <1>0, <2>1 DEF Call
  <2>3. Reading  BY <1>4 DEF ReleaseReadMemory
  <2>4. Set(w, "r_record", d) \/ Return(w)  BY <1>4 DEF ReleaseReadMemory
  <2> HIDE DEF d
  <2> QED  BY <2>2, <2>3, <2>4, ReadingType, ReturnType, SetType DEF PC
<1>5. CASE ReleaseRecord(w)
  <2>1. c.release \in Terminal  BY <1>5, <1>r DEF ReleaseRecord, Releasing
  <2>2. StoreTypeOK'  BY <1>5, <1>0, <2>1, RecordTombstoneType, StoreSame DEF ReleaseRecord
  <2>3. DataOK'  BY <1>5, <2>2 DEF ReleaseRecord, DataOK, Storing
  <2>4. Goto(w, "r_remove") \/ Return(w)  BY <1>5 DEF ReleaseRecord
  <2>5. ControlOK'  BY <2>1, <2>4, ReturnType, GotoType DEF PC
  <2> QED  BY <2>3, <2>5
<1>6. CASE ReleaseRemove(w)
  <2> DEFINE d == [c EXCEPT !.row = ReleasedRow(c.release, c.snap)]
  <2>1. c.release \in Terminal  BY <1>6, <1>r DEF ReleaseRemove, Releasing
  <2>2. d \in Call /\ d.release \in Terminal
    <3>1. ReleasedRow(c.release, c.snap) \in Row  BY <2>1, <1>0, RowTypes
    <3> QED  BY <3>1, <1>0, <2>1 DEF Call
  <2>3. mem' \in [Rid -> [held: BOOLEAN, filled: 0..Qty]]
    BY <1>6, <1>0, QtyAssumption DEF ReleaseRemove, Free
  <2>4. DataOK'
    <3>1. Remembering  BY <1>6 DEF ReleaseRemove
    <3> QED  BY <3>1, <2>3, StoreSame DEF DataOK, Remembering
  <2>5. Set(w, "r_upsert", d)  BY <1>6 DEF ReleaseRemove
  <2>6. ControlOK'
    <3> HIDE DEF d
    <3> QED  BY <2>2, <2>5, SetType DEF PC
  <2> QED  BY <2>4, <2>6
<1>7. CASE ReleaseUpsert(w)
  <2>1. StoreTypeOK'  BY <1>7, <1>0, UpsertType, StoreSame DEF ReleaseUpsert
  <2>2. DataOK'  BY <1>7, <2>1 DEF ReleaseUpsert, DataOK, Storing
  <2>3. ControlOK'  BY <1>7, ReturnType DEF ReleaseUpsert
  <2> QED  BY <2>2, <2>3
<1> QED  BY <1>1, <1>2, <1>3, <1>4, <1>5, <1>6, <1>7 DEF ReleaseStep

-----------------------------------------------------------------------------
(* The calls that start, the venue, crashes and restarts.                  *)

LEMMA ReportType ==
    ASSUME IInv, NEW w \in Worker, NEW r \in Rid, Report(w, r)
    PROVE  IInv'
<1> DEFINE n == venue[r].filled
<1> USE DEF IInv
<1>0. /\ n \in 0..OrderQty
      /\ venue \in [Rid -> [status: {"none", "live"} \union Terminal, filled: 0..OrderQty]]
  BY DEF DataOK
<1>1. CASE Submit(w, r)
  <2>1. venue' \in [Rid -> [status: {"none", "live"} \union Terminal, filled: 0..OrderQty]]
    BY <1>1, <1>0 DEF Submit
  <2>2. DataOK'  BY <1>1, <2>1, StoreSame DEF Submit, Start, DataOK
  <2>3. ControlOK'  BY <1>1, CallForType, SetType DEF Submit, Start, PC, Releasing
  <2> QED  BY <2>2, <2>3
<1>2. CASE ReportPartialFill(w, r)
  <2> DEFINE base == CallFor(r)
             d == [base EXCEPT !.event = n, !.cum = n, !.delta = n]
  <2>1. n > 0 /\ UNCHANGED venue /\ Start(w, "f_resolve", d)
    BY <1>2 DEF ReportPartialFill
  <2>2. base \in Call /\ n \in 1..OrderQty  BY <1>0, <2>1, CallForType, QtyAssumption
  <2>3. d \in Call
    <3> HIDE DEF base, n
    <3> QED  BY <1>0, <2>2 DEF Call
  <2> HIDE DEF d
  <2>4. DataOK'  BY <2>1, StoreSame DEF Start, DataOK
  <2>5. ControlOK'  BY <2>1, <2>3, SetType DEF Start, PC, Releasing
  <2> QED  BY <2>4, <2>5
<1>3. CASE ReportTerminal(w, r)
  <2> DEFINE base == CallFor(r)
             s == venue[r].status
             e == IF n = 0 THEN 1 ELSE n
             d == [base EXCEPT !.kind = "closing", !.release = s,
                               !.event = e, !.cum = n, !.delta = n]
  <2>1. /\ s \in Terminal /\ UNCHANGED venue
        /\ Start(w, "f_resolve", d) \/ Start(w, "r_key", d)
    BY <1>3 DEF ReportTerminal
  <2>2. base \in Call /\ e \in 1..OrderQty  BY <1>0, CallForType, QtyAssumption
  <2>3. d \in Call /\ d.release \in Terminal
    <3> HIDE DEF base, s, e, n
    <3> QED  BY <1>0, <2>1, <2>2 DEF Call
  <2> HIDE DEF d
  <2>4. DataOK'  BY <2>1, StoreSame DEF Start, DataOK
  <2>5. ControlOK'  BY <2>1, <2>3, SetType DEF Start, PC, Releasing
  <2> QED  BY <2>4, <2>5
<1> QED  BY <1>1, <1>2, <1>3 DEF Report

LEMMA EnvironmentType ==
    ASSUME IInv, NEW r \in Rid, VenueFill(r) \/ VenueClose(r)
    PROVE  IInv'
<1> USE DEF IInv
<1>1. venue \in [Rid -> [status: {"none", "live"} \union Terminal, filled: 0..OrderQty]]
  BY DEF DataOK
<1>2. venue' \in [Rid -> [status: {"none", "live"} \union Terminal, filled: 0..OrderQty]]
  <2>1. CASE VenueFill(r)
    <3> DEFINE s == IF venue[r].filled + 1 = OrderQty THEN "filled" ELSE "live"
    <3>1. venue' = [venue EXCEPT ![r].filled = @ + 1, ![r].status = s]  BY <2>1 DEF VenueFill
    <3>2. venue[r].filled + 1 \in 0..OrderQty  BY <2>1, <1>1, QtyAssumption DEF VenueFill
    <3>3. s \in {"none", "live"} \union Terminal  BY DEF Terminal
    <3> HIDE DEF s
    <3> QED  BY <3>1, <3>2, <3>3, <1>1
  <2>2. CASE VenueClose(r)  BY <2>2, <1>1 DEF VenueClose
  <2> QED  BY <2>1, <2>2
<1>3. Environment  BY DEF VenueFill, VenueClose
<1>4. DataOK'  BY <1>2, <1>3, StoreSame DEF DataOK, Environment
<1>5. ControlOK'  BY <1>3 DEF ControlOK, Environment
<1> QED  BY <1>4, <1>5

LEMMA CrashType ==
    ASSUME IInv, Crash
    PROVE  IInv'
<1> USE DEF IInv
<1>1. mem' \in [Rid -> [held: BOOLEAN, filled: 0..Qty]]
  BY QtyAssumption DEF Crash, Free
<1>2. crashes' \in 0..MaxCrashes  BY ModeAssumption DEF Crash, DataOK
<1>3. UNCHANGED <<store, venue, hydrated>> /\ up' = FALSE  BY DEF Crash
<1>4. DataOK'  BY <1>1, <1>2, <1>3, StoreSame DEF DataOK
<1>5. ControlOK'  BY NoCallType DEF Crash, ControlOK, PC, Releasing
<1> QED  BY <1>4, <1>5

LEMMA RestartType ==
    ASSUME IInv, Restart
    PROVE  IInv'
<1> USE DEF IInv
<1>1. ASSUME NEW r \in Rid, Recoverable(r)
      PROVE  Recovered(r) \in 0..Qty
  <2>1. MaxCum(r) \in 0..OrderQty  BY MaxCumFacts DEF DataOK, StoreTypeOK
  <2>2. ledger[r].filled \in 0..Qty  BY DEF DataOK, StoreTypeOK, Row
  <2> QED  BY <1>1, <2>1, <2>2, QtyAssumption DEF Recoverable, Recovered
<1>2. mem' \in [Rid -> [held: BOOLEAN, filled: 0..Qty]]
  <2>1. CASE mem' = [r \in Rid |-> IF Recoverable(r) THEN Held(Recovered(r)) ELSE Free]
    BY <2>1, <1>1, QtyAssumption DEF Held, Free
  <2>2. CASE UNCHANGED mem  BY <2>2 DEF DataOK
  <2> QED  BY <2>1, <2>2 DEF Restart
<1>3. DataOK'  BY <1>2, StoreSame DEF Restart, DataOK
<1>4. ControlOK'  BY DEF Restart, ControlOK
<1> QED  BY <1>3, <1>4

-----------------------------------------------------------------------------
(* Theorems of the specification.                                          *)

LEMMA InitInvariant == Init => IInv
<1> SUFFICES ASSUME Init PROVE IInv  OBVIOUS
<1>1. StoreTypeOK
  BY QtyAssumption DEF Init, StoreInit, StoreTypeOK, NoRow, Row
<1>2. DataOK
  BY <1>1, ModeAssumption, QtyAssumption DEF Init, DataOK, Free
<1>3. ControlOK
  BY NoCallType DEF Init, ControlOK, PC, Releasing
<1> QED  BY <1>2, <1>3 DEF IInv

LEMMA NextInvariant == IInv /\ [Next]_vars => IInv'
<1> SUFFICES ASSUME IInv, [Next]_vars PROVE IInv'  OBVIOUS
<1>1. ASSUME NEW r \in Rid, VenueFill(r) \/ VenueClose(r) PROVE IInv'
  BY <1>1, EnvironmentType
<1>2. ASSUME NEW w \in Worker, NEW r \in Rid, Report(w, r) PROVE IInv'
  BY <1>2, ReportType
<1>3. ASSUME NEW w \in Worker, OpenStep(w) PROVE IInv'
  BY <1>3, OpenStepType
<1>4. ASSUME NEW w \in Worker, FillStep(w) PROVE IInv'
  BY <1>4, FillStepType
<1>5. ASSUME NEW w \in Worker, ReleaseStep(w) PROVE IInv'
  BY <1>5, ReleaseStepType
<1>6. CASE Crash  BY <1>6, CrashType
<1>7. CASE Restart  BY <1>7, RestartType
<1>8. CASE UNCHANGED vars
  BY <1>8, StoreSame DEF vars, IInv, DataOK, ControlOK
<1> QED  BY <1>1, <1>2, <1>3, <1>4, <1>5, <1>6, <1>7, <1>8 DEF Next

\* The state and the locals of every call stay of their types, whatever fails
\* and however the calls of the guarded helpers interleave: no path through
\* the coordinator releases without a terminal status, records an empty fill,
\* or writes a row or a recovered reservation beyond its quantity.
THEOREM TypeCorrect == Spec => []TypeOK
<1>1. IInv => TypeOK  BY DEF IInv, DataOK, ControlOK, TypeOK
<1> QED  BY <1>1, InitInvariant, NextInvariant, PTL DEF Spec

-----------------------------------------------------------------------------
(* Whatever the workers do, the tables change only by the store's own      *)
(* transactions; what these preserve holds of every interleaving.          *)

StoreStep ==
    \E r \in Rid :
      \/ \E row \in Row : Upsert(r, row)
      \/ \E p \in Progress : RecordProgress(r, p)
      \/ \E key \in Terminal : RecordTombstone(r, key)

LEMMA NextIsStoreStep == IInv /\ [Next]_vars => StoreStep \/ UNCHANGED store
<1> SUFFICES ASSUME IInv, [Next]_vars PROVE StoreStep \/ UNCHANGED store  OBVIOUS
<1>1. ASSUME NEW r \in Rid, VenueFill(r) \/ VenueClose(r) PROVE UNCHANGED store
  BY <1>1 DEF VenueFill, VenueClose, Environment
<1>2. ASSUME NEW w \in Worker, NEW r \in Rid, Report(w, r) PROVE UNCHANGED store
  BY <1>2 DEF Report, Submit, ReportPartialFill, ReportTerminal, Start
<1>3. ASSUME NEW w \in Worker, OpenStep(w) \/ FillStep(w) \/ ReleaseStep(w)
      PROVE  StoreStep \/ UNCHANGED store
  <2> DEFINE c == call[w]
  <2>0. c.rid \in Rid /\ c.target \in Rid /\ c.row \in Row  BY DEF IInv, ControlOK, Call
  <2>1. CASE OpenUpsert(w)  BY <2>1, <2>0 DEF OpenUpsert, StoreStep
  <2>2. CASE FillUpsert(w)  BY <2>2, <2>0 DEF FillUpsert, StoreStep
  <2>3. CASE ReleaseUpsert(w)  BY <2>3, <2>0 DEF ReleaseUpsert, StoreStep
  <2>4. CASE FillRecord(w)
    <3> DEFINE p == [key |-> [kind |-> c.kind, event |-> c.event], cum |-> c.cum]
    <3>1. /\ c.cum \in 0..OrderQty /\ c.cum > 0
          /\ c.kind \in {"partial", "closing"} /\ c.event \in 1..OrderQty
      BY <2>4 DEF FillRecord, At, IInv, ControlOK, Call
    <3>2. p \in Progress  BY <3>1, QtyAssumption DEF Progress, FillKey
    <3>3. RecordProgress(c.rid, p) \/ UNCHANGED store  BY <2>4 DEF FillRecord
    <3> HIDE DEF p
    <3> QED  BY <3>2, <3>3, <2>0 DEF StoreStep
  <2>5. CASE ReleaseRecord(w)
    <3>1. c.release \in Terminal  BY <2>5 DEF ReleaseRecord, At, IInv, ControlOK, Releasing
    <3>2. RecordTombstone(c.rid, c.release) \/ UNCHANGED store  BY <2>5 DEF ReleaseRecord
    <3> QED  BY <3>1, <3>2, <2>0 DEF StoreStep
  <2>6. CASE OpenReadTombstone(w) \/ OpenReadDedupe(w) \/ OpenReadMemory(w)
    BY <2>6 DEF OpenReadTombstone, OpenReadDedupe, OpenReadMemory, Reading
  <2>7. CASE FillResolve(w) \/ FillReadMemory(w) \/ FillReadProgress(w)
    BY <2>7 DEF FillResolve, FillReadMemory, FillReadProgress, Reading
  <2>8. CASE \/ ReleaseReadKey(w) \/ ReleaseResolve(w)
             \/ ReleaseReadTombstone(w) \/ ReleaseReadMemory(w)
    BY <2>8 DEF ReleaseReadKey, ReleaseResolve, ReleaseReadTombstone, ReleaseReadMemory, Reading
  <2>9. CASE OpenReserve(w) \/ OpenRollback(w) \/ FillApply(w) \/ ReleaseRemove(w)
    BY <2>9 DEF OpenReserve, OpenRollback, FillApply, ReleaseRemove, Remembering
  <2> QED
    BY <1>3, <2>1, <2>2, <2>3, <2>4, <2>5, <2>6, <2>7, <2>8, <2>9
       DEF OpenStep, FillStep, ReleaseStep
<1>4. CASE Crash \/ Restart  BY <1>4 DEF Crash, Restart
<1>5. CASE UNCHANGED vars  BY <1>5 DEF vars
<1> QED  BY <1>1, <1>2, <1>3, <1>4, <1>5 DEF Next

\* No two open rows share a dedupe key, for any number of workers: the check
\* inside upsert_reservation_ledger's transaction suffices, although every
\* caller's own check may be stale by the time it writes.
THEOREM OneActivePerDedupeHolds == Spec => []OneActivePerDedupe
<1>1. Init => OneActivePerDedupe
  BY DEF Init, StoreInit, OneActivePerDedupe, IsOpen, NoRow
<1>2. ASSUME OneActivePerDedupe, StoreTypeOK, NEW r \in Rid, NEW row \in Row, Upsert(r, row)
      PROVE  OneActivePerDedupe'
  <2> SUFFICES ASSUME NEW a \in Rid, NEW b \in Rid, Dedupe[b] = Dedupe[a],
                      IsOpen(a)', IsOpen(b)', a # b
               PROVE  FALSE
    BY DEF OneActivePerDedupe, SameDedupe
  <2>1. \A q \in Rid : q # r => (IsOpen(q)' <=> IsOpen(q))
    BY <1>2 DEF Upsert, IsOpen, StoreTypeOK
  <2>2. IsOpen(r)' => row.status = "open"
    BY <1>2 DEF Upsert, IsOpen, StoreTypeOK
  <2>3. IsOpen(r)' => \A q \in Rid : Dedupe[q] = Dedupe[r] /\ q # r => ~IsOpen(q)
    BY <1>2, <2>2 DEF Upsert, UpsertAccepted, SameDedupe
  <2> QED  BY <1>2, <2>1, <2>3 DEF OneActivePerDedupe, SameDedupe
<1>3. OneActivePerDedupe /\ IInv /\ [Next]_vars => OneActivePerDedupe'
  <2> SUFFICES ASSUME OneActivePerDedupe, IInv, [Next]_vars PROVE OneActivePerDedupe'
    OBVIOUS
  <2>1. CASE UNCHANGED ledger  BY <2>1 DEF OneActivePerDedupe, IsOpen
  <2>2. UNCHANGED ledger \/ \E r \in Rid, row \in Row : Upsert(r, row)
    BY NextIsStoreStep DEF StoreStep, store, RecordProgress, RecordTombstone
  <2> QED  BY <1>2, <2>1, <2>2 DEF IInv, DataOK
<1> QED  BY <1>1, <1>3, InitInvariant, NextInvariant, PTL DEF Spec

\* No two rows of a reservation's journal record the same cumulative fill, for
\* any number of workers delivering any reports.
THEOREM JournalAdvancesHolds == Spec => []JournalAdvances
<1>1. Init => JournalAdvances  BY DEF Init, StoreInit, JournalAdvances
<1>2. ASSUME JournalAdvances, StoreTypeOK, NEW r \in Rid, NEW p \in Progress,
             RecordProgress(r, p)
      PROVE  JournalAdvances'
  <2>1. CASE UNCHANGED progress  BY <1>2, <2>1 DEF JournalAdvances
  <2>2. CASE ~KeyKnown(r, p.key)
    <3>1. progress' = [progress EXCEPT ![r] = @ \union {p}] /\ Advances(progress[r], p.cum)
      BY <1>2, <2>2 DEF RecordProgress, RecordAccepted
    <3>2. \A q \in progress[r] : q.cum \in Nat /\ p.cum \in Nat /\ q.cum # p.cum
      BY <3>1, <1>2, QtyAssumption DEF Advances, StoreTypeOK, Progress
    <3>3. \A q \in Rid : progress'[q] = IF q = r THEN progress[r] \union {p} ELSE progress[q]
      BY <3>1, <1>2 DEF StoreTypeOK
    <3> QED  BY <3>2, <3>3, <1>2 DEF JournalAdvances
  <2> QED  BY <1>2, <2>1, <2>2 DEF RecordProgress
<1>3. JournalAdvances /\ IInv /\ [Next]_vars => JournalAdvances'
  <2> SUFFICES ASSUME JournalAdvances, IInv, [Next]_vars PROVE JournalAdvances'
    OBVIOUS
  <2>1. CASE UNCHANGED progress  BY <2>1 DEF JournalAdvances
  <2>2. UNCHANGED progress \/ \E r \in Rid, p \in Progress : RecordProgress(r, p)
    BY NextIsStoreStep DEF StoreStep, store, Upsert, RecordTombstone
  <2> QED  BY <1>2, <2>1, <2>2 DEF IInv, DataOK
<1> QED  BY <1>1, <1>3, InitInvariant, NextInvariant, PTL DEF Spec
=============================================================================
