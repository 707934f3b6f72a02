--------------------- MODULE ReservationSerial_proofs ---------------------
(***************************************************************************)
(* What ReservationLifecycle guarantees when the calls come one after the  *)
(* other (one worker, as long as the engine runs): for every set of        *)
(* reservations and of dedupe keys, every quantity, and whatever store     *)
(* call fails and whenever the process dies.                               *)
(***************************************************************************)
EXTENDS ReservationLifecycle_proofs

Serial == \A v, w \in Worker : v = w

-----------------------------------------------------------------------------
(* The inductive invariant: how far memory, journal, ledger and tombstones *)
(* are apart at each step of a call, and that they are together elsewhere. *)

\* What the tables say whatever the calls are doing: an open row shows no more
\* than the journal, and a reservation that never had a row has no history.
RowsOK ==
    \A r \in Rid :
        /\ IsOpen(r) => ledger[r].cancelled = 0 /\ ledger[r].filled <= MaxCum(r)
        /\ ledger[r].status = "absent" => progress[r] = {} /\ tomb[r] = NoTomb
        /\ venue[r].status = "none" => ledger[r].status = "absent"
        /\ \A p \in progress[r] : p.key.event = p.cum

\* A reservation in memory is that of an open row, and caught up with the journal.
Backed(r) ==
    mem[r].held =>
        IsOpen(r) /\ tomb[r] = NoTomb /\ mem[r].filled = MaxCum(r) /\ MaxCum(r) < Qty

\* The steps at which a call has not brought memory and tables together.
ApartSteps == {"o_upsert", "o_rollback", "f_apply", "r_remove"}
Apart(r) == \E w \in Worker : call[w].rid = r /\ pc[w] \in ApartSteps

MemoryOK ==
    /\ \A r \in Rid : Backed(r) \/ Apart(r)
    /\ \A r \in Rid : venue[r].status = "none" => ~mem[r].held
    /\ ~up => \A r \in Rid : ~mem[r].held
    /\ up /\ hydrated =>
         \A r \in Rid : IsOpen(r) /\ ~mem[r].held => tomb[r] # NoTomb \/ MaxCum(r) >= Qty

Together == TerminalRowAccounts /\ RowsOK /\ MemoryOK

Opening == {"o_tomb", "o_dedupe", "o_memory", "o_reserve", "o_upsert", "o_rollback"}

\* What a call has established at its step.
OpenKnows(w) ==
    LET c == call[w]
        m == mem[c.rid]
    IN  /\ pc[w] \in Opening => ledger[c.rid].status = "absent"
        /\ pc[w] \in {"o_tomb", "o_dedupe", "o_memory", "o_reserve"} => ~m.held
        /\ pc[w] = "o_upsert" =>
             \/ c.target = c.rid /\ m = Held(0) /\ c.row = OpenRow(0)
             \/ /\ c.target # c.rid /\ ~m.held
                /\ mem[c.target].held /\ c.row = OpenRow(mem[c.target].filled)
        /\ pc[w] = "o_rollback" /\ m.held => m.filled = 0

FillKnows(w) ==
    LET c == call[w]
        m == mem[c.rid]
    IN  /\ (\/ pc[w] \in {"f_resolve", "f_memory", "f_progress"}
            \/ pc[w] \in {"r_key", "r_resolve"} /\ c.release = "filled") =>
             c.delta = c.cum /\ (c.cum > 0 => c.event = c.cum)
        /\ pc[w] \in {"f_progress", "f_record"} => m.held /\ c.snap = m.filled
        /\ pc[w] \in {"f_record", "f_apply"} =>
             c.cum > c.snap /\ c.event = c.cum /\ c.delta = c.cum - c.snap
        /\ pc[w] = "f_apply" =>
             /\ IsOpen(c.rid) /\ tomb[c.rid] = NoTomb
             /\ m.held /\ m.filled = c.snap /\ c.snap < Qty /\ MaxCum(c.rid) = c.cum
        /\ pc[w] = "f_upsert" =>
             /\ IsOpen(c.rid) /\ MaxCum(c.rid) = c.cum
             /\ \/ m.held /\ c.row = OpenRow(c.cum)
                \/ ~m.held /\ c.cum >= Qty /\ c.row = CompletedRow(c.cum)

ReleaseKnows(w) ==
    LET c == call[w]
        m == mem[c.rid]
    IN  /\ pc[w] = "r_record" => m.held /\ c.snap = m.filled
        /\ pc[w] = "r_remove" => m.held /\ m.filled = c.snap
        /\ pc[w] \in {"r_remove", "r_upsert"} =>
             IsOpen(c.rid) /\ tomb[c.rid] # NoTomb /\ MaxCum(c.rid) = c.snap
        /\ pc[w] = "r_upsert" => ~m.held /\ c.row = ReleasedRow(c.release, c.snap)

CallsOK == \A w \in Worker :
              /\ OpenKnows(w) /\ FillKnows(w) /\ ReleaseKnows(w)
              /\ pc[w] # "idle" => up /\ venue[call[w].rid].status # "none"

SInv == Together /\ CallsOK

-----------------------------------------------------------------------------
(* The highest cumulative quantity as a function of the journal's rows.    *)

MaxOf(rows) ==
    CHOOSE m \in 0..OrderQty : /\ m = 0 \/ \E p \in rows : p.cum = m
                               /\ \A p \in rows : p.cum <= m

LEMMA MaxCumIsMaxOf ==
    ASSUME NEW r \in Rid
    PROVE  MaxCum(r) = MaxOf(progress[r]) /\ MaxCum(r)' = MaxOf(progress'[r])
BY DEF MaxCum, MaxOf

\* An empty journal records nothing.
LEMMA MaxOfEmpty == MaxOf({}) = 0
<1> DEFINE IsMax(m) == /\ m = 0 \/ \E p \in {} : p.cum = m
                       /\ \A p \in {} : p.cum <= m
<1>1. IsMax(0) /\ 0 \in 0..OrderQty  BY QtyAssumption
<1>2. MaxOf({}) = CHOOSE m \in 0..OrderQty : IsMax(m)  BY DEF MaxOf
<1>3. IsMax(MaxOf({}))  BY <1>1, <1>2
<1> QED  BY <1>3

\* A row ahead of all others is the new maximum.
LEMMA MaxOfAdvance ==
    ASSUME NEW rows \in SUBSET Progress, NEW p \in Progress, Advances(rows, p.cum)
    PROVE  MaxOf(rows \union {p}) = p.cum
<1> DEFINE all == rows \union {p}
           IsMax(m) == /\ m = 0 \/ \E q \in all : q.cum = m
                       /\ \A q \in all : q.cum <= m
<1>1. p.cum \in 0..OrderQty /\ \A q \in rows : q.cum \in Nat /\ q.cum < p.cum
  BY QtyAssumption DEF Progress, Advances
<1>2. IsMax(p.cum)  BY <1>1
<1>3. MaxOf(all) = CHOOSE m \in 0..OrderQty : IsMax(m)  BY DEF MaxOf
<1>4. IsMax(MaxOf(all)) /\ MaxOf(all) \in 0..OrderQty  BY <1>1, <1>2, <1>3
<1>5. MaxOf(all) <= p.cum  BY <1>1, <1>4
<1>6. p.cum <= MaxOf(all)  BY <1>4
<1> QED  BY <1>1, <1>4, <1>5, <1>6

LEMMA MaxCumType ==
    ASSUME IInv, NEW r \in Rid
    PROVE  MaxCum(r) \in 0..OrderQty /\ \A p \in progress[r] : p.cum <= MaxCum(r)
BY MaxCumFacts DEF IInv, DataOK, StoreTypeOK

LEMMA MaxCumSame ==
    ASSUME UNCHANGED progress, NEW r \in Rid
    PROVE  MaxCum(r)' = MaxCum(r)
BY MaxCumIsMaxOf

LEMMA MaxCumRecorded ==
    ASSUME IInv, NEW r \in Rid, NEW p \in Progress, Advances(progress[r], p.cum),
           progress' = [progress EXCEPT ![r] = @ \union {p}]
    PROVE  \A q \in Rid : MaxCum(q)' = IF q = r THEN p.cum ELSE MaxCum(q)
<1>1. progress \in [Rid -> SUBSET Progress]  BY DEF IInv, DataOK, StoreTypeOK
<1>2. \A q \in Rid : progress'[q] = IF q = r THEN progress[r] \union {p} ELSE progress[q]
  BY <1>1
<1>3. MaxOf(progress[r] \union {p}) = p.cum  BY <1>1, MaxOfAdvance
<1> QED  BY <1>2, <1>3, MaxCumIsMaxOf

LEMMA MaxCumEmpty ==
    ASSUME NEW r \in Rid, progress[r] = {}
    PROVE  MaxCum(r) = 0
BY MaxCumIsMaxOf, MaxOfEmpty

-----------------------------------------------------------------------------
(* Frames.                                                                 *)

\* When nothing of the tables and of memory changes, and the call was not at
\* a step at which they are apart, they stay together.
LEMMA ReadingKeeps ==
    ASSUME Serial, SInv, NEW w \in Worker, pc[w] \notin ApartSteps, Reading
    PROVE  Together'
<1>1. \A r \in Rid : MaxCum(r)' = MaxCum(r)  BY MaxCumSame DEF Reading, store
<1>2. \A r \in Rid : Backed(r)  BY DEF SInv, Together, MemoryOK, Apart, Serial
<1>3. TerminalRowAccounts' /\ RowsOK'
  BY <1>1 DEF SInv, Together, TerminalRowAccounts, RowsOK, IsOpen, Reading, store
<1>4. MemoryOK'
  BY <1>1, <1>2 DEF SInv, Together, MemoryOK, Backed, IsOpen, Reading, store
<1> QED  BY <1>3, <1>4 DEF Together

\* A call that ended knows nothing.
LEMMA ReturnKnows ==
    ASSUME Serial, IInv, NEW w \in Worker, Return(w)
    PROVE  CallsOK'
<1>1. \A v \in Worker : pc'[v] = "idle"  BY DEF Return, Serial, IInv, ControlOK
<1> QED  BY <1>1 DEF CallsOK, OpenKnows, FillKnows, ReleaseKnows, Opening

\* The steps after the fill part rely on nothing the fill established.
LEMMA AfterFillKnows ==
    ASSUME Serial, IInv, CallsOK, NEW w \in Worker, NEW done \in BOOLEAN, AfterFill(w, done),
           pc[w] # "idle", UNCHANGED <<up, venue>>
    PROVE  CallsOK' /\ pc'[w] \in {"idle", "r_key", "r_tomb"}
<1>1. CASE Return(w)  BY <1>1, ReturnKnows DEF Return, IInv, ControlOK
<1>2. CASE Goto(w, "r_tomb") \/ (Goto(w, "r_key") /\ call[w].release = "cancelled")
  <2>1. /\ \A v \in Worker : v = w /\ pc'[v] \in {"r_key", "r_tomb"}
        /\ pc'[w] = "r_key" => call[w].release = "cancelled"
        /\ UNCHANGED call
    BY <1>2 DEF Goto, Serial, IInv, ControlOK
  <2> QED
    BY <2>1 DEF CallsOK, OpenKnows, FillKnows, ReleaseKnows, Opening
<1>3. call[w].release \in {"none", "filled", "cancelled"}
  BY DEF IInv, ControlOK, Call, Terminal
<1> QED  BY <1>1, <1>2, <1>3 DEF AfterFill

-----------------------------------------------------------------------------
(* guarded_open_reservation.                                               *)

LEMMA OpenReads ==
    ASSUME Serial, IInv, SInv, NEW w \in Worker,
           OpenReadTombstone(w) \/ OpenReadDedupe(w) \/ OpenReadMemory(w)
    PROVE  SInv'
<1>1. Reading /\ pc[w] \in {"o_tomb", "o_dedupe", "o_memory"}
  BY DEF OpenReadTombstone, OpenReadDedupe, OpenReadMemory, At
<1>2. Together'  BY <1>1, ReadingKeeps DEF ApartSteps
<1>3. \/ Return(w)
      \/ \E there \in {"o_dedupe", "o_memory", "o_reserve"} : Goto(w, there)
  BY DEF OpenReadTombstone, OpenReadDedupe, OpenReadMemory
<1>4. ASSUME NEW there \in {"o_dedupe", "o_memory", "o_reserve"}, Goto(w, there)
      PROVE  CallsOK'
  <2>1. \A v \in Worker : v = w /\ pc'[v] = there  BY <1>4 DEF Goto, Serial, IInv, ControlOK
  <2>2. UNCHANGED <<call, ledger, mem, up, venue>>  BY <1>1, <1>4 DEF Goto, Reading, store
  <2> QED
    BY <1>1, <2>1, <2>2 DEF SInv, CallsOK, OpenKnows, FillKnows, ReleaseKnows, Opening
<1> QED  BY <1>2, <1>3, <1>4, ReturnKnows DEF SInv

LEMMA OpenReserveKeeps ==
    ASSUME Serial, IInv, SInv, NEW w \in Worker, OpenReserve(w)
    PROVE  SInv'
<1> DEFINE c == call[w]
           r == c.rid
           held == {q \in SameDedupe(r) : mem[q].held}
<1>0. /\ pc[w] = "o_reserve" /\ r \in Rid /\ c \in Call /\ Remembering
      /\ mem \in [Rid -> [held: BOOLEAN, filled: 0..Qty]]
  BY DEF OpenReserve, At, IInv, ControlOK, DataOK, Call
<1>1. /\ ledger[r].status = "absent" /\ progress[r] = {} /\ ~mem[r].held /\ up
      /\ venue[r].status # "none"
  BY <1>0 DEF SInv, CallsOK, OpenKnows, Opening, Together, RowsOK
<1>2. \A q \in Rid : Backed(q) /\ MaxCum(q)' = MaxCum(q)
  <2>1. \A q \in Rid : Backed(q)
    BY <1>0 DEF SInv, Together, MemoryOK, Apart, ApartSteps, Serial
  <2> QED  BY <1>0, <2>1, MaxCumSame DEF Remembering, store
<1>3. TerminalRowAccounts' /\ RowsOK'
  BY <1>0, <1>2 DEF SInv, Together, TerminalRowAccounts, RowsOK, IsOpen, Remembering, store
<1>4. CASE Return(w) /\ UNCHANGED mem
  <2>1. MemoryOK'
    BY <1>0, <1>2, <1>4 DEF SInv, Together, MemoryOK, Backed, IsOpen, Remembering, store
  <2> QED  BY <1>3, <1>4, <2>1, ReturnKnows DEF SInv, Together
<1>5. CASE /\ mem' = [mem EXCEPT ![r] = Held(0)]
           /\ Set(w, "o_upsert", [c EXCEPT !.target = r, !.row = OpenRow(0)])
  <2> DEFINE d == [c EXCEPT !.target = r, !.row = OpenRow(0)]
  <2>1. d.rid = r /\ d.target = r /\ d.row = OpenRow(0)  BY <1>0 DEF Call
  <2> HIDE DEF d
  <2>2. \A v \in Worker : v = w /\ pc'[v] = "o_upsert" /\ call'[v] = d
    BY <1>5 DEF Set, Serial, IInv, ControlOK, d
  <2>3. \A q \in Rid : mem'[q] = IF q = r THEN Held(0) ELSE mem[q]  BY <1>0, <1>5
  <2>4. CallsOK'
    BY <1>0, <1>1, <2>1, <2>2, <2>3
       DEF CallsOK, OpenKnows, FillKnows, ReleaseKnows, Opening, Remembering, store
  <2>5. \E v \in Worker : call'[v].rid = r /\ pc'[v] \in ApartSteps
    BY <2>1, <2>2 DEF ApartSteps
  <2>6. MemoryOK'
    <3>1. \A q \in Rid : q = r \/ Backed(q)'
      BY <1>0, <1>2, <2>3 DEF Backed, IsOpen, Remembering, store
    <3>2. \A q \in Rid : Backed(q)' \/ Apart(q)'  BY <2>5, <3>1 DEF Apart
    <3> QED
      BY <1>0, <1>1, <1>2, <2>3, <3>2
         DEF SInv, Together, MemoryOK, IsOpen, Remembering, store, Held
  <2> QED  BY <1>3, <2>4, <2>6 DEF SInv, Together
<1>6. ASSUME NEW q \in held, UNCHANGED mem,
             Set(w, "o_upsert", [c EXCEPT !.target = q, !.row = OpenRow(mem[q].filled)])
      PROVE  SInv'
  <2> DEFINE d == [c EXCEPT !.target = q, !.row = OpenRow(mem[q].filled)]
  <2>1. d.rid = r /\ d.target = q /\ d.row = OpenRow(mem[q].filled) /\ q # r /\ mem[q].held
    BY <1>0, <1>1, <1>6 DEF Call
  <2> HIDE DEF d, held
  <2>2. \A v \in Worker : v = w /\ pc'[v] = "o_upsert" /\ call'[v] = d
    BY <1>6 DEF Set, Serial, IInv, ControlOK, d
  <2>3. CallsOK'
    BY <1>0, <1>1, <1>6, <2>1, <2>2
       DEF CallsOK, OpenKnows, FillKnows, ReleaseKnows, Opening, Remembering, store
  <2>4. MemoryOK'
    BY <1>0, <1>2, <1>6 DEF SInv, Together, MemoryOK, Backed, IsOpen, Remembering, store
  <2> QED  BY <1>3, <2>3, <2>4 DEF SInv, Together
<1> QED  BY <1>4, <1>5, <1>6 DEF OpenReserve

LEMMA OpenUpsertKeeps ==
    ASSUME Serial, IInv, SInv, NEW w \in Worker, OpenUpsert(w)
    PROVE  SInv'
<1> DEFINE c == call[w]
           r == c.rid
           q == c.target
<1>0. /\ pc[w] = "o_upsert" /\ r \in Rid /\ q \in Rid /\ Storing
      /\ ledger \in [Rid -> Row]
  BY DEF OpenUpsert, At, IInv, ControlOK, DataOK, StoreTypeOK, Call
<1>1. /\ ledger[r].status = "absent" /\ progress[r] = {} /\ tomb[r] = NoTomb /\ MaxCum(r) = 0
      /\ up /\ venue[r].status # "none"
  BY <1>0, MaxCumEmpty DEF SInv, CallsOK, OpenKnows, Opening, Together, RowsOK
<1>2. \/ q = r /\ mem[r] = Held(0) /\ c.row = OpenRow(0)
      \/ q # r /\ ~mem[r].held /\ mem[q].held /\ c.row = OpenRow(mem[q].filled)
  BY <1>0 DEF SInv, CallsOK, OpenKnows
<1>3. \A p \in Rid : p # r => Backed(p)
  BY <1>0 DEF SInv, Together, MemoryOK, Apart, Serial
<1>4. CASE Upsert(q, c.row) /\ Return(w)
  <2>1. /\ \A p \in Rid : ledger'[p] = IF p = q THEN c.row ELSE ledger[p]
        /\ UNCHANGED <<progress, tomb>> /\ \A p \in Rid : MaxCum(p)' = MaxCum(p)
    BY <1>0, <1>4, MaxCumSame DEF Upsert
  <2>2. c.row = OpenRow(MaxCum(q)) /\ mem[q].held /\ mem[q].filled = MaxCum(q) /\ MaxCum(q) < Qty
    <3>1. CASE q = r
      BY <1>1, <1>2, <3>1, QtyAssumption DEF Held
    <3>2. CASE q # r
      BY <1>0, <1>2, <1>3, <3>2 DEF Backed
    <3> QED  BY <3>1, <3>2
  <2>3. tomb[q] = NoTomb /\ venue[q].status # "none"
    BY <1>0, <1>1, <1>2, <1>3 DEF Backed, SInv, Together, MemoryOK
  <2>4. TerminalRowAccounts' /\ RowsOK'
    BY <1>0, <2>1, <2>2, <2>3, MaxCumType
       DEF SInv, Together, TerminalRowAccounts, RowsOK, IsOpen, OpenRow, Terminal, Storing
  <2>5. MemoryOK'
    <3>1. \A p \in Rid : Backed(p)'
      BY <1>0, <1>2, <1>3, <2>1, <2>2, <2>3 DEF Backed, IsOpen, OpenRow, Storing
    <3> QED
      BY <1>0, <1>1, <2>1, <2>2, <3>1 DEF SInv, Together, MemoryOK, IsOpen, Storing
  <2> QED  BY <1>4, <2>4, <2>5, ReturnKnows DEF SInv, Together
<1>5. CASE Goto(w, "o_rollback") /\ UNCHANGED store
  <2>1. /\ \A v \in Worker : v = w /\ pc'[v] = "o_rollback"
        /\ \A p \in Rid : MaxCum(p)' = MaxCum(p)
        /\ UNCHANGED <<ledger, progress, tomb, call, mem, venue, up, hydrated>>
    BY <1>0, <1>5, MaxCumSame DEF Goto, Serial, IInv, ControlOK, store, Storing
  <2>2. Apart(r)'  BY <2>1 DEF Apart, ApartSteps
  <2>3. TerminalRowAccounts' /\ RowsOK'
    BY <2>1 DEF SInv, Together, TerminalRowAccounts, RowsOK, IsOpen
  <2>4. MemoryOK'
    BY <1>3, <2>1, <2>2 DEF SInv, Together, MemoryOK, Backed, IsOpen
  <2>5. mem[r].filled = 0 \/ ~mem[r].held
    BY <1>2 DEF Held
  <2>6. CallsOK'
    BY <1>0, <1>1, <2>1, <2>5
       DEF CallsOK, OpenKnows, FillKnows, ReleaseKnows, Opening
  <2> QED  BY <2>3, <2>4, <2>6 DEF SInv, Together
<1> QED  BY <1>4, <1>5 DEF OpenUpsert

LEMMA OpenRollbackKeeps ==
    ASSUME Serial, IInv, SInv, NEW w \in Worker, OpenRollback(w)
    PROVE  SInv'
<1> DEFINE r == call[w].rid
<1>0. /\ pc[w] = "o_rollback" /\ r \in Rid /\ Return(w) /\ Remembering
      /\ mem \in [Rid -> [held: BOOLEAN, filled: 0..Qty]]
      /\ mem' = [mem EXCEPT ![r] = Free]
  BY DEF OpenRollback, At, IInv, ControlOK, DataOK, Call
<1>1. ledger[r].status = "absent"  BY <1>0 DEF SInv, CallsOK, OpenKnows, Opening
<1>2. \A q \in Rid : mem'[q] = IF q = r THEN Free ELSE mem[q]  BY <1>0
<1>3. \A q \in Rid : MaxCum(q)' = MaxCum(q)  BY <1>0, MaxCumSame DEF Remembering, store
<1>4. \A q \in Rid : q # r => Backed(q)
  BY <1>0 DEF SInv, Together, MemoryOK, Apart, Serial
<1>5. TerminalRowAccounts' /\ RowsOK'
  BY <1>0, <1>3 DEF SInv, Together, TerminalRowAccounts, RowsOK, IsOpen, Remembering, store
<1>6. MemoryOK'
  <2>1. \A q \in Rid : Backed(q)'
    BY <1>0, <1>2, <1>3, <1>4 DEF Backed, IsOpen, Free, Remembering, store
  <2> QED
    BY <1>0, <1>1, <1>2, <1>3, <2>1
       DEF SInv, Together, MemoryOK, IsOpen, Free, Remembering, store
<1> QED  BY <1>0, <1>5, <1>6, ReturnKnows DEF SInv, Together

-----------------------------------------------------------------------------
(* on_partial_fill and guarded_apply_fill_to_reservation.                  *)

LEMMA FillReads ==
    ASSUME Serial, IInv, SInv, NEW w \in Worker,
           FillResolve(w) \/ FillReadMemory(w) \/ FillReadProgress(w)
    PROVE  SInv'
<1> DEFINE c == call[w]
           r == c.rid
<1>1. /\ Reading /\ pc[w] \in {"f_resolve", "f_memory", "f_progress"}
      /\ c \in Call /\ r \in Rid /\ c.cum \in Nat /\ c.snap \in Nat
      /\ up /\ venue[r].status # "none"
  <2>1. Reading /\ pc[w] \in {"f_resolve", "f_memory", "f_progress"}
    BY DEF FillResolve, FillReadMemory, FillReadProgress, At
  <2>2. c \in Call /\ r \in Rid /\ c.cum \in Nat /\ c.snap \in Nat
    BY QtyAssumption DEF IInv, ControlOK, Call
  <2>3. up /\ venue[r].status # "none"  BY <2>1 DEF SInv, CallsOK
  <2> QED  BY <2>1, <2>2, <2>3
<1>2. Together'  BY <1>1, ReadingKeeps DEF ApartSteps
<1>3. UNCHANGED <<ledger, tomb, mem, up, venue>>  BY <1>1 DEF Reading, store
<1>4. ASSUME NEW done \in BOOLEAN, AfterFill(w, done)
      PROVE  SInv'
  BY <1>1, <1>2, <1>3, <1>4, AfterFillKnows DEF SInv
<1>5. c.delta = c.cum /\ (c.cum > 0 => c.event = c.cum)
  BY <1>1 DEF SInv, CallsOK, FillKnows
<1>6. CASE FillResolve(w)
  <2>1. CASE Goto(w, "f_memory")
    <3>1. \A v \in Worker : v = w /\ pc'[v] = "f_memory" /\ call'[v] = c
      BY <2>1 DEF Goto, Serial, IInv, ControlOK
    <3>2. CallsOK'
      BY <1>1, <1>3, <1>5, <3>1 DEF CallsOK, OpenKnows, FillKnows, ReleaseKnows, Opening
    <3> QED  BY <1>2, <3>2 DEF SInv
  <2> QED  BY <1>4, <1>6, <2>1 DEF FillResolve
<1>7. CASE FillReadMemory(w)
  <2> DEFINE d == [c EXCEPT !.snap = mem[r].filled]
  <2>1. CASE mem[r].held /\ Set(w, "f_progress", d)
    <3>1. /\ d.rid = r /\ d.snap = mem[r].filled
          /\ d.cum = c.cum /\ d.delta = c.delta /\ d.event = c.event
      BY <1>1 DEF Call
    <3> HIDE DEF d
    <3>2. \A v \in Worker : v = w /\ pc'[v] = "f_progress" /\ call'[v] = d
      BY <2>1 DEF Set, Serial, IInv, ControlOK
    <3>3. CallsOK'
      BY <1>1, <1>3, <1>5, <2>1, <3>1, <3>2
         DEF CallsOK, OpenKnows, FillKnows, ReleaseKnows, Opening
    <3> QED  BY <1>2, <3>3 DEF SInv
  <2> QED  BY <1>4, <1>7, <2>1 DEF FillReadMemory
<1>8. CASE FillReadProgress(w)
  <2> DEFINE d == [c EXCEPT !.delta = Lower(c.cum - c.snap, c.delta)]
  <2>1. CASE c.cum > c.snap /\ Set(w, "f_record", d)
    <3>1. Lower(c.cum - c.snap, c.delta) = c.cum - c.snap
      BY <1>1, <1>5 DEF Lower
    <3>2. /\ d.rid = r /\ d.snap = c.snap /\ d.cum = c.cum /\ d.event = c.event
          /\ d.delta = c.cum - c.snap /\ c.event = c.cum
      BY <1>1, <1>5, <2>1, <3>1 DEF Call
    <3>3. pc[w] = "f_progress"  BY <1>8 DEF FillReadProgress, At
    <3>4. mem[r].held /\ c.snap = mem[r].filled  BY <3>3 DEF SInv, CallsOK, FillKnows
    <3> HIDE DEF d
    <3>5. \A v \in Worker : v = w /\ pc'[v] = "f_record" /\ call'[v] = d
      BY <2>1 DEF Set, Serial, IInv, ControlOK
    <3>6. CallsOK'
      BY <1>1, <1>3, <2>1, <3>2, <3>4, <3>5
         DEF CallsOK, OpenKnows, FillKnows, ReleaseKnows, Opening
    <3> QED  BY <1>2, <3>6 DEF SInv
  <2> QED  BY <1>4, <1>8, <2>1 DEF FillReadProgress
<1> QED  BY <1>6, <1>7, <1>8

\* The journal row that a fill is about to write is new and ahead of all others.
LEMMA RecordAdvances ==
    ASSUME Serial, IInv, SInv, NEW w \in Worker, pc[w] = "f_record"
    PROVE  LET c == call[w]
               p == [key |-> [kind |-> c.kind, event |-> c.event], cum |-> c.cum]
           IN  /\ p \in Progress /\ Advances(progress[c.rid], c.cum) /\ ~KeyKnown(c.rid, p.key)
               /\ mem[c.rid].held /\ Backed(c.rid) /\ MaxCum(c.rid) = c.snap /\ c.snap < c.cum
<1> DEFINE c == call[w]
           r == c.rid
           p == [key |-> [kind |-> c.kind, event |-> c.event], cum |-> c.cum]
<1>1. /\ c \in Call /\ r \in Rid /\ c.cum \in 0..OrderQty /\ c.snap \in 0..Qty
      /\ c.kind \in {"partial", "closing"} /\ c.event \in 1..OrderQty
  BY DEF IInv, ControlOK, Call
<1>2. mem[r].held /\ c.snap = mem[r].filled /\ c.cum > c.snap /\ c.event = c.cum
  BY DEF SInv, CallsOK, FillKnows
<1>3. Backed(r)
  BY <1>1 DEF SInv, Together, MemoryOK, Apart, ApartSteps, Serial
<1>4. MaxCum(r) = c.snap  BY <1>2, <1>3 DEF Backed
<1>5. \A q \in progress[r] : q \in Progress /\ q.cum <= c.snap /\ q.key.event = q.cum
  BY <1>1, <1>4, MaxCumType DEF IInv, DataOK, StoreTypeOK, SInv, Together, RowsOK
<1>6. \A q \in progress[r] : q.cum \in Nat  BY <1>5 DEF Progress
<1>7. Advances(progress[r], c.cum)  BY <1>1, <1>2, <1>5, <1>6 DEF Advances
<1>8. ~KeyKnown(r, p.key)
  <2> SUFFICES ASSUME NEW q \in progress[r], q.key = p.key PROVE FALSE  BY DEF KeyKnown
  <2>1. q.cum = c.cum  BY <1>2, <1>5
  <2> QED  BY <1>1, <1>2, <1>5, <1>6, <2>1
<1>9. p \in Progress  BY <1>1, <1>2, QtyAssumption DEF Progress, FillKey
<1> QED  BY <1>1, <1>2, <1>3, <1>4, <1>7, <1>8, <1>9

LEMMA FillRecordKeeps ==
    ASSUME Serial, IInv, SInv, NEW w \in Worker, FillRecord(w)
    PROVE  SInv'
<1> DEFINE c == call[w]
           r == c.rid
           p == [key |-> [kind |-> c.kind, event |-> c.event], cum |-> c.cum]
<1>0. /\ pc[w] = "f_record" /\ r \in Rid /\ Storing /\ c.cum \in Nat /\ c.snap \in Nat
      /\ up /\ venue[r].status # "none"
      /\ progress \in [Rid -> SUBSET Progress]
  BY DEF FillRecord, At, IInv, ControlOK, DataOK, StoreTypeOK, Call, SInv, CallsOK
<1>1. /\ p \in Progress /\ Advances(progress[r], p.cum) /\ ~KeyKnown(r, p.key)
      /\ mem[r].held /\ Backed(r) /\ MaxCum(r) = c.snap /\ c.snap < c.cum
      /\ p.cum = c.cum /\ p.key.event = c.event
  BY <1>0, RecordAdvances
<1>2. /\ IsOpen(r) /\ tomb[r] = NoTomb /\ mem[r].filled = c.snap /\ c.snap < Qty
      /\ c.event = c.cum /\ c.delta = c.cum - c.snap
  BY <1>0, <1>1 DEF Backed, SInv, CallsOK, FillKnows
<1>3. CASE RecordProgress(r, p) /\ Goto(w, "f_apply")
  <2> HIDE DEF p
  <2>1. progress' = [progress EXCEPT ![r] = @ \union {p}] /\ UNCHANGED <<ledger, tomb>>
    BY <1>1, <1>3 DEF RecordProgress
  <2>2. \A q \in Rid : MaxCum(q)' = IF q = r THEN c.cum ELSE MaxCum(q)
    BY <1>0, <1>1, <2>1, MaxCumRecorded
  <2>3. \A q \in Rid : progress'[q] = IF q = r THEN progress[r] \union {p} ELSE progress[q]
    BY <1>0, <2>1
  <2>4. /\ \A v \in Worker : v = w /\ pc'[v] = "f_apply" /\ call'[v] = c
        /\ UNCHANGED <<mem, venue, up, hydrated>>
    BY <1>0, <1>3 DEF Goto, Serial, IInv, ControlOK, Storing
  <2>5. TerminalRowAccounts'
    BY <1>2, <2>1, <2>2 DEF SInv, Together, TerminalRowAccounts, IsOpen, Terminal
  <2>6. RowsOK'
    <3>1. ledger[r].filled <= MaxCum(r) /\ ledger[r].filled \in Nat
      BY <1>0, <1>2 DEF SInv, Together, RowsOK, IInv, DataOK, StoreTypeOK, Row
    <3>2. ledger[r].filled <= c.cum  BY <1>0, <1>1, <3>1
    <3>3. \A q \in Rid : IsOpen(q)' => ledger'[q].cancelled = 0 /\ ledger'[q].filled <= MaxCum(q)'
      BY <2>1, <2>2, <3>2 DEF SInv, Together, RowsOK, IsOpen
    <3>4. \A q \in Rid : \A x \in progress'[q] : x.key.event = x.cum
      BY <1>1, <1>2, <2>3 DEF SInv, Together, RowsOK
    <3>5. \A q \in Rid : ledger'[q].status = "absent" => progress'[q] = {} /\ tomb'[q] = NoTomb
      BY <1>2, <2>1, <2>3 DEF SInv, Together, RowsOK, IsOpen
    <3>6. \A q \in Rid : venue'[q].status = "none" => ledger'[q].status = "absent"
      BY <2>1, <2>4 DEF SInv, Together, RowsOK
    <3> QED  BY <3>3, <3>4, <3>5, <3>6 DEF RowsOK
  <2>7. MemoryOK'
    <3>1. \A q \in Rid : q # r => Backed(q)
      BY <1>0 DEF SInv, Together, MemoryOK, Apart, ApartSteps, Serial
    <3>2. \A q \in Rid : q # r => Backed(q)'
      BY <2>1, <2>2, <2>4, <3>1 DEF Backed, IsOpen
    <3>3. \E v \in Worker : call'[v].rid = r /\ pc'[v] \in ApartSteps
      BY <2>4 DEF ApartSteps
    <3>4. \A q \in Rid : Backed(q)' \/ Apart(q)'  BY <3>2, <3>3 DEF Apart
    <3> QED
      BY <1>1, <2>1, <2>2, <2>4, <3>4 DEF SInv, Together, MemoryOK, IsOpen
  <2>8. CallsOK'
    BY <1>0, <1>1, <1>2, <2>1, <2>2, <2>4
       DEF CallsOK, OpenKnows, FillKnows, ReleaseKnows, Opening, IsOpen
  <2> QED  BY <2>5, <2>6, <2>7, <2>8 DEF SInv, Together
<1>4. CASE AfterFill(w, FALSE) /\ UNCHANGED store
  <2>1. Together'  BY <1>0, <1>4, ReadingKeeps DEF Reading, Storing, ApartSteps
  <2>2. CallsOK'  BY <1>0, <1>4, AfterFillKnows DEF SInv, Storing
  <2> QED  BY <2>1, <2>2 DEF SInv
<1> QED  BY <1>3, <1>4 DEF FillRecord

LEMMA FillApplyKeeps ==
    ASSUME Serial, IInv, SInv, NEW w \in Worker, FillApply(w)
    PROVE  SInv'
<1> DEFINE c == call[w]
           r == c.rid
           after == Lower(Qty, mem[r].filled + c.delta)
           stays == mem[r].held /\ after < Qty
           d == [c EXCEPT !.row = IF stays THEN OpenRow(after) ELSE CompletedRow(c.cum)]
<1>0. /\ pc[w] = "f_apply" /\ r \in Rid /\ c \in Call /\ Remembering
      /\ c.cum \in Nat /\ c.snap \in Nat /\ up /\ venue[r].status # "none"
      /\ mem \in [Rid -> [held: BOOLEAN, filled: 0..Qty]]
  BY DEF FillApply, At, IInv, ControlOK, DataOK, Call, SInv, CallsOK
<1>1. /\ c.cum > c.snap /\ c.delta = c.cum - c.snap /\ IsOpen(r) /\ tomb[r] = NoTomb
      /\ mem[r].held /\ mem[r].filled = c.snap /\ MaxCum(r) = c.cum
  BY <1>0 DEF SInv, CallsOK, FillKnows
<1>2. after = Lower(Qty, c.cum) /\ (stays <=> c.cum < Qty)
  BY <1>0, <1>1, QtyAssumption DEF Lower
<1>3. stays => after = c.cum  BY <1>0, <1>2, QtyAssumption DEF Lower
<1>4. /\ mem' = [mem EXCEPT ![r] = IF stays THEN Held(after) ELSE Free]
      /\ Set(w, "f_upsert", d)
  BY DEF FillApply
<1>5. d.rid = r /\ d.cum = c.cum /\ d.row = IF stays THEN OpenRow(after) ELSE CompletedRow(c.cum)
  BY <1>0 DEF Call
<1> HIDE DEF d, stays, after
<1>6. \A q \in Rid : mem'[q] = IF q = r THEN (IF stays THEN Held(c.cum) ELSE Free) ELSE mem[q]
  BY <1>0, <1>3, <1>4
<1>7. /\ \A v \in Worker : v = w /\ pc'[v] = "f_upsert" /\ call'[v] = d
      /\ \A q \in Rid : MaxCum(q)' = MaxCum(q)
      /\ UNCHANGED <<ledger, progress, tomb, venue, up, hydrated>>
  BY <1>0, <1>4, MaxCumSame DEF Set, Serial, IInv, ControlOK, Remembering, store
<1>8. TerminalRowAccounts' /\ RowsOK'
  BY <1>7 DEF SInv, Together, TerminalRowAccounts, RowsOK, IsOpen
<1>9. MemoryOK'
  <2>1. \A q \in Rid : q # r => Backed(q)
    BY <1>0 DEF SInv, Together, MemoryOK, Apart, ApartSteps, Serial
  <2>2. \A q \in Rid : Backed(q)'
    BY <1>1, <1>2, <1>6, <1>7, <2>1 DEF Backed, IsOpen, Held, Free
  <2>3. ~stays => c.cum >= Qty  BY <1>0, <1>2, QtyAssumption
  <2> QED
    BY <1>0, <1>1, <1>6, <1>7, <2>2, <2>3 DEF SInv, Together, MemoryOK, IsOpen, Held, Free
<1>10. CallsOK'
  <2>1. \/ mem'[r].held /\ d.row = OpenRow(c.cum)
        \/ ~mem'[r].held /\ c.cum >= Qty /\ d.row = CompletedRow(c.cum)
    BY <1>0, <1>2, <1>3, <1>5, <1>6, QtyAssumption DEF Held, Free
  <2> QED
    BY <1>0, <1>1, <1>5, <1>7, <2>1
       DEF CallsOK, OpenKnows, FillKnows, ReleaseKnows, Opening, IsOpen
<1> QED  BY <1>8, <1>9, <1>10 DEF SInv, Together

LEMMA FillUpsertKeeps ==
    ASSUME Serial, IInv, SInv, NEW w \in Worker, FillUpsert(w)
    PROVE  SInv'
<1> DEFINE c == call[w]
           r == c.rid
<1>0. /\ pc[w] = "f_upsert" /\ r \in Rid /\ Storing /\ c.cum \in Nat
      /\ up /\ venue[r].status # "none" /\ ledger \in [Rid -> Row]
  BY DEF FillUpsert, At, IInv, ControlOK, DataOK, StoreTypeOK, Call, SInv, CallsOK
<1>1. /\ IsOpen(r) /\ MaxCum(r) = c.cum
      /\ \/ mem[r].held /\ c.row = OpenRow(c.cum)
         \/ ~mem[r].held /\ c.cum >= Qty /\ c.row = CompletedRow(c.cum)
  BY <1>0 DEF SInv, CallsOK, FillKnows
<1>2. \A q \in Rid : Backed(q)
  BY <1>0 DEF SInv, Together, MemoryOK, Apart, ApartSteps, Serial
<1>3. CASE Upsert(r, c.row) /\ AfterFill(w, TRUE)
  <2>1. /\ \A q \in Rid : ledger'[q] = IF q = r THEN c.row ELSE ledger[q]
        /\ UNCHANGED <<progress, tomb, mem, venue, up, hydrated>>
        /\ \A q \in Rid : MaxCum(q)' = MaxCum(q)
    BY <1>0, <1>3, MaxCumSame DEF Upsert, Storing
  <2>2. CallsOK'
    BY <1>0, <1>3, AfterFillKnows DEF SInv, Storing
  <2>3. CASE c.row = OpenRow(c.cum) /\ mem[r].held
    <3>1. TerminalRowAccounts' /\ RowsOK'
      BY <1>0, <1>1, <2>1, <2>3
         DEF SInv, Together, TerminalRowAccounts, RowsOK, IsOpen, OpenRow, Terminal
    <3>2. MemoryOK'
      BY <1>0, <1>2, <2>1, <2>3
         DEF SInv, Together, MemoryOK, Backed, IsOpen, OpenRow
    <3> QED  BY <2>2, <3>1, <3>2 DEF SInv, Together
  <2>4. CASE c.row = CompletedRow(c.cum) /\ ~mem[r].held /\ c.cum >= Qty
    <3>1. c.row = [status |-> "filled", filled |-> Qty, cancelled |-> 0]
      BY <1>0, <2>4, QtyAssumption DEF CompletedRow, Lower
    <3>2. TerminalRowAccounts' /\ RowsOK'
      BY <1>0, <1>1, <2>1, <3>1, QtyAssumption
         DEF SInv, Together, TerminalRowAccounts, RowsOK, IsOpen, Terminal
    <3>3. MemoryOK'
      BY <1>0, <1>2, <2>1, <2>4, <3>1
         DEF SInv, Together, MemoryOK, Backed, IsOpen
    <3> QED  BY <2>2, <3>2, <3>3 DEF SInv, Together
  <2> QED  BY <1>1, <2>3, <2>4
<1>4. CASE AfterFill(w, FALSE) /\ UNCHANGED store
  <2>1. Together'  BY <1>0, <1>4, ReadingKeeps DEF Reading, Storing, ApartSteps
  <2>2. CallsOK'  BY <1>0, <1>4, AfterFillKnows DEF SInv, Storing
  <2> QED  BY <2>1, <2>2 DEF SInv
<1> QED  BY <1>3, <1>4 DEF FillUpsert

-----------------------------------------------------------------------------
(* guarded_release_reservation.                                            *)

LEMMA ReleaseReads ==
    ASSUME Serial, IInv, SInv, NEW w \in Worker,
           \/ ReleaseReadKey(w) \/ ReleaseResolve(w)
           \/ ReleaseReadTombstone(w) \/ ReleaseReadMemory(w)
    PROVE  SInv'
<1> DEFINE c == call[w]
           r == c.rid
<1>1. /\ Reading /\ pc[w] \in {"r_key", "r_resolve", "r_tomb", "r_memory"}
      /\ c \in Call /\ r \in Rid /\ up /\ venue[r].status # "none"
  BY DEF ReleaseReadKey, ReleaseResolve, ReleaseReadTombstone, ReleaseReadMemory, At,
         IInv, ControlOK, Call, SInv, CallsOK
<1>2. Together'  BY <1>1, ReadingKeeps DEF ApartSteps
<1>3. UNCHANGED <<ledger, tomb, mem, up, venue>>  BY <1>1 DEF Reading, store
<1>4. CASE Return(w)  BY <1>2, <1>4, ReturnKnows DEF SInv
<1>5. CASE /\ pc[w] \in {"r_key", "r_resolve", "r_tomb"}
           /\ \/ Goto(w, "r_tomb") \/ Goto(w, "r_memory")
              \/ pc[w] = "r_key" /\ Goto(w, "r_resolve")
              \/ pc[w] = "r_resolve" /\ c.release = "filled" /\ Goto(w, "f_resolve")
  <2>1. /\ \A v \in Worker : v = w /\ call'[v] = c
        /\ \/ pc'[w] \in {"r_tomb", "r_memory"}
           \/ pc[w] = "r_key" /\ pc'[w] = "r_resolve"
           \/ pc[w] = "r_resolve" /\ c.release = "filled" /\ pc'[w] = "f_resolve"
    BY <1>5 DEF Goto, Serial, IInv, ControlOK
  <2>2. pc[w] \in {"r_key", "r_resolve"} /\ c.release = "filled" =>
            c.delta = c.cum /\ (c.cum > 0 => c.event = c.cum)
    BY DEF SInv, CallsOK, FillKnows
  <2>3. CallsOK'
    BY <1>1, <1>3, <2>1, <2>2 DEF CallsOK, OpenKnows, FillKnows, ReleaseKnows, Opening
  <2> QED  BY <1>2, <2>3 DEF SInv
<1>6. CASE ReleaseReadMemory(w)
  <2> DEFINE d == [c EXCEPT !.snap = mem[r].filled]
  <2>1. CASE mem[r].held /\ Set(w, "r_record", d)
    <3>1. d.rid = r /\ d.snap = mem[r].filled  BY <1>1 DEF Call
    <3> HIDE DEF d
    <3>2. \A v \in Worker : v = w /\ pc'[v] = "r_record" /\ call'[v] = d
      BY <2>1 DEF Set, Serial, IInv, ControlOK
    <3>3. CallsOK'
      BY <1>1, <1>3, <2>1, <3>1, <3>2 DEF CallsOK, OpenKnows, FillKnows, ReleaseKnows, Opening
    <3> QED  BY <1>2, <3>3 DEF SInv
  <2> QED  BY <1>4, <1>6, <2>1 DEF ReleaseReadMemory
<1>7. CASE ReleaseReadKey(w)  BY <1>4, <1>5, <1>7 DEF ReleaseReadKey, At
<1>8. CASE ReleaseResolve(w)  BY <1>4, <1>5, <1>8 DEF ReleaseResolve, At
<1>9. CASE ReleaseReadTombstone(w)  BY <1>4, <1>5, <1>9 DEF ReleaseReadTombstone, At
<1> QED  BY <1>6, <1>7, <1>8, <1>9

LEMMA ReleaseRecordKeeps ==
    ASSUME Serial, IInv, SInv, NEW w \in Worker, ReleaseRecord(w)
    PROVE  SInv'
<1> DEFINE c == call[w]
           r == c.rid
<1>0. /\ pc[w] = "r_record" /\ r \in Rid /\ Storing /\ c.release \in Terminal
      /\ up /\ venue[r].status # "none" /\ tomb \in [Rid -> Terminal \union {NoTomb}]
  BY DEF ReleaseRecord, At, IInv, ControlOK, DataOK, StoreTypeOK, Call, SInv, CallsOK, Releasing
<1>1. mem[r].held /\ c.snap = mem[r].filled  BY <1>0 DEF SInv, CallsOK, ReleaseKnows
<1>2. \A q \in Rid : Backed(q)
  BY <1>0 DEF SInv, Together, MemoryOK, Apart, ApartSteps, Serial
<1>3. IsOpen(r) /\ tomb[r] = NoTomb /\ MaxCum(r) = c.snap  BY <1>0, <1>1, <1>2 DEF Backed
<1>4. CASE RecordTombstone(r, c.release) /\ Goto(w, "r_remove")
  <2>1. /\ \A q \in Rid : tomb'[q] = IF q = r THEN c.release ELSE tomb[q]
        /\ UNCHANGED <<ledger, progress, mem, venue, up, hydrated>>
        /\ \A q \in Rid : MaxCum(q)' = MaxCum(q)
        /\ \A v \in Worker : v = w /\ pc'[v] = "r_remove" /\ call'[v] = c
    BY <1>0, <1>4, MaxCumSame DEF RecordTombstone, Storing, Goto, Serial, IInv, ControlOK
  <2>2. c.release # NoTomb  BY <1>0 DEF Terminal, NoTomb
  <2>3. TerminalRowAccounts' /\ RowsOK'
    BY <1>3, <2>1 DEF SInv, Together, TerminalRowAccounts, RowsOK, IsOpen
  <2>4. MemoryOK'
    <3>1. \A q \in Rid : q # r => Backed(q)'  BY <1>2, <2>1 DEF Backed, IsOpen
    <3>2. \E v \in Worker : call'[v].rid = r /\ pc'[v] \in ApartSteps
      BY <2>1 DEF ApartSteps
    <3>3. \A q \in Rid : Backed(q)' \/ Apart(q)'  BY <3>1, <3>2 DEF Apart
    <3> QED  BY <2>1, <2>2, <3>3 DEF SInv, Together, MemoryOK, IsOpen
  <2>5. CallsOK'
    BY <1>0, <1>1, <1>3, <2>1, <2>2
       DEF CallsOK, OpenKnows, FillKnows, ReleaseKnows, Opening, IsOpen
  <2> QED  BY <2>3, <2>4, <2>5 DEF SInv, Together
<1>5. CASE Return(w) /\ UNCHANGED store
  <2>1. Together'  BY <1>0, <1>5, ReadingKeeps DEF Reading, Storing, ApartSteps
  <2> QED  BY <1>5, <2>1, ReturnKnows DEF SInv
<1> QED  BY <1>4, <1>5 DEF ReleaseRecord

LEMMA ReleaseRemoveKeeps ==
    ASSUME Serial, IInv, SInv, NEW w \in Worker, ReleaseRemove(w)
    PROVE  SInv'
<1> DEFINE c == call[w]
           r == c.rid
           d == [c EXCEPT !.row = ReleasedRow(c.release, c.snap)]
<1>0. /\ pc[w] = "r_remove" /\ r \in Rid /\ c \in Call /\ Remembering
      /\ up /\ venue[r].status # "none"
      /\ mem \in [Rid -> [held: BOOLEAN, filled: 0..Qty]]
      /\ mem' = [mem EXCEPT ![r] = Free] /\ Set(w, "r_upsert", d)
  BY DEF ReleaseRemove, At, IInv, ControlOK, DataOK, Call, SInv, CallsOK
<1>1. IsOpen(r) /\ tomb[r] # NoTomb /\ MaxCum(r) = c.snap
  BY <1>0 DEF SInv, CallsOK, ReleaseKnows
<1>2. /\ d.rid = r /\ d.snap = c.snap /\ d.release = c.release
      /\ d.row = ReleasedRow(c.release, c.snap)
  BY <1>0 DEF Call
<1> HIDE DEF d
<1>3. /\ \A q \in Rid : mem'[q] = IF q = r THEN Free ELSE mem[q]
      /\ \A v \in Worker : v = w /\ pc'[v] = "r_upsert" /\ call'[v] = d
      /\ \A q \in Rid : MaxCum(q)' = MaxCum(q)
      /\ UNCHANGED <<ledger, progress, tomb, venue, up, hydrated>>
  BY <1>0, MaxCumSame DEF Set, Serial, IInv, ControlOK, Remembering, store
<1>4. TerminalRowAccounts' /\ RowsOK'
  BY <1>3 DEF SInv, Together, TerminalRowAccounts, RowsOK, IsOpen
<1>5. MemoryOK'
  <2>1. \A q \in Rid : q # r => Backed(q)
    BY <1>0 DEF SInv, Together, MemoryOK, Apart, ApartSteps, Serial
  <2>2. \A q \in Rid : Backed(q)'
    BY <1>3, <2>1 DEF Backed, IsOpen, Free
  <2> QED  BY <1>0, <1>1, <1>3, <2>2 DEF SInv, Together, MemoryOK, IsOpen, Free
<1>6. CallsOK'
  BY <1>0, <1>1, <1>2, <1>3
     DEF CallsOK, OpenKnows, FillKnows, ReleaseKnows, Opening, IsOpen, Free
<1> QED  BY <1>4, <1>5, <1>6 DEF SInv, Together

LEMMA ReleaseUpsertKeeps ==
    ASSUME Serial, IInv, SInv, NEW w \in Worker, ReleaseUpsert(w)
    PROVE  SInv'
<1> DEFINE c == call[w]
           r == c.rid
<1>0. /\ pc[w] = "r_upsert" /\ r \in Rid /\ Storing /\ Return(w) /\ c.release \in Terminal
      /\ c.snap \in 0..Qty /\ ledger \in [Rid -> Row] /\ venue[r].status # "none"
  BY DEF ReleaseUpsert, At, IInv, ControlOK, DataOK, StoreTypeOK, Call, Releasing, SInv, CallsOK
<1>1. /\ IsOpen(r) /\ tomb[r] # NoTomb /\ MaxCum(r) = c.snap /\ ~mem[r].held
      /\ c.row = ReleasedRow(c.release, c.snap)
  BY <1>0 DEF SInv, CallsOK, ReleaseKnows
<1>2. CASE Upsert(r, c.row)
  <2>1. /\ \A q \in Rid : ledger'[q] = IF q = r THEN c.row ELSE ledger[q]
        /\ UNCHANGED <<progress, tomb, mem, venue, up, hydrated>>
        /\ \A q \in Rid : MaxCum(q)' = MaxCum(q)
    BY <1>0, <1>2, MaxCumSame DEF Upsert, Storing
  <2>2. /\ c.row.status \in Terminal /\ c.row.filled + c.row.cancelled = Qty
        /\ c.row.status = "cancelled" => c.row.filled = c.snap
    BY <1>0, <1>1, QtyAssumption DEF ReleasedRow, Terminal
  <2>3. \A q \in Rid : Backed(q)
    BY <1>0 DEF SInv, Together, MemoryOK, Apart, ApartSteps, Serial
  <2>4. TerminalRowAccounts' /\ RowsOK'
    BY <1>0, <1>1, <2>1, <2>2
       DEF SInv, Together, TerminalRowAccounts, RowsOK, IsOpen, Terminal
  <2>5. MemoryOK'
    BY <1>0, <1>1, <2>1, <2>2, <2>3
       DEF SInv, Together, MemoryOK, Backed, IsOpen, Terminal
  <2> QED  BY <1>0, <2>4, <2>5, ReturnKnows DEF SInv, Together
<1>3. CASE UNCHANGED store
  <2>1. Together'  BY <1>0, <1>3, ReadingKeeps DEF Reading, Storing, ApartSteps
  <2> QED  BY <1>0, <2>1, ReturnKnows DEF SInv
<1> QED  BY <1>2, <1>3 DEF ReleaseUpsert

-----------------------------------------------------------------------------
(* The calls that start, the venue, crashes and restarts.                  *)

\* A call that is handed its step and its locals while all others are idle.
LEMMA StartKeeps ==
    ASSUME Serial, IInv, SInv, NEW w \in Worker, At(w, "idle"), NEW r \in Rid,
           NEW there, NEW c, Start(w, there, c), c.rid = r,
           \A q \in Rid : venue'[q].status = "none" => venue[q].status = "none",
           venue'[r].status # "none",
           \/ there = "o_tomb" /\ venue[r].status = "none"
           \/ /\ there = "f_resolve" \/ there = "r_key"
              /\ c.delta = c.cum /\ (c.cum > 0 => c.event = c.cum)
    PROVE  SInv'
<1>1. /\ \A v \in Worker : v = w /\ pc[v] = "idle" /\ pc'[v] = there /\ call'[v] = c
      /\ up /\ UNCHANGED <<ledger, progress, tomb, mem, up, hydrated>>
  BY DEF Start, Set, At, Serial, IInv, ControlOK, store
<1>2. \A q \in Rid : MaxCum(q)' = MaxCum(q)  BY <1>1, MaxCumSame
<1>3. \A q \in Rid : Backed(q)
  BY <1>1 DEF SInv, Together, MemoryOK, Apart, ApartSteps
<1>4. TerminalRowAccounts' /\ RowsOK'
  BY <1>1, <1>2 DEF SInv, Together, TerminalRowAccounts, RowsOK, IsOpen
<1>5. MemoryOK'
  BY <1>1, <1>2, <1>3 DEF SInv, Together, MemoryOK, Backed, IsOpen
<1>6. there = "o_tomb" => ledger[r].status = "absent" /\ ~mem[r].held
  BY DEF SInv, Together, RowsOK, MemoryOK
<1>7. CallsOK'
  BY <1>1, <1>6 DEF CallsOK, OpenKnows, FillKnows, ReleaseKnows, Opening
<1> QED  BY <1>4, <1>5, <1>7 DEF SInv, Together

LEMMA ReportKeeps ==
    ASSUME Serial, IInv, SInv, NEW w \in Worker, NEW r \in Rid, Report(w, r)
    PROVE  SInv'
<1> DEFINE n == venue[r].filled
           base == CallFor(r)
<1>0. /\ venue \in [Rid -> [status: {"none", "live"} \union Terminal, filled: 0..OrderQty]]
      /\ base \in Call /\ base.rid = r
  <2>1. NoCall \in Call  BY NoCallType
  <2> QED  BY <2>1, CallForType DEF IInv, DataOK, CallFor, Call
<1>1. CASE Submit(w, r)
  <2>1. \A q \in Rid : venue'[q].status = IF q = r THEN "live" ELSE venue[q].status
    BY <1>0, <1>1 DEF Submit
  <2> HIDE DEF base
  <2>2. At(w, "idle") /\ venue[r].status = "none" /\ Start(w, "o_tomb", base)
    BY <1>1 DEF Submit, base
  <2> QED  BY <1>0, <2>1, <2>2, StartKeeps
<1>2. CASE ReportPartialFill(w, r)
  <2> DEFINE d == [base EXCEPT !.event = n, !.cum = n, !.delta = n]
  <2>1. /\ UNCHANGED venue /\ Start(w, "f_resolve", d) /\ At(w, "idle")
        /\ venue[r].status # "none"
    BY <1>2 DEF ReportPartialFill
  <2> HIDE DEF base
  <2>2. d.rid = r /\ d.delta = d.cum /\ d.event = d.cum  BY <1>0 DEF Call
  <2> HIDE DEF d
  <2> QED  BY <2>1, <2>2, StartKeeps
<1>3. CASE ReportTerminal(w, r)
  <2> DEFINE s == venue[r].status
             e == IF n = 0 THEN 1 ELSE n
             d == [base EXCEPT !.kind = "closing", !.release = s,
                               !.event = e, !.cum = n, !.delta = n]
  <2>1. /\ UNCHANGED venue /\ At(w, "idle") /\ s # "none"
        /\ Start(w, "f_resolve", d) \/ Start(w, "r_key", d)
    BY <1>3 DEF ReportTerminal, Terminal
  <2> HIDE DEF base
  <2>2. d.rid = r /\ d.delta = d.cum /\ (d.cum > 0 => d.event = d.cum)  BY <1>0 DEF Call
  <2> HIDE DEF d
  <2> QED  BY <2>1, <2>2, StartKeeps
<1> QED  BY <1>1, <1>2, <1>3 DEF Report

LEMMA EnvironmentKeeps ==
    ASSUME IInv, SInv, NEW r \in Rid, VenueFill(r) \/ VenueClose(r)
    PROVE  SInv'
<1>1. Environment  BY DEF VenueFill, VenueClose
<1>2. \A q \in Rid : venue'[q].status = "none" <=> venue[q].status = "none"
  <2>1. venue \in [Rid -> [status: {"none", "live"} \union Terminal, filled: 0..OrderQty]]
    BY DEF IInv, DataOK
  <2>2. CASE VenueFill(r)  BY <2>1, <2>2 DEF VenueFill
  <2>3. CASE VenueClose(r)  BY <2>1, <2>3 DEF VenueClose, Terminal
  <2> QED  BY <2>2, <2>3
<1>3. UNCHANGED <<ledger, progress, tomb, mem, up, hydrated, pc, call>>
  BY <1>1 DEF Environment, store
<1>4. \A q \in Rid : MaxCum(q)' = MaxCum(q)  BY <1>3, MaxCumSame
<1>5. TerminalRowAccounts' /\ RowsOK'
  BY <1>2, <1>3, <1>4 DEF SInv, Together, TerminalRowAccounts, RowsOK, IsOpen
<1>6. MemoryOK'
  BY <1>2, <1>3, <1>4 DEF SInv, Together, MemoryOK, Backed, Apart, IsOpen
<1>7. CallsOK'
  <2>1. \A w \in Worker : call[w].rid \in Rid  BY DEF IInv, ControlOK, Call
  <2>2. \A w \in Worker : OpenKnows(w)' /\ FillKnows(w)' /\ ReleaseKnows(w)'
    BY <1>3, <1>4, <2>1 DEF SInv, CallsOK, OpenKnows, FillKnows, ReleaseKnows, IsOpen
  <2> QED  BY <1>2, <1>3, <2>1, <2>2 DEF SInv, CallsOK
<1> QED  BY <1>5, <1>6, <1>7 DEF SInv, Together

LEMMA CrashKeeps ==
    ASSUME IInv, SInv, Crash
    PROVE  SInv'
<1>1. /\ UNCHANGED <<ledger, progress, tomb, venue>> /\ ~up'
      /\ \A q \in Rid : ~mem'[q].held
      /\ \A v \in Worker : pc'[v] = "idle"
  BY DEF Crash, store, Free, IInv, DataOK
<1>2. \A q \in Rid : MaxCum(q)' = MaxCum(q)  BY <1>1, MaxCumSame
<1>3. TerminalRowAccounts' /\ RowsOK'
  BY <1>1, <1>2 DEF SInv, Together, TerminalRowAccounts, RowsOK, IsOpen
<1>4. MemoryOK'  BY <1>1 DEF MemoryOK, Backed
<1>5. CallsOK'  BY <1>1 DEF CallsOK, OpenKnows, FillKnows, ReleaseKnows, Opening
<1> QED  BY <1>3, <1>4, <1>5 DEF SInv, Together

\* Hydration rebuilds exactly the reservations of open rows that no tombstone
\* released and whose journal is short of the quantity.
LEMMA RestartKeeps ==
    ASSUME IInv, SInv, OneActivePerDedupe, Restart
    PROVE  SInv'
<1>1. /\ UNCHANGED <<ledger, progress, tomb, venue, pc, call>> /\ up' /\ ~up
  BY DEF Restart, store, IInv, DataOK
<1>2. \A q \in Rid : MaxCum(q)' = MaxCum(q)  BY <1>1, MaxCumSame
<1>3. TerminalRowAccounts' /\ RowsOK'
  BY <1>1, <1>2 DEF SInv, Together, TerminalRowAccounts, RowsOK, IsOpen
<1>4. \A w \in Worker : pc[w] = "idle" /\ pc'[w] = "idle"  BY <1>1 DEF SInv, CallsOK
<1>5. CallsOK'  BY <1>4 DEF CallsOK, OpenKnows, FillKnows, ReleaseKnows, Opening
<1>6. \A q \in Rid : ~mem[q].held  BY <1>1 DEF SInv, Together, MemoryOK
<1>7. ASSUME UNCHANGED mem, hydrated' = FALSE
      PROVE  MemoryOK'
  <2>1. \A q \in Rid : ~mem'[q].held  BY <1>6, <1>7
  <2>2. \A q \in Rid : Backed(q)'  BY <2>1 DEF Backed
  <2> QED  BY <1>1, <1>7, <2>1, <2>2 DEF MemoryOK
<1>8. ASSUME mem' = [q \in Rid |-> IF Recoverable(q) THEN Held(Recovered(q)) ELSE Free]
      PROVE  MemoryOK'
  <2>1. \A q \in Rid : IsOpen(q) =>
             /\ ledger[q].cancelled = 0 /\ ledger[q].filled <= MaxCum(q)
             /\ MaxCum(q) \in Nat /\ ledger[q].filled \in Nat
    BY MaxCumType, QtyAssumption DEF SInv, Together, RowsOK, IInv, DataOK, StoreTypeOK, Row
  <2>2. \A q \in Rid : Recoverable(q) <=> IsOpen(q) /\ tomb[q] = NoTomb /\ MaxCum(q) < Qty
    <3> TAKE q \in Rid
    <3>1. IsOpen(q) => Recovered(q) = MaxCum(q)  BY <2>1 DEF Recovered
    <3>2. IsOpen(q) =>
             ((\A a \in SameDedupe(q) : tomb[a] # NoTomb => ~IsOpen(a)) <=> tomb[q] = NoTomb)
      BY DEF OneActivePerDedupe, SameDedupe
    <3>3. IsOpen(q) => (MaxCum(q) <= Qty /\ MaxCum(q) + 0 < Qty <=> MaxCum(q) < Qty)
      BY <2>1, QtyAssumption
    <3> QED  BY <2>1, <3>1, <3>2, <3>3 DEF Recoverable
  <2>3. \A q \in Rid : Recoverable(q) => Recovered(q) = MaxCum(q)
    BY <2>1, <2>2 DEF Recovered
  <2>4. \A q \in Rid : /\ mem'[q].held <=> Recoverable(q)
                       /\ mem'[q].held => mem'[q].filled = MaxCum(q)
    BY <1>8, <2>3 DEF Held, Free
  <2>5. \A q \in Rid : Backed(q)'
    BY <1>1, <1>2, <2>2, <2>4 DEF Backed, IsOpen
  <2>6. \A q \in Rid : IsOpen(q)' /\ ~mem'[q].held => tomb'[q] # NoTomb \/ MaxCum(q)' >= Qty
    BY <1>1, <1>2, <2>1, <2>2, <2>4, QtyAssumption DEF IsOpen
  <2>7. \A q \in Rid : venue'[q].status = "none" => ~mem'[q].held
    BY <1>1, <2>2, <2>4 DEF SInv, Together, RowsOK, IsOpen
  <2> QED  BY <1>1, <2>5, <2>6, <2>7 DEF MemoryOK
<1>9. MemoryOK'  BY <1>7, <1>8 DEF Restart
<1> QED  BY <1>3, <1>5, <1>9 DEF SInv, Together

-----------------------------------------------------------------------------
(* The invariant, and what it says between the calls.                      *)

LEMMA InitSerial == Init => SInv
<1> SUFFICES ASSUME Init PROVE SInv  OBVIOUS
<1>1. Together
  BY DEF Init, StoreInit, Together, TerminalRowAccounts, RowsOK, MemoryOK, Backed, IsOpen,
         NoRow, Free, Terminal
<1>2. CallsOK  BY DEF Init, CallsOK, OpenKnows, FillKnows, ReleaseKnows, Opening
<1> QED  BY <1>1, <1>2 DEF SInv

LEMMA NextSerial ==
    ASSUME Serial
    PROVE  IInv /\ OneActivePerDedupe /\ SInv /\ [Next]_vars => SInv'
<1> SUFFICES ASSUME IInv, OneActivePerDedupe, SInv, [Next]_vars PROVE SInv'  OBVIOUS
<1>1. ASSUME NEW r \in Rid, VenueFill(r) \/ VenueClose(r) PROVE SInv'
  BY <1>1, EnvironmentKeeps
<1>2. ASSUME NEW w \in Worker, NEW r \in Rid, Report(w, r) PROVE SInv'
  BY <1>2, ReportKeeps
<1>3. ASSUME NEW w \in Worker, OpenStep(w) PROVE SInv'
  BY <1>3, OpenReads, OpenReserveKeeps, OpenUpsertKeeps, OpenRollbackKeeps DEF OpenStep
<1>4. ASSUME NEW w \in Worker, FillStep(w) PROVE SInv'
  BY <1>4, FillReads, FillRecordKeeps, FillApplyKeeps, FillUpsertKeeps DEF FillStep
<1>5. ASSUME NEW w \in Worker, ReleaseStep(w) PROVE SInv'
  BY <1>5, ReleaseReads, ReleaseRecordKeeps, ReleaseRemoveKeeps, ReleaseUpsertKeeps
     DEF ReleaseStep
<1>6. CASE Crash  BY <1>6, CrashKeeps
<1>7. CASE Restart  BY <1>7, RestartKeeps
<1>8. CASE UNCHANGED vars
  <2>1. \A q \in Rid : MaxCum(q)' = MaxCum(q)  BY <1>8, MaxCumSame DEF vars, store
  <2>2. UNCHANGED <<ledger, progress, tomb, mem, venue, up, hydrated, pc, call>>
    BY <1>8 DEF vars, store
  <2>3. Together'
    BY <2>1, <2>2 DEF SInv, Together, TerminalRowAccounts, RowsOK, MemoryOK, Backed, Apart, IsOpen
  <2>4. \A w \in Worker : call[w].rid \in Rid  BY DEF IInv, ControlOK, Call
  <2>5. CallsOK'
    BY <2>1, <2>2, <2>4 DEF SInv, CallsOK, OpenKnows, FillKnows, ReleaseKnows, IsOpen
  <2> QED  BY <2>3, <2>5 DEF SInv
<1> QED  BY <1>1, <1>2, <1>3, <1>4, <1>5, <1>6, <1>7, <1>8 DEF Next

LEMMA SerialInvariant ==
    ASSUME Serial
    PROVE  Spec => [](IInv /\ SInv)
<1>1. IInv /\ OneActivePerDedupe /\ SInv /\ [Next]_vars => SInv'  BY NextSerial
<1> QED
  BY <1>1, InitInvariant, NextInvariant, InitSerial, OneActivePerDedupeHolds, PTL DEF Spec

\* Neither memory nor an open row ever shows a fill the journal lacks, at any
\* step of a call, whatever write failed before and wherever the process died:
\* the fill that a crash catches between its steps is the journal's alone.
THEOREM WriteAheadHolds ==
    ASSUME Serial
    PROVE  Spec => []WriteAhead
<1>1. ASSUME IInv, SInv, NEW r \in Rid
      PROVE  /\ mem[r].held => mem[r].filled <= MaxCum(r)
             /\ IsOpen(r) => ledger[r].filled <= MaxCum(r)
  <2>1. MaxCum(r) \in Nat  BY <1>1, MaxCumType, QtyAssumption
  <2>2. CASE Backed(r)  BY <1>1, <2>1, <2>2 DEF Backed, SInv, Together, RowsOK
  <2>3. ASSUME NEW w \in Worker, call[w].rid = r, pc[w] \in ApartSteps
        PROVE  mem[r].held => mem[r].filled <= MaxCum(r)
    <3>1. CASE pc[w] = "o_upsert"
      BY <1>1, <2>1, <2>3, <3>1 DEF SInv, CallsOK, OpenKnows, Held
    <3>2. CASE pc[w] = "o_rollback"
      BY <1>1, <2>1, <2>3, <3>2 DEF SInv, CallsOK, OpenKnows
    <3>3. CASE pc[w] = "f_apply"
      <4>1. mem[r].filled = call[w].snap /\ call[w].snap < call[w].cum /\ MaxCum(r) = call[w].cum
        BY <1>1, <2>3, <3>3 DEF SInv, CallsOK, FillKnows
      <4>2. call[w].snap \in Nat /\ call[w].cum \in Nat
        BY <1>1, QtyAssumption DEF IInv, ControlOK, Call
      <4> QED  BY <4>1, <4>2
    <3>4. CASE pc[w] = "r_remove"
      <4>1. mem[r].filled = call[w].snap /\ MaxCum(r) = call[w].snap
        BY <1>1, <2>3, <3>4 DEF SInv, CallsOK, ReleaseKnows
      <4> QED  BY <2>1, <4>1
    <3> QED  BY <2>3, <3>1, <3>2, <3>3, <3>4 DEF ApartSteps
  <2>4. IsOpen(r) => ledger[r].filled <= MaxCum(r)  BY <1>1 DEF SInv, Together, RowsOK
  <2> QED  BY <1>1, <2>2, <2>3, <2>4 DEF SInv, Together, MemoryOK, Apart
<1>2. IInv /\ SInv => WriteAhead  BY <1>1 DEF WriteAhead
<1> QED  BY <1>2, SerialInvariant, PTL

\* A reservation that no call is working on is backed.
LEMMA QuietBacked ==
    ASSUME SInv, NEW r \in Rid, Quiet(r)
    PROVE  Backed(r)
BY DEF SInv, Together, MemoryOK, Apart, ApartSteps, Quiet

\* Between the calls the memory shows exactly the journal's fills.
THEOREM MemoryCaughtUpHolds ==
    ASSUME Serial
    PROVE  Spec => []MemoryCaughtUp
<1>1. SInv => MemoryCaughtUp  BY QuietBacked DEF MemoryCaughtUp, Backed
<1> QED  BY <1>1, SerialInvariant, PTL

\* Between the calls a reservation in memory is that of an open row without a
\* tombstone: a refused or failed upsert has been rolled back, and a release
\* has left memory whether or not its last write failed.
THEOREM MemoryBackedHolds ==
    ASSUME Serial
    PROVE  Spec => []MemoryBacked
<1>1. SInv => MemoryBacked  BY QuietBacked DEF MemoryBacked, Backed
<1> QED  BY <1>1, SerialInvariant, PTL

\* Between the calls of a process that hydrated, no open row is missing from
\* memory unless the journal shows it filled or a tombstone shows it released:
\* restarts included, no live order's exposure is forgotten.
THEOREM NoForgottenExposureHolds ==
    ASSUME Serial
    PROVE  Spec => []NoForgottenExposure
<1>1. SInv => NoForgottenExposure  BY DEF SInv, Together, MemoryOK, NoForgottenExposure
<1> QED  BY <1>1, SerialInvariant, PTL

\* A terminal row accounts for the whole quantity, and a cancelled one frees
\* exactly what the journal shows unfilled, although its quantities were
\* computed from a reservation read four steps earlier.
THEOREM TerminalRowAccountsHolds ==
    ASSUME Serial
    PROVE  Spec => []TerminalRowAccounts
<1>1. SInv => TerminalRowAccounts  BY DEF SInv, Together
<1> QED  BY <1>1, SerialInvariant, PTL

-----------------------------------------------------------------------------
(* The durable tables implement DurableReservation, step by step.          *)

LEMMA DurableStateIs ==
    ASSUME NEW r \in Rid, MaxCum(r) \in Nat
    PROVE  DurableState(r) = IF tomb[r] # NoTomb THEN "released"
                             ELSE IF MaxCum(r) >= Qty THEN "complete"
                             ELSE IF IsOpen(r) THEN "open" ELSE "none"
<1>1. CASE tomb[r] # NoTomb  BY <1>1 DEF DurableState
<1>2. CASE tomb[r] = NoTomb /\ MaxCum(r) >= Qty  BY <1>2, QtyAssumption DEF DurableState
<1>3. CASE tomb[r] = NoTomb /\ MaxCum(r) < Qty  BY <1>3, QtyAssumption DEF DurableState
<1> QED  BY <1>1, <1>2, <1>3, QtyAssumption

MaxCumNat == \A r \in Rid : MaxCum(r) \in Nat

LEMMA MaxCumNatNow == IInv => MaxCumNat
BY MaxCumType, QtyAssumption DEF MaxCumNat

LEMMA MaxCumNatNext == IInv' => MaxCumNat'
BY MaxCumNatNow, PTL

LEMMA DurableStates ==
    ASSUME IInv, IInv'
    PROVE  \A r \in Rid :
             /\ DurableState(r) = IF tomb[r] # NoTomb THEN "released"
                                  ELSE IF MaxCum(r) >= Qty THEN "complete"
                                  ELSE IF IsOpen(r) THEN "open" ELSE "none"
             /\ DurableState(r)' = IF tomb'[r] # NoTomb THEN "released"
                                   ELSE IF MaxCum(r)' >= Qty THEN "complete"
                                   ELSE IF IsOpen(r)' THEN "open" ELSE "none"
<1> TAKE r \in Rid
<1>1. MaxCum(r) \in Nat /\ MaxCum(r)' \in Nat
  BY MaxCumNatNow, MaxCumNatNext DEF MaxCumNat
<1>2. DurableState(r)' = IF tomb'[r] # NoTomb THEN "released"
                         ELSE IF MaxCum(r)' >= Qty THEN "complete"
                         ELSE IF IsOpen(r)' THEN "open" ELSE "none"
  <2>1. CASE tomb'[r] # NoTomb  BY <2>1 DEF DurableState
  <2>2. CASE tomb'[r] = NoTomb /\ MaxCum(r)' >= Qty
    BY <1>1, <2>2, QtyAssumption DEF DurableState
  <2>3. CASE tomb'[r] = NoTomb /\ MaxCum(r)' < Qty
    BY <1>1, <2>3, QtyAssumption DEF DurableState
  <2> QED  BY <1>1, <2>1, <2>2, <2>3, QtyAssumption
<1> QED  BY <1>1, <1>2, DurableStateIs

\* A step that moves no reservation is a stutter.
LEMMA DurableStutter ==
    ASSUME \A r \in Rid : DurableState(r)' = DurableState(r) /\ MaxCum(r)' = MaxCum(r)
    PROVE  UNCHANGED Durable!vars
BY DEF Durable!vars

LEMMA StoreSameStutters ==
    ASSUME IInv, IInv', UNCHANGED store
    PROVE  UNCHANGED Durable!vars
<1>1. \A r \in Rid : MaxCum(r)' = MaxCum(r)  BY MaxCumSame DEF store
<1>2. \A r \in Rid : DurableState(r)' = DurableState(r)
  BY <1>1, DurableStates DEF store, IsOpen
<1> QED  BY <1>1, <1>2, DurableStutter

\* The row of a new order opens its reservation; the row of a reservation that
\* the order was answered with is open already.
LEMMA OpenUpsertImplements ==
    ASSUME Serial, IInv, IInv', SInv, NEW w \in Worker, OpenUpsert(w)
    PROVE  [Durable!Next]_(Durable!vars)
<1> DEFINE c == call[w]
<1>r. PICK r \in Rid : r = c.rid  BY DEF IInv, ControlOK, Call
<1>q. PICK q \in Rid : q = c.target  BY DEF IInv, ControlOK, Call
<1>0. pc[w] = "o_upsert" /\ ledger \in [Rid -> Row]
  BY DEF OpenUpsert, At, IInv, ControlOK, DataOK, StoreTypeOK, Call
<1>1. /\ ledger[r].status = "absent" /\ tomb[r] = NoTomb /\ MaxCum(r) = 0
  BY <1>r, <1>q, <1>0, MaxCumEmpty DEF SInv, CallsOK, OpenKnows, Opening, Together, RowsOK
<1>2. \/ q = r /\ c.row = OpenRow(0)
      \/ q # r /\ mem[q].held /\ c.row = OpenRow(mem[q].filled)
  BY <1>r, <1>q, <1>0 DEF SInv, CallsOK, OpenKnows
<1>3. CASE Upsert(q, c.row)
  <2>1. /\ \A p \in Rid : ledger'[p] = IF p = q THEN c.row ELSE ledger[p]
        /\ UNCHANGED <<progress, tomb>> /\ \A p \in Rid : MaxCum(p)' = MaxCum(p)
    BY <1>r, <1>q, <1>0, <1>3, MaxCumSame DEF Upsert
  <2>2. c.row.status = "open"  BY <1>2 DEF OpenRow
  <2>3. CASE q = r
    <3>1. DurableState(r) = "none" /\ DurableState(r)' = "open"
      BY <1>r, <1>q, <1>0, <1>1, <2>1, <2>2, <2>3, DurableStates, QtyAssumption DEF IsOpen
    <3>2. \A p \in Rid : p # r => DurableState(p)' = DurableState(p)
      BY <2>1, <2>3, DurableStates DEF IsOpen
    <3>3. \A p \in SameDedupe(r) : tomb[p] = NoTomb /\ (p # r => ~IsOpen(p))
      BY <1>3, <2>2, <2>3 DEF Upsert, UpsertAccepted
    <3>4. \A p \in Rid : Dedupe[p] = Dedupe[r] => DurableState(p) \notin {"open", "released"}
      BY <3>1, <3>3, DurableStates DEF SameDedupe
    <3>5. Durable!Open(r)  BY <1>r, <1>q, <1>0, <2>1, <3>1, <3>2, <3>4 DEF Durable!Open
    <3> QED  BY <1>r, <1>q, <1>0, <3>5 DEF Durable!Next
  <2>4. CASE q # r
    <3>1. IsOpen(q)
      BY <1>r, <1>q, <1>0, <1>2, <2>4 DEF SInv, Together, MemoryOK, Apart, Serial, Backed
    <3>2. \A p \in Rid : DurableState(p)' = DurableState(p)
      BY <2>1, <2>2, <3>1, DurableStates DEF IsOpen
    <3> QED  BY <2>1, <3>2, DurableStutter
  <2> QED  BY <2>3, <2>4
<1> QED  BY <1>r, <1>q, <1>3, StoreSameStutters DEF OpenUpsert

\* The journal row of a fill is the abstract fill.
LEMMA FillRecordImplements ==
    ASSUME Serial, IInv, IInv', SInv, NEW w \in Worker, FillRecord(w)
    PROVE  [Durable!Next]_(Durable!vars)
<1> DEFINE c == call[w]
<1>r. PICK r \in Rid : r = c.rid  BY DEF IInv, ControlOK, Call
<1>n. PICK n \in 0..OrderQty : n = c.cum  BY DEF IInv, ControlOK, Call
<1> DEFINE p == [key |-> [kind |-> c.kind, event |-> c.event], cum |-> c.cum]
<1>0. /\ pc[w] = "f_record" /\ progress \in [Rid -> SUBSET Progress]
  BY DEF FillRecord, At, IInv, ControlOK, DataOK, StoreTypeOK, Call
<1>1. /\ p \in Progress /\ Advances(progress[r], p.cum) /\ ~KeyKnown(r, p.key)
      /\ mem[r].held /\ Backed(r) /\ MaxCum(r) < n /\ p.cum = n /\ n \in 1..OrderQty
  BY <1>r, <1>n, <1>0, RecordAdvances DEF Progress
<1>2. IsOpen(r) /\ tomb[r] = NoTomb /\ MaxCum(r) < Qty  BY <1>1 DEF Backed
<1>3. CASE RecordProgress(r, p)
  <2> HIDE DEF p
  <2>1. progress' = [progress EXCEPT ![r] = @ \union {p}] /\ UNCHANGED <<ledger, tomb>>
    BY <1>r, <1>n, <1>1, <1>3 DEF RecordProgress
  <2>2. \A q \in Rid : MaxCum(q)' = IF q = r THEN n ELSE MaxCum(q)
    BY <1>r, <1>n, <1>0, <1>1, <2>1, MaxCumRecorded
  <2>3. MaxCum(r) \in Nat  BY <1>r, <1>n, <1>0, MaxCumType, QtyAssumption
  <2>4. DurableState(r) = "open" /\ DurableState(r)' = IF n >= Qty THEN "complete" ELSE "open"
    BY <1>r, <1>n, <1>0, <1>2, <2>1, <2>2, <2>3, DurableStates, QtyAssumption DEF IsOpen
  <2>5. \A q \in Rid : q # r => DurableState(q)' = DurableState(q)
    BY <2>1, <2>2, DurableStates DEF IsOpen
  <2>6. Durable!Fill(r, n)  BY <1>r, <1>n, <1>0, <1>1, <2>2, <2>3, <2>4, <2>5 DEF Durable!Fill
  <2> QED  BY <1>r, <1>n, <1>0, <1>1, <2>6 DEF Durable!Next
<1> QED  BY <1>r, <1>n, <1>3, StoreSameStutters DEF FillRecord

\* The row that follows a fill changes nothing that the journal did not.
LEMMA FillUpsertImplements ==
    ASSUME Serial, IInv, IInv', SInv, NEW w \in Worker, FillUpsert(w)
    PROVE  [Durable!Next]_(Durable!vars)
<1> DEFINE c == call[w]
<1>r. PICK r \in Rid : r = c.rid  BY DEF IInv, ControlOK, Call
<1>0. /\ pc[w] = "f_upsert" /\ c.cum \in Nat /\ ledger \in [Rid -> Row]
  BY QtyAssumption DEF FillUpsert, At, IInv, ControlOK, DataOK, StoreTypeOK, Call
<1>1. /\ IsOpen(r) /\ MaxCum(r) = c.cum
      /\ c.row = OpenRow(c.cum) \/ c.cum >= Qty
  BY <1>r, <1>0 DEF SInv, CallsOK, FillKnows
<1>2. CASE Upsert(r, c.row)
  <2>1. /\ \A q \in Rid : ledger'[q] = IF q = r THEN c.row ELSE ledger[q]
        /\ UNCHANGED <<progress, tomb>> /\ \A q \in Rid : MaxCum(q)' = MaxCum(q)
    BY <1>r, <1>0, <1>2, MaxCumSame DEF Upsert
  <2>2. DurableState(r)' = DurableState(r)
    BY <1>r, <1>0, <1>1, <2>1, DurableStates DEF IsOpen, OpenRow
  <2>3. \A q \in Rid : q # r => DurableState(q)' = DurableState(q)
    BY <2>1, DurableStates DEF IsOpen
  <2> QED  BY <2>1, <2>2, <2>3, DurableStutter
<1> QED  BY <1>r, <1>2, StoreSameStutters DEF FillUpsert

\* The tombstone is the abstract release.
LEMMA ReleaseRecordImplements ==
    ASSUME Serial, IInv, IInv', SInv, NEW w \in Worker, ReleaseRecord(w)
    PROVE  [Durable!Next]_(Durable!vars)
<1> DEFINE c == call[w]
<1>r. PICK r \in Rid : r = c.rid  BY DEF IInv, ControlOK, Call
<1>0. /\ pc[w] = "r_record" /\ c.release \in Terminal
      /\ tomb \in [Rid -> Terminal \union {NoTomb}]
  BY DEF ReleaseRecord, At, IInv, ControlOK, DataOK, StoreTypeOK, Call, Releasing
<1>1. mem[r].held  BY <1>r, <1>0 DEF SInv, CallsOK, ReleaseKnows
<1>2. IsOpen(r) /\ tomb[r] = NoTomb /\ MaxCum(r) < Qty
  BY <1>r, <1>0, <1>1 DEF SInv, Together, MemoryOK, Apart, ApartSteps, Serial, Backed
<1>3. CASE RecordTombstone(r, c.release)
  <2>1. /\ \A q \in Rid : tomb'[q] = IF q = r THEN c.release ELSE tomb[q]
        /\ UNCHANGED <<ledger, progress>> /\ \A q \in Rid : MaxCum(q)' = MaxCum(q)
    BY <1>r, <1>0, <1>3, MaxCumSame DEF RecordTombstone
  <2>2. c.release # NoTomb /\ MaxCum(r) \in Nat
    BY <1>r, <1>0, MaxCumType, QtyAssumption DEF Terminal, NoTomb
  <2>3. DurableState(r) = "open" /\ DurableState(r)' = "released"
    BY <1>r, <1>0, <1>2, <2>1, <2>2, DurableStates, QtyAssumption
  <2>4. \A q \in Rid : q # r => DurableState(q)' = DurableState(q)
    BY <2>1, DurableStates DEF IsOpen
  <2>5. Durable!Release(r)  BY <1>r, <1>0, <2>1, <2>3, <2>4 DEF Durable!Release
  <2> QED  BY <1>r, <1>0, <2>5 DEF Durable!Next
<1> QED  BY <1>r, <1>3, StoreSameStutters DEF ReleaseRecord

\* The row of a released reservation changes nothing more.
LEMMA ReleaseUpsertImplements ==
    ASSUME Serial, IInv, IInv', SInv, NEW w \in Worker, ReleaseUpsert(w)
    PROVE  [Durable!Next]_(Durable!vars)
<1> DEFINE c == call[w]
<1>r. PICK r \in Rid : r = c.rid  BY DEF IInv, ControlOK, Call
<1>0. /\ pc[w] = "r_upsert" /\ ledger \in [Rid -> Row]
  BY DEF ReleaseUpsert, At, IInv, ControlOK, DataOK, StoreTypeOK, Call
<1>1. tomb[r] # NoTomb  BY <1>r, <1>0 DEF SInv, CallsOK, ReleaseKnows
<1>2. CASE Upsert(r, c.row)
  <2>1. /\ \A q \in Rid : q # r => ledger'[q] = ledger[q]
        /\ UNCHANGED <<progress, tomb>> /\ \A q \in Rid : MaxCum(q)' = MaxCum(q)
    BY <1>r, <1>0, <1>2, MaxCumSame DEF Upsert
  <2>2. \A q \in Rid : DurableState(q)' = DurableState(q)
    BY <1>1, <2>1, DurableStates DEF IsOpen
  <2> QED  BY <2>1, <2>2, DurableStutter
<1> QED  BY <1>r, <1>2, StoreSameStutters DEF ReleaseUpsert

LEMMA StepImplements ==
    ASSUME Serial
    PROVE  IInv /\ IInv' /\ SInv /\ [Next]_vars => [Durable!Next]_(Durable!vars)
<1> SUFFICES ASSUME IInv, IInv', SInv, [Next]_vars PROVE [Durable!Next]_(Durable!vars)
  OBVIOUS
<1>1. CASE UNCHANGED store  BY <1>1, StoreSameStutters
<1>2. \/ UNCHANGED store
      \/ \E w \in Worker : \/ OpenUpsert(w) \/ FillRecord(w) \/ FillUpsert(w)
                           \/ ReleaseRecord(w) \/ ReleaseUpsert(w)
  <2>1. ASSUME NEW r \in Rid, VenueFill(r) \/ VenueClose(r) PROVE UNCHANGED store
    BY <2>1 DEF VenueFill, VenueClose, Environment
  <2>2. ASSUME NEW w \in Worker, NEW r \in Rid, Report(w, r) PROVE UNCHANGED store
    BY <2>2 DEF Report, Submit, ReportPartialFill, ReportTerminal, Start
  <2>3. ASSUME NEW w \in Worker,
               \/ OpenReadTombstone(w) \/ OpenReadDedupe(w) \/ OpenReadMemory(w)
               \/ OpenReserve(w) \/ OpenRollback(w)
        PROVE  UNCHANGED store
    BY <2>3 DEF OpenReadTombstone, OpenReadDedupe, OpenReadMemory, OpenReserve, OpenRollback,
                Reading, Remembering
  <2>4. ASSUME NEW w \in Worker,
               FillResolve(w) \/ FillReadMemory(w) \/ FillReadProgress(w) \/ FillApply(w)
        PROVE  UNCHANGED store
    BY <2>4 DEF FillResolve, FillReadMemory, FillReadProgress, FillApply, Reading, Remembering
  <2>5. ASSUME NEW w \in Worker,
               \/ ReleaseReadKey(w) \/ ReleaseResolve(w) \/ ReleaseReadTombstone(w)
               \/ ReleaseReadMemory(w) \/ ReleaseRemove(w)
        PROVE  UNCHANGED store
    BY <2>5 DEF ReleaseReadKey, ReleaseResolve, ReleaseReadTombstone, ReleaseReadMemory,
                ReleaseRemove, Reading, Remembering
  <2>6. Crash \/ Restart => UNCHANGED store  BY DEF Crash, Restart
  <2>7. UNCHANGED vars => UNCHANGED store  BY DEF vars
  <2> QED
    BY <2>1, <2>2, <2>3, <2>4, <2>5, <2>6, <2>7 DEF Next, OpenStep, FillStep, ReleaseStep
<1> QED
  BY <1>1, <1>2, OpenUpsertImplements, FillRecordImplements, FillUpsertImplements,
     ReleaseRecordImplements, ReleaseUpsertImplements

LEMMA InitImplements == Init => Durable!Init
<1> SUFFICES ASSUME Init PROVE Durable!Init  OBVIOUS
<1>1. \A r \in Rid : /\ MaxCum(r) = 0 /\ tomb[r] = NoTomb /\ ~IsOpen(r)
  BY MaxCumEmpty DEF Init, StoreInit, IsOpen, NoRow
<1>2. \A r \in Rid : DurableState(r) = "none"  BY <1>1, DurableStateIs, QtyAssumption
<1> QED  BY <1>1, <1>2 DEF Durable!Init

\* The ledger, the journal and the tombstones, written one after the other by
\* calls that a crash or a failing write may cut anywhere, go through the life
\* of one durable reservation: it opens once, unless another of its decision
\* is open or was released, its fills only grow, and it ends for good.
THEOREM ImplementsDurableHolds ==
    ASSUME Serial
    PROVE  Spec => ImplementsDurable
<1>1. IInv /\ IInv' /\ SInv /\ [Next]_vars => [Durable!Next]_(Durable!vars)  BY StepImplements
<1> QED
  BY <1>1, InitImplements, SerialInvariant, PTL DEF Spec, ImplementsDurable, Durable!Spec
=============================================================================
