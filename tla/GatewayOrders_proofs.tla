----------------------- MODULE GatewayOrders_proofs -----------------------
(***************************************************************************)
(* What GatewayOrders guarantees for every set of orders, every quantity   *)
(* and every failure of a read, a write, a reply or the process.           *)
(***************************************************************************)
EXTENDS GatewayOrders, TLAPS

-----------------------------------------------------------------------------
(* The strengthening.  The types are inductive only for orders that were   *)
(* posted: a status is read of no other.  And a release rests on what was  *)
(* read, which stays true because an order that ended stays ended.         *)

\* the orders the venue took
Posted == {o \in Order : venue[o].status \in {"live"} \union Ended}
\* the steps at which the reconciling thread has an order, and those at which
\* what it read of that order decides what comes next
Working == {"register", "reserve", "status", "orders", "positions", "book", "fill", "release",
            "mark", "inventory", "confirm"}
Knowing == {"orders", "positions", "book", "fill", "release"}

\* every order that a mapping or a thread refers to was posted
OrdersPosted ==
    /\ \A o \in Order : durable[o] # "none" \/ active[o] # "none" => o \in Posted
    /\ task.todo \subseteq Posted
    /\ task.at \in Working => task.order \in Posted
    /\ poll.at # "idle" => poll.order \in Posted

\* an order that was read as ended has ended, and only such an order is released
ReadsHold ==
    /\ task.at \in Knowing /\ seen.status \in Ended => venue[task.order].status \in Ended
    /\ task.at = "release" => seen.status \in Ended
    /\ poll.at = "poll" => venue[poll.order].status \in Ended

\* an order waiting for the executor is not at the venue, one that was not posted
\* has no fill, and a live one has something left to fill
VenueSound ==
    /\ \A o \in admitted : venue[o].status = "none"
    /\ \A o \in Order : /\ venue[o].status = "none" => venue[o].filled = 0
                        /\ venue[o].status = "live" => venue[o].filled < Qty

IInv == TypeOK /\ VenueSound /\ OrdersPosted /\ ReadsHold /\ ReleasedOnlyAfterEnd

-----------------------------------------------------------------------------
(* The definitions that every step needs.                                  *)

USE OrderAssumption, ModeAssumption
USE DEF Ended, At, Cur, Goto, books, router, life, Reading, Done, NoTask, NoPoll, MarkTerminal,
        WriteMapping, Reconcile, Serve, Exit, Mapped, RowActive

\* the parts of TypeOK, one for each place the state is kept in.
VenueType == venue \in [Order -> Venue]
StoreType ==
    /\ durable \in [Order -> Mapping] /\ row \in [Order -> Reservation]
    /\ tomb \in [Order -> BOOLEAN]
    /\ journal \in [Order -> 0..Qty] /\ booked \in [Order -> 0..Qty]
MemoryType ==
    /\ active \in [Order -> Mapping] /\ held \in [Order -> Holding]
    /\ gate \in BOOLEAN /\ authorized \in BOOLEAN /\ admitted \subseteq Order
TaskType == task \in [at: Steps, order: Order \union {"none"}, todo: SUBSET Order]
PollType == poll \in [at: {"idle", "cancel", "poll"}, order: Order \union {"none"}]
LifeType ==
    /\ phase \in {"down", "startup", "running", "shutdown"}
    /\ settled \in BOOLEAN /\ crashes \in 0..MaxCrashes /\ stops \in 0..MaxStops
ReadType == seen \in Reads

\* The parts make up TypeOK.
LEMMA TypeParts ==
    TypeOK <=> /\ VenueType /\ StoreType /\ MemoryType /\ TaskType /\ PollType /\ LifeType
               /\ ReadType
BY DEF TypeOK, VenueType, StoreType, MemoryType, TaskType, PollType, LifeType, ReadType

\* The parts make up TypeOK after a step, too.
LEMMA TypePartsNext ==
    TypeOK' <=> /\ VenueType' /\ StoreType' /\ MemoryType' /\ TaskType' /\ PollType' /\ LifeType'
                /\ ReadType'
BY DEF TypeOK, VenueType, StoreType, MemoryType, TaskType, PollType, LifeType, ReadType

\* Nothing read yet is a well formed read.
LEMMA EmptyReads == NoReads \in Reads
<1>1. [o \in {} |-> 0] \in [{} -> 0..Qty]  OBVIOUS
<1>2. {} \in SUBSET Order  OBVIOUS
<1> DEFINE Partial == UNION {[S -> 0..Qty] : S \in SUBSET Order}
           Total == [Order -> 0..Qty]
<1>3. [o \in {} |-> 0] \in Partial  BY <1>1, <1>2
<1>4. [o \in Order |-> 0] \in Total  OBVIOUS
<1>5. Reads = [status: {"live", "conflict"} \union Ended, filled: 0..Qty, readable: BOOLEAN,
               open: Partial, pos: Total]
  BY DEF Reads
<1>6. 0 \in 0..Qty  OBVIOUS
<1> HIDE DEF Partial, Total
<1> QED  BY <1>3, <1>4, <1>5, <1>6 DEF NoReads

\* What a read of the open orders or of the positions finds is well formed,
\* and so is what the reconciling thread keeps of it.
LEMMA ReadsType ==
    ASSUME TypeOK
    PROVE  /\ NoReads \in Reads
           /\ [seen EXCEPT !.readable = FALSE] \in Reads
           /\ [seen EXCEPT !.open = [o \in OpenAtVenue |-> venue[o].filled]] \in Reads
           /\ [seen EXCEPT !.pos = [o \in Order |-> venue[o].filled]] \in Reads
           /\ [NoReads EXCEPT !.status = "conflict"] \in Reads
           /\ \A o \in Posted : [NoReads EXCEPT !.status = venue[o].status,
                                                !.filled = venue[o].filled] \in Reads
<1> DEFINE Partial == UNION {[S -> 0..Qty] : S \in SUBSET Order}
           Total == [Order -> 0..Qty]
<1>1. [o \in OpenAtVenue |-> venue[o].filled] \in Partial
  <2>1. [o \in OpenAtVenue |-> venue[o].filled] \in [OpenAtVenue -> 0..Qty]
    BY DEF TypeOK, OpenAtVenue, Venue
  <2>2. OpenAtVenue \in SUBSET Order  BY DEF OpenAtVenue
  <2> QED  BY <2>1, <2>2
<1>2. [o \in Order |-> venue[o].filled] \in Total  BY DEF TypeOK, Venue
<1>3. seen \in Reads  BY DEF TypeOK
<1>4. \A o \in Posted : venue[o].status \in {"live"} \union Ended /\ venue[o].filled \in 0..Qty
  BY DEF TypeOK, Venue, Posted
<1>5. Reads = [status: {"live", "conflict"} \union Ended, filled: 0..Qty, readable: BOOLEAN,
               open: Partial, pos: Total]
  BY DEF Reads
<1> HIDE DEF Partial, Total
<1>6. NoReads \in Reads  BY EmptyReads
<1>7. [seen EXCEPT !.readable = FALSE] \in Reads  BY <1>3, <1>5
<1>8. [seen EXCEPT !.open = [o \in OpenAtVenue |-> venue[o].filled]] \in Reads
  BY <1>1, <1>3, <1>5
<1>9. [seen EXCEPT !.pos = [o \in Order |-> venue[o].filled]] \in Reads  BY <1>2, <1>3, <1>5
<1>10. [NoReads EXCEPT !.status = "conflict"] \in Reads  BY <1>5, <1>6
<1>11. \A o \in Posted : [NoReads EXCEPT !.status = venue[o].status,
                                         !.filled = venue[o].filled] \in Reads
  BY <1>4, <1>5, <1>6
<1> QED  BY <1>6, <1>7, <1>8, <1>9, <1>10, <1>11

\* The orders at work are orders, and what was read is a status and a quantity.
LEMMA Current ==
    ASSUME IInv
    PROVE  /\ task.at \in Working => task.order \in Order
           /\ poll.at # "idle" => poll.order \in Order
           /\ seen.status \in {"live", "conflict"} \union Ended /\ seen.filled \in 0..Qty
BY DEF IInv, TypeOK, OrdersPosted, Posted, Reads

\* What memory holds of an order that is not reserved, or was just reserved.
LEMMA HoldingType == Free \in Holding /\ \A n \in 0..Qty : [held |-> TRUE, filled |-> n] \in Holding
BY DEF Free, Holding

\* A fill at the venue: the order was posted and stays posted, an ended order stays ended.
LEMMA VenueFillKeeps ==
    ASSUME IInv, NEW o \in Order, VenueFill(o)
    PROVE  IInv'
<1> USE DEF IInv, VenueFill
<1>1. VenueType /\ StoreType /\ MemoryType /\ TaskType /\ PollType /\ LifeType /\ ReadType
  BY TypeParts
<1>2. StoreType' /\ MemoryType' /\ TaskType' /\ PollType' /\ LifeType' /\ ReadType'
  BY <1>1 DEF StoreType, MemoryType, TaskType, PollType, LifeType, ReadType
<1>3. VenueType'
  <2>1. venue[o].filled + 1 \in 0..Qty  BY <1>1 DEF VenueType, Venue, VenueSound
  <2> DEFINE v == [venue[o] EXCEPT !.filled = @ + 1,
                     !.status = IF venue[o].filled + 1 = Qty THEN "filled" ELSE "live"]
  <2>2. v \in Venue  BY <1>1, <2>1 DEF VenueType, Venue
  <2>3. venue' = [venue EXCEPT ![o] = v]  BY <1>1 DEF VenueType
  <2> QED  BY <1>1, <2>2, <2>3 DEF VenueType
<1>4. VenueSound'
  <2>1. \A p \in Order : p # o => venue'[p] = venue[p]  BY <1>1 DEF VenueType
  <2>2. /\ venue'[o].filled = venue[o].filled + 1
        /\ venue'[o].status = IF venue[o].filled + 1 = Qty THEN "filled" ELSE "live"
    BY <1>1 DEF VenueType, Venue
  <2>3. venue[o].filled \in 0..Qty /\ venue[o].filled < Qty
    BY <1>1 DEF VenueType, Venue, VenueSound
  <2>4. venue'[o].status # "none" /\ (venue'[o].status = "live" => venue'[o].filled < Qty)
    BY <2>2, <2>3
  <2> QED  BY <1>1, <2>1, <2>4 DEF VenueSound, MemoryType
<1>5. OrdersPosted'  BY <1>1 DEF OrdersPosted, Posted, Working, VenueType, Venue
<1>6. ReadsHold'
  BY <1>1 DEF ReadsHold, OrdersPosted, Posted, Knowing, Working, VenueType, Venue, TaskType,
     PollType, NoReads, Reads, ReadType, Outcome
<1>7. ReleasedOnlyAfterEnd'
  BY <1>1, Current DEF ReleasedOnlyAfterEnd, ReadsHold, OrdersPosted, Posted, Knowing, Working,
     VenueType, Venue, StoreType, Reservation, Releasable, Advances
<1> QED  BY <1>2, <1>3, <1>4, <1>5, <1>6, <1>7, TypePartsNext

\* The end of an order at the venue.
LEMMA VenueCloseKeeps ==
    ASSUME IInv, NEW o \in Order, VenueClose(o)
    PROVE  IInv'
<1> USE DEF IInv, VenueClose
<1>1. VenueType /\ StoreType /\ MemoryType /\ TaskType /\ PollType /\ LifeType /\ ReadType
  BY TypeParts
<1>2. StoreType' /\ MemoryType' /\ TaskType' /\ PollType' /\ LifeType' /\ ReadType'
  BY <1>1 DEF StoreType, MemoryType, TaskType, PollType, LifeType, ReadType
<1>3. VenueType'  BY <1>1 DEF VenueType, Venue
<1>4. VenueSound'  BY <1>1 DEF VenueSound, VenueType, Venue
<1>5. OrdersPosted'  BY <1>1 DEF OrdersPosted, Posted, Working, VenueType, Venue
<1>6. ReadsHold'  BY <1>1 DEF ReadsHold, Knowing, VenueType, Venue, OrdersPosted, Posted
<1>7. ReleasedOnlyAfterEnd'
  BY <1>1, Current DEF ReleasedOnlyAfterEnd, ReadsHold, OrdersPosted, Posted, Knowing, Working,
     VenueType, Venue, StoreType, Reservation, Releasable, Advances
<1> QED  BY <1>2, <1>3, <1>4, <1>5, <1>6, <1>7, TypePartsNext

\* An admission touches only the queue, and takes an order that was never posted.
LEMMA AdmitKeeps ==
    ASSUME IInv, NEW o \in Order, Admit(o)
    PROVE  IInv'
<1> USE DEF IInv, Admit
<1>1. VenueType /\ StoreType /\ MemoryType /\ TaskType /\ PollType /\ LifeType /\ ReadType
  BY TypeParts
<1>2. VenueType' /\ StoreType' /\ TaskType' /\ PollType' /\ LifeType' /\ ReadType'
  BY <1>1 DEF VenueType, StoreType, TaskType, PollType, LifeType, ReadType
<1>3. OrdersPosted' /\ ReadsHold' /\ ReleasedOnlyAfterEnd'
  BY DEF OrdersPosted, ReadsHold, ReleasedOnlyAfterEnd, Posted
<1>4. MemoryType'  BY <1>1 DEF MemoryType, Mapping
<1>5. VenueSound'  BY <1>1 DEF VenueSound, MemoryType
<1> QED  BY <1>2, <1>3, <1>4, <1>5, TypePartsNext

\* A submission: nothing refers to its order yet, whatever the venue answers.
LEMMA PostKeeps ==
    ASSUME IInv, NEW o \in Order, Post(o)
    PROVE  IInv'
<1> USE DEF IInv, Post
<1>1. VenueType /\ StoreType /\ MemoryType /\ TaskType /\ PollType /\ LifeType /\ ReadType
  BY TypeParts
<1>2. StoreType' /\ PollType' /\ LifeType' /\ ReadType'
  BY <1>1 DEF StoreType, PollType, LifeType, ReadType
<1>3. VenueType'  BY <1>1 DEF VenueType, Venue
<1>4. MemoryType'  BY <1>1 DEF MemoryType, Mapping
<1>5. TaskType'  BY <1>1 DEF TaskType, Steps
<1>6. venue[o].status = "none" /\ venue[o].filled = 0  BY DEF VenueSound
<1>7. \A p \in Order : p # o => venue'[p] = venue[p]  BY <1>1 DEF VenueType
<1>8. \A p \in Posted : p \in Posted' /\ venue'[p] = venue[p]  BY <1>6, <1>7 DEF Posted
<1>9. VenueSound'
  <2>1. venue'[o].status \in {"live", "refused"} /\ venue'[o].filled = 0
    BY <1>1, <1>6 DEF VenueType, Venue
  <2> QED  BY <1>1, <1>7, <2>1 DEF VenueSound, MemoryType
<1>10. OrdersPosted'
  <2>1. task' = task \/ task' = [at |-> "register", order |-> o, todo |-> {}]  OBVIOUS
  <2>2. task' # task => o \in Posted'  BY <1>1 DEF Posted, VenueType, Venue
  <2> QED  BY <1>8, <2>1, <2>2 DEF OrdersPosted, Working
<1>11. ReadsHold'
  <2>1. task'.at \notin Knowing  BY <1>1 DEF Knowing, TaskType
  <2> QED  BY <1>8, <2>1 DEF ReadsHold, OrdersPosted, Knowing
<1>12. ReleasedOnlyAfterEnd'  BY <1>6, <1>7 DEF ReleasedOnlyAfterEnd
<1> QED  BY <1>2, <1>3, <1>4, <1>5, <1>9, <1>10, <1>11, <1>12, TypePartsNext

\* The registration of an acknowledged order.
LEMMA RegisterKeeps ==
    ASSUME IInv, Register
    PROVE  IInv'
<1> USE DEF IInv, Register
<1>1. VenueType /\ StoreType /\ MemoryType /\ TaskType /\ PollType /\ LifeType /\ ReadType
  BY TypeParts
<1>2. VenueType' /\ PollType' /\ LifeType' /\ ReadType'
  BY <1>1 DEF VenueType, PollType, LifeType, ReadType
<1>3. VenueSound' /\ ReleasedOnlyAfterEnd'  BY DEF VenueSound, ReleasedOnlyAfterEnd
<1>4. StoreType'  BY <1>1 DEF StoreType, Mapping
<1>5. MemoryType'  BY <1>1 DEF MemoryType, Mapping
<1>6. TaskType'  BY <1>1 DEF TaskType, Steps
<1>7. OrdersPosted'  BY <1>1 DEF OrdersPosted, Posted, Working, StoreType, MemoryType, TaskType
<1>8. ReadsHold'  BY <1>1 DEF ReadsHold, Knowing, TaskType
<1> QED  BY <1>2, <1>3, <1>4, <1>5, <1>6, <1>7, <1>8, TypePartsNext

\* A new reservation is open, never closed.
LEMMA ReserveKeeps ==
    ASSUME IInv, Reserve
    PROVE  IInv'
<1> USE DEF IInv, Reserve
<1>1. VenueType /\ StoreType /\ MemoryType /\ TaskType /\ PollType /\ LifeType /\ ReadType
  BY TypeParts
<1>2. VenueType' /\ PollType' /\ LifeType' /\ ReadType'
  BY <1>1 DEF VenueType, PollType, LifeType, ReadType
<1>3. VenueSound'  BY DEF VenueSound, StoreType, MemoryType, TaskType
<1>4. StoreType'  BY <1>1 DEF StoreType, Reservation
<1>5. MemoryType'
  <2>1. [held |-> TRUE, filled |-> 0] \in Holding  BY HoldingType
  <2> QED  BY <1>1, <2>1 DEF MemoryType, Mapping
<1>6. TaskType'  BY <1>1 DEF TaskType, Steps
<1>7. OrdersPosted'  BY <1>1 DEF OrdersPosted, Posted, Working, StoreType, MemoryType, TaskType
<1>8. ReadsHold'  BY <1>1 DEF ReadsHold, Knowing, TaskType
<1>9. ReleasedOnlyAfterEnd'
  <2>1. \A p \in Order : row'[p].status = "closed" => row[p].status = "closed"
    BY <1>1 DEF StoreType, Reservation
  <2> QED  BY <2>1 DEF ReleasedOnlyAfterEnd
<1> QED  BY <1>2, <1>3, <1>4, <1>5, <1>6, <1>7, <1>8, <1>9, TypePartsNext

\* What the status read finds of an order that ended remains true.
LEMMA ReadStatusKeeps ==
    ASSUME IInv, ReadStatus
    PROVE  IInv'
<1> USE DEF IInv, ReadStatus
<1>1. VenueType /\ StoreType /\ MemoryType /\ TaskType /\ PollType /\ LifeType /\ ReadType
  BY TypeParts
<1>2. VenueType' /\ StoreType' /\ MemoryType' /\ PollType' /\ LifeType'
  BY <1>1 DEF VenueType, StoreType, MemoryType, PollType, LifeType
<1>3. VenueSound' /\ ReleasedOnlyAfterEnd'  BY DEF VenueSound, ReleasedOnlyAfterEnd
<1>4. TaskType'  BY <1>1 DEF TaskType, Steps
<1>5. ReadType'  BY <1>1, ReadsType DEF ReadType, OrdersPosted, Working
<1>6. OrdersPosted'  BY <1>1 DEF OrdersPosted, Posted, Working, TaskType
<1>7. ReadsHold'
  BY <1>1 DEF ReadsHold, Knowing, TaskType, ReadType, NoReads, Reads, OrdersPosted, Posted
<1> QED  BY <1>2, <1>3, <1>4, <1>5, <1>6, <1>7, TypePartsNext

\* The read of the open orders.
LEMMA ReadOrdersKeeps ==
    ASSUME IInv, ReadOrders
    PROVE  IInv'
<1> USE DEF IInv, ReadOrders
<1>1. VenueType /\ StoreType /\ MemoryType /\ TaskType /\ PollType /\ LifeType /\ ReadType
  BY TypeParts
<1>2. VenueType' /\ StoreType' /\ MemoryType' /\ PollType' /\ LifeType'
  BY <1>1 DEF VenueType, StoreType, MemoryType, PollType, LifeType
<1>3. VenueSound' /\ ReleasedOnlyAfterEnd'  BY DEF VenueSound, ReleasedOnlyAfterEnd
<1>4. TaskType'  BY <1>1 DEF TaskType, Steps
<1>5. ReadType'  BY <1>1, ReadsType DEF ReadType, OrdersPosted, Working
<1>6. OrdersPosted'  BY <1>1 DEF OrdersPosted, Posted, Working, TaskType
<1>7. ReadsHold'  BY <1>1 DEF ReadsHold, Knowing, TaskType, ReadType, NoReads, Reads
<1> QED  BY <1>2, <1>3, <1>4, <1>5, <1>6, <1>7, TypePartsNext

\* The read of the positions.
LEMMA ReadPositionsKeeps ==
    ASSUME IInv, ReadPositions
    PROVE  IInv'
<1> USE DEF IInv, ReadPositions
<1>1. VenueType /\ StoreType /\ MemoryType /\ TaskType /\ PollType /\ LifeType /\ ReadType
  BY TypeParts
<1>2. VenueType' /\ StoreType' /\ MemoryType' /\ PollType' /\ LifeType'
  BY <1>1 DEF VenueType, StoreType, MemoryType, PollType, LifeType
<1>3. VenueSound' /\ ReleasedOnlyAfterEnd'  BY DEF VenueSound, ReleasedOnlyAfterEnd
<1>4. TaskType'  BY <1>1 DEF TaskType, Steps
<1>5. ReadType'  BY <1>1, ReadsType DEF ReadType, OrdersPosted, Working
<1>6. OrdersPosted'  BY <1>1 DEF OrdersPosted, Posted, Working, TaskType
<1>7. ReadsHold'  BY <1>1 DEF ReadsHold, Knowing, TaskType, ReadType, NoReads, Reads
<1> QED  BY <1>2, <1>3, <1>4, <1>5, <1>6, <1>7, TypePartsNext

\* A read that raises ends the reconciliation of its order.
LEMMA ReadRaisesKeeps ==
    ASSUME IInv, ReadRaises
    PROVE  IInv'
<1> USE DEF IInv, ReadRaises
<1>1. VenueType /\ StoreType /\ MemoryType /\ TaskType /\ PollType /\ LifeType /\ ReadType
  BY TypeParts
<1>2. VenueType' /\ PollType' /\ LifeType'  BY <1>1 DEF VenueType, PollType, LifeType
<1>3. VenueSound' /\ ReleasedOnlyAfterEnd'  BY DEF VenueSound, ReleasedOnlyAfterEnd
<1>4. StoreType'  BY <1>1 DEF StoreType, Mapping, Reservation
<1>5. MemoryType'  BY <1>1 DEF MemoryType, Mapping
<1>6. TaskType'  BY <1>1 DEF TaskType, Steps
<1>7. ReadType'  BY <1>1, ReadsType DEF ReadType, OrdersPosted, Working
<1>8. OrdersPosted'  BY <1>1 DEF OrdersPosted, Posted, Working, StoreType, MemoryType, TaskType
<1>9. ReadsHold'  BY <1>1 DEF ReadsHold, Knowing, TaskType, ReadType, NoReads, Reads
<1> QED  BY <1>2, <1>3, <1>4, <1>5, <1>6, <1>7, <1>8, <1>9, TypePartsNext

\* A read that fails otherwise does too.
LEMMA ReadFailsKeeps ==
    ASSUME IInv, ReadFails
    PROVE  IInv'
<1> USE DEF IInv, ReadFails
<1>1. VenueType /\ StoreType /\ MemoryType /\ TaskType /\ PollType /\ LifeType /\ ReadType
  BY TypeParts
<1>2. VenueType' /\ StoreType' /\ PollType' /\ LifeType'
  BY <1>1 DEF VenueType, StoreType, PollType, LifeType
<1>3. VenueSound' /\ ReleasedOnlyAfterEnd'  BY DEF VenueSound, ReleasedOnlyAfterEnd
<1>4. MemoryType'  BY <1>1 DEF MemoryType, Mapping
<1>5. TaskType'  BY <1>1 DEF TaskType, Steps
<1>6. ReadType'  BY <1>1, ReadsType DEF ReadType, OrdersPosted, Working
<1>7. OrdersPosted'  BY <1>1 DEF OrdersPosted, Posted, Working, MemoryType, TaskType
<1>8. ReadsHold'  BY <1>1 DEF ReadsHold, Knowing, TaskType, ReadType, NoReads, Reads
<1> QED  BY <1>2, <1>3, <1>4, <1>5, <1>6, <1>7, <1>8, TypePartsNext

\* The release step is reached only by an order read as ended.
LEMMA BookFillKeeps ==
    ASSUME IInv, BookFill
    PROVE  IInv'
<1> USE DEF IInv, BookFill
<1>1. VenueType /\ StoreType /\ MemoryType /\ TaskType /\ PollType /\ LifeType /\ ReadType
  BY TypeParts
<1>2. VenueType' /\ MemoryType' /\ PollType' /\ LifeType' /\ ReadType'
  BY <1>1 DEF VenueType, MemoryType, PollType, LifeType, ReadType
<1>3. VenueSound' /\ ReleasedOnlyAfterEnd'  BY DEF VenueSound, ReleasedOnlyAfterEnd
<1>4. StoreType'  BY <1>1, Current DEF StoreType, Booked, Working
<1>5. TaskType'  BY <1>1 DEF TaskType, Steps
<1>6. OrdersPosted'  BY <1>1 DEF OrdersPosted, Posted, Working, StoreType, TaskType
<1>7. ReadsHold'  BY <1>1 DEF ReadsHold, Knowing, TaskType
<1> QED  BY <1>2, <1>3, <1>4, <1>5, <1>6, <1>7, TypePartsNext

\* A recorded fill changes no status of a reservation.
LEMMA ApplyFillKeeps ==
    ASSUME IInv, ApplyFill
    PROVE  IInv'
<1> USE DEF IInv, ApplyFill
<1>1. VenueType /\ StoreType /\ MemoryType /\ TaskType /\ PollType /\ LifeType /\ ReadType
  BY TypeParts
<1>2. VenueType' /\ PollType' /\ LifeType' /\ ReadType'
  BY <1>1 DEF VenueType, PollType, LifeType, ReadType
<1>3. VenueSound'  BY DEF VenueSound, StoreType, MemoryType, TaskType
<1>4. StoreType'  BY <1>1, Current DEF StoreType, Mapping, Reservation, Working
<1>5. MemoryType'  BY <1>1, Current DEF MemoryType, Mapping, Holding, Working
<1>6. TaskType'  BY <1>1 DEF TaskType, Steps
<1>7. OrdersPosted'  BY <1>1 DEF OrdersPosted, Posted, Working, StoreType, MemoryType, TaskType
<1>8. ReadsHold'  BY <1>1 DEF ReadsHold, Knowing, TaskType
<1>9. ReleasedOnlyAfterEnd'
  <2>1. \A o \in Order : row'[o].status = row[o].status  BY <1>1 DEF StoreType, Reservation
  <2> QED  BY <2>1 DEF ReleasedOnlyAfterEnd
<1> QED  BY <1>2, <1>3, <1>4, <1>5, <1>6, <1>7, <1>8, <1>9, TypePartsNext

\* The only step that releases: its order was read as ended, so it has ended.
LEMMA ApplyReleaseKeeps ==
    ASSUME IInv, ApplyRelease
    PROVE  IInv'
<1> USE DEF IInv, ApplyRelease
<1>1. VenueType /\ StoreType /\ MemoryType /\ TaskType /\ PollType /\ LifeType /\ ReadType
  BY TypeParts
<1>2. VenueType' /\ PollType' /\ LifeType' /\ ReadType'
  BY <1>1 DEF VenueType, PollType, LifeType, ReadType
<1>3. VenueSound'  BY DEF VenueSound, StoreType, MemoryType, TaskType
<1>4. StoreType'
  <2>1. row' \in [Order -> Reservation]  BY <1>1 DEF StoreType, Reservation
  <2>2. tomb' \in [Order -> BOOLEAN]  BY <1>1 DEF StoreType
  <2> QED  BY <1>1, <2>1, <2>2 DEF StoreType
<1>5. MemoryType'
  <2>1. held' \in [Order -> Holding]  BY <1>1, HoldingType DEF MemoryType
  <2> QED  BY <1>1, <2>1 DEF MemoryType
<1>6. TaskType'  BY <1>1 DEF TaskType, Steps
<1>7. OrdersPosted'  BY <1>1 DEF OrdersPosted, Posted, Working, StoreType, MemoryType, TaskType
<1>8. ReadsHold'  BY <1>1 DEF ReadsHold, Knowing, TaskType
<1>9. ReleasedOnlyAfterEnd'
  BY <1>1, Current DEF ReleasedOnlyAfterEnd, ReadsHold, OrdersPosted, Posted, Knowing, Working,
     VenueType, Venue, StoreType, Reservation, Releasable, Advances
<1> QED  BY <1>2, <1>3, <1>4, <1>5, <1>6, <1>7, <1>8, <1>9, TypePartsNext

\* The terminal mark of the mapping.
LEMMA MarkEndedKeeps ==
    ASSUME IInv, MarkEnded
    PROVE  IInv'
<1> USE DEF IInv, MarkEnded
<1>1. VenueType /\ StoreType /\ MemoryType /\ TaskType /\ PollType /\ LifeType /\ ReadType
  BY TypeParts
<1>2. VenueType' /\ PollType' /\ LifeType' /\ ReadType'
  BY <1>1 DEF VenueType, PollType, LifeType, ReadType
<1>3. VenueSound' /\ ReleasedOnlyAfterEnd'  BY DEF VenueSound, ReleasedOnlyAfterEnd
<1>4. StoreType'  BY <1>1, Current DEF StoreType, Mapping, Working
<1>5. MemoryType'  BY <1>1, Current DEF MemoryType, Mapping, Working
<1>6. TaskType'  BY <1>1 DEF TaskType, Steps
<1>7. OrdersPosted'  BY <1>1 DEF OrdersPosted, Posted, Working, StoreType, MemoryType, TaskType
<1>8. ReadsHold'  BY <1>1 DEF ReadsHold, Knowing, TaskType
<1> QED  BY <1>2, <1>3, <1>4, <1>5, <1>6, <1>7, <1>8, TypePartsNext

\* The reconciliation of the inventory decides the gate only.
LEMMA ReconcileInventoryKeeps ==
    ASSUME IInv, ReconcileInventory
    PROVE  IInv'
<1> USE DEF IInv, ReconcileInventory
<1>1. VenueType /\ StoreType /\ MemoryType /\ TaskType /\ PollType /\ LifeType /\ ReadType
  BY TypeParts
<1>2. VenueType' /\ StoreType' /\ PollType' /\ LifeType' /\ ReadType'
  BY <1>1 DEF VenueType, StoreType, PollType, LifeType, ReadType
<1>3. VenueSound' /\ ReleasedOnlyAfterEnd'  BY DEF VenueSound, ReleasedOnlyAfterEnd
<1>4. MemoryType'  BY <1>1 DEF MemoryType, Mapping
<1>5. TaskType'  BY <1>1 DEF TaskType, Steps
<1>6. OrdersPosted'  BY <1>1 DEF OrdersPosted, Posted, Working, MemoryType, TaskType
<1>7. ReadsHold'  BY <1>1 DEF ReadsHold, Knowing, TaskType
<1> QED  BY <1>2, <1>3, <1>4, <1>5, <1>6, <1>7, TypePartsNext

\* The end of the reconciliation of an order.
LEMMA ConfirmKeeps ==
    ASSUME IInv, Confirm
    PROVE  IInv'
<1> USE DEF IInv, Confirm
<1>1. VenueType /\ StoreType /\ MemoryType /\ TaskType /\ PollType /\ LifeType /\ ReadType
  BY TypeParts
<1>2. VenueType' /\ PollType' /\ LifeType'  BY <1>1 DEF VenueType, PollType, LifeType
<1>3. VenueSound' /\ ReleasedOnlyAfterEnd'  BY DEF VenueSound, ReleasedOnlyAfterEnd
<1>4. StoreType'
  <2>1. task.order \in Order  BY Current DEF Working
  <2>2. active[Cur] \in Mapping  BY <1>1, <2>1 DEF MemoryType
  <2>3. seen.status # "live" => seen.status \in Mapping  BY Current DEF Mapping
  <2>4. \A how \in Mapping : WriteMapping(Cur, how) => durable' \in [Order -> Mapping]
    BY <1>1 DEF StoreType
  <2>5. durable' \in [Order -> Mapping]  BY <1>1, <2>2, <2>3, <2>4 DEF StoreType
  <2> QED  BY <1>1, <2>5 DEF StoreType
<1>5. MemoryType'  BY <1>1, Current DEF MemoryType, Mapping, StoreType, Working
<1>6. TaskType'  BY <1>1 DEF TaskType, Steps
<1>7. ReadType'  BY <1>1, ReadsType DEF ReadType, OrdersPosted, Working
<1>8. OrdersPosted'  BY <1>1 DEF OrdersPosted, Posted, Working, StoreType, MemoryType, TaskType
<1>9. ReadsHold'  BY <1>1 DEF ReadsHold, Knowing, TaskType, ReadType, NoReads, Reads
<1> QED  BY <1>2, <1>3, <1>4, <1>5, <1>6, <1>7, <1>8, <1>9, TypePartsNext

\* A cancel is sent for a mapped order.
LEMMA SendCancelKeeps ==
    ASSUME IInv, NEW o \in Order, SendCancel(o)
    PROVE  IInv'
<1> USE DEF IInv, SendCancel
<1>1. VenueType /\ StoreType /\ MemoryType /\ TaskType /\ PollType /\ LifeType /\ ReadType
  BY TypeParts
<1>2. VenueType' /\ StoreType' /\ MemoryType' /\ TaskType' /\ LifeType' /\ ReadType'
  BY <1>1 DEF VenueType, StoreType, MemoryType, TaskType, LifeType, ReadType
<1>3. VenueSound' /\ ReleasedOnlyAfterEnd'  BY DEF VenueSound, ReleasedOnlyAfterEnd
<1>4. PollType'  BY <1>1 DEF PollType
<1>5. OrdersPosted'  BY <1>1 DEF OrdersPosted, Posted, Working, PollType
<1>6. ReadsHold'  BY <1>1 DEF ReadsHold, Knowing, PollType, Outcome
<1> QED  BY <1>2, <1>3, <1>4, <1>5, <1>6, TypePartsNext

\* A poll found its order ended, which remains true.
LEMMA PollStatusKeeps ==
    ASSUME IInv, NEW o \in Order, PollStatus(o)
    PROVE  IInv'
<1> USE DEF IInv, PollStatus
<1>1. VenueType /\ StoreType /\ MemoryType /\ TaskType /\ PollType /\ LifeType /\ ReadType
  BY TypeParts
<1>2. VenueType' /\ StoreType' /\ MemoryType' /\ TaskType' /\ LifeType' /\ ReadType'
  BY <1>1 DEF VenueType, StoreType, MemoryType, TaskType, LifeType, ReadType
<1>3. VenueSound' /\ ReleasedOnlyAfterEnd'  BY DEF VenueSound, ReleasedOnlyAfterEnd
<1>4. PollType'  BY <1>1 DEF PollType
<1>5. OrdersPosted'  BY <1>1 DEF OrdersPosted, Posted, Working, PollType
<1>6. ReadsHold'  BY <1>1 DEF ReadsHold, Knowing, PollType, Outcome
<1> QED  BY <1>2, <1>3, <1>4, <1>5, <1>6, TypePartsNext

\* The terminal mark after a cancel or a poll.
LEMMA MarkPolledKeeps ==
    ASSUME IInv, MarkPolled
    PROVE  IInv'
<1> USE DEF IInv, MarkPolled
<1>1. VenueType /\ StoreType /\ MemoryType /\ TaskType /\ PollType /\ LifeType /\ ReadType
  BY TypeParts
<1>2. VenueType' /\ TaskType' /\ LifeType' /\ ReadType'
  BY <1>1 DEF VenueType, TaskType, LifeType, ReadType
<1>3. VenueSound' /\ ReleasedOnlyAfterEnd'  BY DEF VenueSound, ReleasedOnlyAfterEnd
<1>4. StoreType'
  <2>1. poll.order \in Order /\ Outcome \in Mapping
    BY <1>1, Current DEF Outcome, Mapping, PollType, ReadsHold
  <2>2. durable' \in [Order -> Mapping]  BY <1>1, <2>1 DEF StoreType
  <2> QED  BY <1>1, <2>2 DEF StoreType
<1>5. MemoryType'
  <2>1. poll.order \in Order /\ Outcome \in Mapping
    BY <1>1, Current DEF Outcome, Mapping, PollType, ReadsHold
  <2> QED  BY <1>1, <2>1 DEF MemoryType
<1>6. PollType'  BY <1>1 DEF PollType
<1>7. OrdersPosted'  BY <1>1 DEF OrdersPosted, Posted, Working, StoreType, MemoryType, PollType
<1>8. ReadsHold'  BY <1>1 DEF ReadsHold, Knowing, PollType, Outcome
<1> QED  BY <1>2, <1>3, <1>4, <1>5, <1>6, <1>7, <1>8, TypePartsNext

\* The hydration reads what was durable, and that was posted.
LEMMA StartKeeps ==
    ASSUME IInv, Start
    PROVE  IInv'
<1> USE DEF IInv, Start
<1>1. VenueType /\ StoreType /\ MemoryType /\ TaskType /\ PollType /\ LifeType /\ ReadType
  BY TypeParts
<1>2. VenueType' /\ StoreType' /\ PollType' /\ ReadType'
  BY <1>1 DEF VenueType, StoreType, PollType, ReadType
<1>3. VenueSound' /\ ReleasedOnlyAfterEnd'  BY DEF VenueSound, ReleasedOnlyAfterEnd
<1>4. MemoryType'
  <2>1. \A o \in Order : (IF Recoverable(o) THEN [held |-> TRUE, filled |-> journal[o]] ELSE Free)
                          \in Holding
    BY <1>1, HoldingType DEF StoreType
  <2>2. held' \in [Order -> Holding]  BY <1>1, <2>1 DEF MemoryType
  <2>3. active' \in [Order -> Mapping]  BY <1>1 DEF MemoryType, Mapping
  <2>4. authorized' \in BOOLEAN  OBVIOUS
  <2> QED  BY <1>1, <2>2, <2>3, <2>4 DEF MemoryType
<1>5. TaskType'
  <2>1. \/ task' = [at |-> "next", order |-> "none", todo |-> Mapped(durable)]
        \/ task' = [at |-> "next", order |-> "none", todo |-> {}]
    OBVIOUS
  <2> QED  BY <2>1 DEF TaskType, Steps
<1>6. LifeType'  BY <1>1 DEF LifeType
<1>7. OrdersPosted'
  <2>1. \/ task' = [at |-> "next", order |-> "none", todo |-> Mapped(durable)]
        \/ task' = [at |-> "next", order |-> "none", todo |-> {}]
    OBVIOUS
  <2>2. Mapped(durable) \subseteq Posted  BY DEF OrdersPosted
  <2>3. \A o \in Order : active'[o] # "none" => active[o] # "none" \/ durable[o] = "active"
    OBVIOUS
  <2> QED  BY <2>1, <2>2, <2>3 DEF OrdersPosted, Working, Posted
<1>8. ReadsHold'  BY <1>1 DEF ReadsHold, Knowing, TaskType
<1> QED  BY <1>2, <1>3, <1>4, <1>5, <1>6, <1>7, <1>8, TypePartsNext

\* The next mapping of a startup or of a shutdown is taken.
LEMMA NextMappingKeeps ==
    ASSUME IInv, NextMapping
    PROVE  IInv'
<1> USE DEF IInv, NextMapping
<1>1. VenueType /\ StoreType /\ MemoryType /\ TaskType /\ PollType /\ LifeType /\ ReadType
  BY TypeParts
<1>2. VenueType' /\ StoreType' /\ MemoryType' /\ PollType' /\ LifeType' /\ ReadType'
  BY <1>1 DEF VenueType, StoreType, MemoryType, PollType, LifeType, ReadType
<1>3. VenueSound' /\ ReleasedOnlyAfterEnd'  BY DEF VenueSound, ReleasedOnlyAfterEnd
<1>4. TaskType'  BY <1>1 DEF TaskType, Steps
<1>5. OrdersPosted'  BY <1>1 DEF OrdersPosted, Posted, Working, TaskType
<1>6. ReadsHold'  BY <1>1 DEF ReadsHold, Knowing, TaskType
<1> QED  BY <1>2, <1>3, <1>4, <1>5, <1>6, TypePartsNext

\* The positions are read at startup.
LEMMA StartupPositionsKeeps ==
    ASSUME IInv, StartupPositions
    PROVE  IInv'
<1> USE DEF IInv, StartupPositions
<1>1. VenueType /\ StoreType /\ MemoryType /\ TaskType /\ PollType /\ LifeType /\ ReadType
  BY TypeParts
<1>2. VenueType' /\ StoreType' /\ PollType'  BY <1>1 DEF VenueType, StoreType, PollType
<1>3. VenueSound' /\ ReleasedOnlyAfterEnd'  BY DEF VenueSound, ReleasedOnlyAfterEnd
<1>4. MemoryType'  BY <1>1 DEF MemoryType, Mapping
<1>5. TaskType'  BY <1>1 DEF TaskType, Steps
<1>6. LifeType'  BY <1>1 DEF LifeType
<1>7. ReadType'  BY <1>1, ReadsType DEF ReadType, OrdersPosted, Working
<1>8. OrdersPosted'  BY <1>1 DEF OrdersPosted, Posted, Working, MemoryType, TaskType
<1>9. ReadsHold'  BY <1>1 DEF ReadsHold, Knowing, TaskType, ReadType, NoReads, Reads
<1> QED  BY <1>2, <1>3, <1>4, <1>5, <1>6, <1>7, <1>8, <1>9, TypePartsNext

\* The open orders are read at startup.
LEMMA StartupOrdersKeeps ==
    ASSUME IInv, StartupOrders
    PROVE  IInv'
<1> USE DEF IInv, StartupOrders
<1>1. VenueType /\ StoreType /\ MemoryType /\ TaskType /\ PollType /\ LifeType /\ ReadType
  BY TypeParts
<1>2. VenueType' /\ StoreType' /\ PollType'  BY <1>1 DEF VenueType, StoreType, PollType
<1>3. VenueSound' /\ ReleasedOnlyAfterEnd'  BY DEF VenueSound, ReleasedOnlyAfterEnd
<1>4. MemoryType'  BY <1>1 DEF MemoryType, Mapping
<1>5. TaskType'  BY <1>1 DEF TaskType, Steps
<1>6. LifeType'  BY <1>1 DEF LifeType
<1>7. ReadType'  BY <1>1, ReadsType DEF ReadType, OrdersPosted, Working
<1>8. OrdersPosted'  BY <1>1 DEF OrdersPosted, Posted, Working, MemoryType, TaskType
<1>9. ReadsHold'  BY <1>1 DEF ReadsHold, Knowing, TaskType, ReadType, NoReads, Reads
<1> QED  BY <1>2, <1>3, <1>4, <1>5, <1>6, <1>7, <1>8, <1>9, TypePartsNext

\* The startup inventory is reconciled and the process serves.
LEMMA StartupInventoryKeeps ==
    ASSUME IInv, StartupInventory
    PROVE  IInv'
<1> USE DEF IInv, StartupInventory
<1>1. VenueType /\ StoreType /\ MemoryType /\ TaskType /\ PollType /\ LifeType /\ ReadType
  BY TypeParts
<1>2. VenueType' /\ StoreType' /\ PollType'  BY <1>1 DEF VenueType, StoreType, PollType
<1>3. VenueSound' /\ ReleasedOnlyAfterEnd'  BY DEF VenueSound, ReleasedOnlyAfterEnd
<1>4. MemoryType'  BY <1>1 DEF MemoryType, Mapping
<1>5. TaskType'  BY <1>1 DEF TaskType, Steps
<1>6. LifeType'  BY <1>1 DEF LifeType
<1>7. ReadType'  BY <1>1, ReadsType DEF ReadType, OrdersPosted, Working
<1>8. OrdersPosted'  BY <1>1 DEF OrdersPosted, Posted, Working, MemoryType, TaskType
<1>9. ReadsHold'  BY <1>1 DEF ReadsHold, Knowing, TaskType, ReadType, NoReads, Reads
<1> QED  BY <1>2, <1>3, <1>4, <1>5, <1>6, <1>7, <1>8, <1>9, TypePartsNext

\* An orderly shutdown begins.
LEMMA ShutdownKeeps ==
    ASSUME IInv, Shutdown
    PROVE  IInv'
<1> USE DEF IInv, Shutdown
<1>1. VenueType /\ StoreType /\ MemoryType /\ TaskType /\ PollType /\ LifeType /\ ReadType
  BY TypeParts
<1>2. VenueType' /\ StoreType' /\ PollType' /\ ReadType'
  BY <1>1 DEF VenueType, StoreType, PollType, ReadType
<1>3. ReleasedOnlyAfterEnd'  BY DEF ReleasedOnlyAfterEnd
<1>4. MemoryType'  BY <1>1 DEF MemoryType, Mapping
<1>5. TaskType'  BY <1>1 DEF TaskType, Steps, MemoryType
<1>6. LifeType'  BY <1>1 DEF LifeType
<1>7. VenueSound'  BY <1>1 DEF VenueSound, MemoryType, TaskType
<1>8. OrdersPosted'  BY <1>1 DEF OrdersPosted, Posted, Working, MemoryType, TaskType
<1>9. ReadsHold'  BY <1>1 DEF ReadsHold, Knowing, TaskType
<1> QED  BY <1>2, <1>3, <1>4, <1>5, <1>6, <1>7, <1>8, <1>9, TypePartsNext

\* The open orders are read at shutdown.
LEMMA FinalOrdersKeeps ==
    ASSUME IInv, FinalOrders
    PROVE  IInv'
<1> USE DEF IInv, FinalOrders
<1>1. VenueType /\ StoreType /\ MemoryType /\ TaskType /\ PollType /\ LifeType /\ ReadType
  BY TypeParts
<1>2. VenueType' /\ StoreType'  BY <1>1 DEF VenueType, StoreType
<1>3. ReleasedOnlyAfterEnd'  BY DEF ReleasedOnlyAfterEnd
<1>4. MemoryType'
  <2>1. CASE Exit  BY <1>1, <2>1, HoldingType DEF MemoryType, Mapping
  <2>2. CASE UNCHANGED router  BY <1>1, <2>2 DEF MemoryType
  <2> QED  BY <2>1, <2>2
<1>5. TaskType'  BY <1>1 DEF TaskType, Steps
<1>6. PollType'  BY <1>1 DEF PollType
<1>7. LifeType'  BY <1>1 DEF LifeType
<1>8. ReadType'  BY <1>1, ReadsType DEF ReadType, OrdersPosted, Working
<1>9. VenueSound'  BY <1>1 DEF VenueSound, MemoryType, TaskType, PollType
<1>10. OrdersPosted'  BY <1>1 DEF OrdersPosted, Posted, Working, MemoryType, TaskType, PollType
<1>11. ReadsHold'
  <2>1. task'.at \notin Knowing  BY <1>1 DEF TaskType, Knowing
  <2>2. poll' = poll \/ poll' = NoPoll  OBVIOUS
  <2> QED  BY <2>1, <2>2 DEF ReadsHold, Knowing
<1> QED  BY <1>2, <1>3, <1>4, <1>5, <1>6, <1>7, <1>8, <1>9, <1>10, <1>11, TypePartsNext

\* The fills of ended mappings are booked at shutdown.
LEMMA FinalBookKeeps ==
    ASSUME IInv, FinalBook
    PROVE  IInv'
<1> USE DEF IInv, FinalBook
<1>1. VenueType /\ StoreType /\ MemoryType /\ TaskType /\ PollType /\ LifeType /\ ReadType
  BY TypeParts
<1>2. VenueType' /\ MemoryType' /\ PollType' /\ LifeType' /\ ReadType'
  BY <1>1 DEF VenueType, MemoryType, PollType, LifeType, ReadType
<1>3. VenueSound' /\ ReleasedOnlyAfterEnd'  BY DEF VenueSound, ReleasedOnlyAfterEnd
<1>4. StoreType'  BY <1>1 DEF StoreType, VenueType, Venue
<1>5. TaskType'  BY <1>1 DEF TaskType, Steps, StoreType
<1>6. OrdersPosted'  BY <1>1 DEF OrdersPosted, Posted, Working, StoreType, TaskType
<1>7. ReadsHold'  BY <1>1 DEF ReadsHold, Knowing, TaskType
<1> QED  BY <1>2, <1>3, <1>4, <1>5, <1>6, <1>7, TypePartsNext

\* A mapping is resolved at shutdown: it was posted.
LEMMA FinalResolveKeeps ==
    ASSUME IInv, FinalResolve
    PROVE  IInv'
<1> USE DEF IInv, FinalResolve
<1>1. VenueType /\ StoreType /\ MemoryType /\ TaskType /\ PollType /\ LifeType /\ ReadType
  BY TypeParts
<1>2. VenueType' /\ PollType' /\ LifeType' /\ ReadType'
  BY <1>1 DEF VenueType, PollType, LifeType, ReadType
<1>3. VenueSound' /\ ReleasedOnlyAfterEnd'  BY DEF VenueSound, ReleasedOnlyAfterEnd
<1>4. StoreType'
  <2> PICK o \in task.todo :
        \/ UNCHANGED <<durable, active, booked>>
        \/ /\ MarkTerminal(o, IF venue[o].status \in Ended THEN venue[o].status ELSE "conflict")
           /\ booked' = [booked EXCEPT ![o] = Booked(o, venue[o].filled)] \/ UNCHANGED booked
        \/ MarkTerminal(o, "conflict") /\ UNCHANGED booked
    OBVIOUS
  <2>1. o \in Order  BY <1>1 DEF TaskType
  <2>2. Booked(o, venue[o].filled) \in 0..Qty
    BY <1>1, <2>1 DEF Booked, StoreType, VenueType, Venue
  <2>3. booked' \in [Order -> 0..Qty]  BY <1>1, <2>2 DEF StoreType
  <2>4. durable' \in [Order -> Mapping]  BY <1>1 DEF StoreType, Mapping
  <2> QED  BY <1>1, <2>3, <2>4 DEF StoreType
<1>5. MemoryType'  BY <1>1 DEF MemoryType, Mapping
<1>6. TaskType'  BY <1>1 DEF TaskType, Steps
<1>7. OrdersPosted'  BY <1>1 DEF OrdersPosted, Posted, Working, StoreType, MemoryType, TaskType
<1>8. ReadsHold'  BY <1>1 DEF ReadsHold, Knowing, TaskType
<1> QED  BY <1>2, <1>3, <1>4, <1>5, <1>6, <1>7, <1>8, TypePartsNext

\* The process ends.
LEMMA StopKeeps ==
    ASSUME IInv, Stop
    PROVE  IInv'
<1> USE DEF IInv, Stop
<1>1. VenueType /\ StoreType /\ MemoryType /\ TaskType /\ PollType /\ LifeType /\ ReadType
  BY TypeParts
<1>2. VenueType' /\ StoreType'  BY <1>1 DEF VenueType, StoreType
<1>3. ReleasedOnlyAfterEnd'  BY DEF ReleasedOnlyAfterEnd
<1>4. MemoryType'  BY <1>1, HoldingType DEF MemoryType, Mapping
<1>5. TaskType'  BY <1>1 DEF TaskType, Steps
<1>6. PollType'  BY <1>1 DEF PollType
<1>7. LifeType'  BY <1>1 DEF LifeType
<1>8. ReadType'  BY <1>1, ReadsType DEF ReadType, OrdersPosted, Working
<1>9. VenueSound'  BY <1>1 DEF VenueSound, MemoryType, TaskType, PollType
<1>10. OrdersPosted'  BY <1>1 DEF OrdersPosted, Posted, Working, MemoryType, TaskType, PollType
<1>11. ReadsHold'
  BY <1>1 DEF ReadsHold, Knowing, TaskType, PollType, ReadType, NoReads, Reads, Outcome
<1> QED  BY <1>2, <1>3, <1>4, <1>5, <1>6, <1>7, <1>8, <1>9, <1>10, <1>11, TypePartsNext

\* The process crashes.
LEMMA CrashKeeps ==
    ASSUME IInv, Crash
    PROVE  IInv'
<1> USE DEF IInv, Crash
<1>1. VenueType /\ StoreType /\ MemoryType /\ TaskType /\ PollType /\ LifeType /\ ReadType
  BY TypeParts
<1>2. VenueType' /\ StoreType'  BY <1>1 DEF VenueType, StoreType
<1>3. ReleasedOnlyAfterEnd'  BY DEF ReleasedOnlyAfterEnd
<1>4. MemoryType'  BY <1>1, HoldingType DEF MemoryType, Mapping
<1>5. TaskType'  BY <1>1 DEF TaskType, Steps
<1>6. PollType'  BY <1>1 DEF PollType
<1>7. LifeType'  BY <1>1 DEF LifeType
<1>8. ReadType'  BY <1>1, ReadsType DEF ReadType, OrdersPosted, Working
<1>9. VenueSound'  BY <1>1 DEF VenueSound, MemoryType, TaskType, PollType
<1>10. OrdersPosted'  BY <1>1 DEF OrdersPosted, Posted, Working, MemoryType, TaskType, PollType
<1>11. ReadsHold'
  BY <1>1 DEF ReadsHold, Knowing, TaskType, PollType, ReadType, NoReads, Reads, Outcome
<1> QED  BY <1>2, <1>3, <1>4, <1>5, <1>6, <1>7, <1>8, <1>9, <1>10, <1>11, TypePartsNext

-----------------------------------------------------------------------------
\* The invariant holds when the process is about to start for the first time.
LEMMA InitKeeps == Init => IInv
<1> SUFFICES ASSUME Init  PROVE  IInv  OBVIOUS
<1> USE DEF Init
<1>1. VenueType  BY DEF VenueType, Venue
<1>2. StoreType  BY DEF StoreType, Mapping, Reservation
<1>3. MemoryType  BY HoldingType DEF MemoryType, Mapping
<1>4. TaskType  BY DEF TaskType, Steps
<1>5. PollType /\ LifeType
  <2>1. MaxCrashes \in Nat /\ MaxStops \in Nat  BY ModeAssumption
  <2>2. crashes \in 0..MaxCrashes /\ stops \in 0..MaxStops  BY <2>1
  <2>3. PollType  BY DEF PollType
  <2> QED  BY <2>2, <2>3 DEF LifeType
<1>6. ReadType  BY EmptyReads DEF ReadType
<1>7. VenueSound  BY DEF VenueSound
<1>8. OrdersPosted  BY DEF OrdersPosted, Working
<1>9. ReadsHold  BY DEF ReadsHold, Knowing
<1>10. ReleasedOnlyAfterEnd  BY DEF ReleasedOnlyAfterEnd
<1> QED  BY <1>1, <1>2, <1>3, <1>4, <1>5, <1>6, <1>7, <1>8, <1>9, <1>10, TypeParts DEF IInv

\* Every step of every thread, of the venue and of the process keeps it.
LEMMA NextKeeps == IInv /\ [Next]_vars => IInv'
<1> SUFFICES ASSUME IInv, [Next]_vars  PROVE  IInv'  OBVIOUS
<1>1. CASE \E o \in Order : VenueFill(o) \/ VenueClose(o) \/ Admit(o)
  BY <1>1, VenueFillKeeps, VenueCloseKeeps, AdmitKeeps
<1>2. CASE \E o \in Order : Post(o) \/ SendCancel(o) \/ PollStatus(o)
  BY <1>2, PostKeeps, SendCancelKeeps, PollStatusKeeps
<1>3. CASE MarkPolled  BY <1>3, MarkPolledKeeps
<1>4. CASE Submission
  BY <1>4, RegisterKeeps, ReserveKeeps, ReadStatusKeeps, ReadOrdersKeeps, ReadPositionsKeeps,
     ReadRaisesKeeps, ReadFailsKeeps, BookFillKeeps, ApplyFillKeeps, ApplyReleaseKeeps,
     MarkEndedKeeps, ReconcileInventoryKeeps, ConfirmKeeps DEF Submission
<1>5. CASE Boundary
  BY <1>5, StartKeeps, NextMappingKeeps, StartupPositionsKeeps, StartupOrdersKeeps,
     StartupInventoryKeeps, ShutdownKeeps, FinalOrdersKeeps, FinalBookKeeps, FinalResolveKeeps,
     StopKeeps, CrashKeeps DEF Boundary
<1>6. CASE UNCHANGED vars
  <2> USE <1>6 DEF IInv, vars
  <2>1. TypeOK'
    BY TypeParts, TypePartsNext DEF VenueType, StoreType, MemoryType, TaskType, PollType,
       LifeType, ReadType
  <2>2. VenueSound' /\ OrdersPosted' /\ ReadsHold' /\ ReleasedOnlyAfterEnd'
    BY DEF VenueSound, OrdersPosted, Posted, ReadsHold, ReleasedOnlyAfterEnd
  <2> QED  BY <2>1, <2>2
<1> QED  BY <1>1, <1>2, <1>3, <1>4, <1>5, <1>6 DEF Next

\* Every state of every run is well typed: no fill of the venue, of the journal, of
\* the store or of the inventory exceeds its order, whatever fails and in whatever
\* order submissions, cancels, polls, restarts and fills meet.
THEOREM TypeCorrect == Spec => []TypeOK
<1>1. IInv => TypeOK  BY DEF IInv
<1> QED  BY InitKeeps, NextKeeps, <1>1, PTL DEF Spec

\* No reservation is released while its order can still fill: not by a cancel that
\* was only acknowledged, nor by a restart or a shutdown in between.
THEOREM ReleasedOnlyAfterEndHolds == Spec => []ReleasedOnlyAfterEnd
<1>1. IInv => ReleasedOnlyAfterEnd  BY DEF IInv
<1> QED  BY InitKeeps, NextKeeps, <1>1, PTL DEF Spec

-----------------------------------------------------------------------------
(* Admission and the exposure it was granted on.                           *)

\* the steps at which a reconciliation has not decided on admission, and those
\* that rely on the list of open orders
Pending == {"register", "reserve", "status", "orders", "positions", "book", "fill", "release",
            "mark", "inventory"}
Listed == {"positions", "book", "fill", "release", "mark", "inventory", "s_inventory"}

\* no order went live since the open orders were read, and the list shows no
\* more of a fill than there is
SeenOpen ==
    task.at \in Listed /\ seen.readable =>
      \A o \in Order : /\ venue[o].status = "live" => o \in DOMAIN seen.open
                       /\ o \in DOMAIN seen.open => seen.open[o] <= venue[o].filled

\* with admission open, only the order under reconciliation may lack its cover
Covered(o) == held[o].held /\ held[o].filled <= venue[o].filled
GateCovers ==
    gate => \A o \in Order : venue[o].status = "live" =>
              Covered(o) \/ (o = task.order /\ task.at \in Pending)

\* nothing runs, and nothing is admitted, while the process is down
DownIsIdle == phase = "down" => ~gate /\ task.at = "idle"

CoverInv == SeenOpen /\ GateCovers /\ DownIsIdle

\* What a step of the reconciling thread does to its place.
LEMMA GotoIs ==
    ASSUME TaskType, NEW step, Goto(step)
    PROVE  task'.at = step /\ task'.order = task.order
BY DEF TaskType

\* A step that leaves the venue and admission alone and goes on with the same
\* order, outside the list, or with the list, has the cover it had.
LEMMA CoverFrame ==
    ASSUME CoverInv, task.at # "idle", UNCHANGED <<venue, gate, phase>>,
           \A o \in Order : held'[o] = held[o] \/ (o = task.order /\ task.at \in Pending),
           task.at \in Pending => task'.at \in Pending /\ task'.order = task.order,
           \/ task'.at \notin Listed
           \/ task.at \in Listed /\ (seen'.readable => seen.readable /\ seen'.open = seen.open)
    PROVE  CoverInv'
<1>1. SeenOpen'  BY DEF CoverInv, SeenOpen
<1>2. GateCovers'  BY DEF CoverInv, GateCovers, Covered
<1> QED  BY <1>1, <1>2 DEF CoverInv, DownIsIdle

\* Where admission is closed nothing needs cover.
LEMMA CoverClosed ==
    ASSUME gate' = FALSE, task'.at \notin Listed, phase' = "down" => task'.at = "idle"
    PROVE  CoverInv'
BY DEF CoverInv, SeenOpen, GateCovers, DownIsIdle

\* An inventory that matches covers every live order.
LEMMA MatchCovers ==
    ASSUME IInv, SeenOpen, task.at \in Listed, Matches, NEW o \in Order, venue[o].status = "live"
    PROVE  Covered(o)
<1>1. o \in DOMAIN seen.open /\ seen.open[o] <= venue[o].filled  BY DEF Matches, SeenOpen
<1> QED  BY <1>1 DEF Matches, Covered

LEMMA VenueCovers ==
    ASSUME IInv, CoverInv, NEW o \in Order, VenueFill(o) \/ VenueClose(o)
    PROVE  CoverInv'
<1>1. /\ VenueType /\ venue[o].filled \in 0..Qty /\ venue[o].status = "live"
      /\ UNCHANGED <<gate, held, task, seen, phase>>
  BY TypeParts DEF IInv, VenueType, Venue, VenueFill, VenueClose
<1>2. \A p \in Order : /\ p # o => venue'[p] = venue[p]
                       /\ venue'[p].status = "live" => venue[p].status = "live"
  BY <1>1 DEF VenueType, VenueFill, VenueClose
<1>3. venue'[o].filled = venue[o].filled \/ venue'[o].filled = venue[o].filled + 1
  BY <1>1 DEF VenueType, Venue, VenueFill, VenueClose
<1>4. SeenOpen'
  <2> SUFFICES ASSUME task.at \in Listed, seen.readable, NEW p \in Order
               PROVE  /\ venue'[p].status = "live" => p \in DOMAIN seen.open
                      /\ p \in DOMAIN seen.open => seen.open[p] <= venue'[p].filled
    BY <1>1 DEF SeenOpen
  <2>1. p \in DOMAIN seen.open => seen.open[p] <= venue[p].filled
    BY DEF CoverInv, SeenOpen
  <2>2. p \in DOMAIN seen.open => seen.open[p] \in 0..Qty
    <3>1. seen \in Reads  BY TypeParts DEF IInv, ReadType
    <3>2. \E S \in SUBSET Order : seen.open \in [S -> 0..Qty]  BY <3>1 DEF Reads
    <3> QED  BY <3>2
  <2> QED  BY <1>1, <1>2, <1>3, <2>1, <2>2 DEF CoverInv, SeenOpen
<1>5. GateCovers'
  <2> SUFFICES ASSUME gate, NEW p \in Order, venue'[p].status = "live",
                      ~(p = task.order /\ task.at \in Pending)
               PROVE  held[p].held /\ held[p].filled <= venue'[p].filled
    BY <1>1 DEF GateCovers, Covered
  <2>1. held[p].held /\ held[p].filled <= venue[p].filled
    BY <1>2 DEF CoverInv, GateCovers, Covered
  <2>2. held[p].filled \in 0..Qty  BY TypeParts DEF IInv, MemoryType, Holding
  <2> QED  BY <1>1, <1>2, <1>3, <2>1, <2>2
<1> QED  BY <1>1, <1>4, <1>5 DEF CoverInv, DownIsIdle, Post

LEMMA PostCovers ==
    ASSUME ~LostReplies, IInv, CoverInv, NEW o \in Order, Post(o)
    PROVE  CoverInv'
<1>1. /\ VenueType /\ task.at = "idle" /\ UNCHANGED <<gate, held, phase>>
      /\ task'.at \notin Listed
  BY TypeParts DEF IInv, Post, Listed
<1>2. \A p \in Order : p # o => venue'[p] = venue[p]  BY <1>1 DEF VenueType, Post
<1>3. venue'[o].status = "live" => task'.order = o /\ task'.at = "register"
  BY <1>1 DEF VenueType, Venue, Post
<1>4. GateCovers'  BY <1>1, <1>2, <1>3 DEF CoverInv, GateCovers, Covered, Pending
<1>5. SeenOpen'  BY <1>1 DEF SeenOpen
<1> QED  BY <1>1, <1>4, <1>5 DEF CoverInv, DownIsIdle, Post

LEMMA QueueCovers ==
    ASSUME CoverInv, UNCHANGED <<venue, gate, held, task, seen, phase>>
    PROVE  CoverInv'
BY DEF CoverInv, SeenOpen, GateCovers, DownIsIdle, Covered

LEMMA SubmissionCovers ==
    ASSUME IInv, CoverInv, Submission
    PROVE  CoverInv'
<1>0. TaskType /\ MemoryType  BY TypeParts DEF IInv
<1>1. CASE Register \/ BookFill \/ MarkEnded
  <2>1. /\ task.at \in Pending /\ task'.at \in Pending /\ task'.order = task.order
        /\ task.at \in Listed \/ task'.at \notin Listed
        /\ UNCHANGED <<venue, gate, held, seen, phase>>
    BY <1>0, <1>1, GotoIs DEF Register, BookFill, MarkEnded, Pending, Listed
  <2> QED  BY <2>1, CoverFrame DEF Pending
<1>2. CASE Reserve \/ ApplyFill \/ ApplyRelease
  <2>1. /\ task.at \in Pending /\ task'.at \in Pending /\ task'.order = task.order
        /\ task.at \in Listed \/ task'.at \notin Listed
        /\ UNCHANGED <<venue, gate, seen, phase>>
    BY <1>0, <1>2, GotoIs DEF Reserve, ApplyFill, ApplyRelease, Pending, Listed
  <2>2. \A o \in Order : o # task.order => held'[o] = held[o]
    BY <1>0, <1>2 DEF Reserve, ApplyFill, ApplyRelease, MemoryType
  <2> QED  BY <2>1, <2>2, CoverFrame DEF Pending
<1>3. CASE ReadStatus
  <2>1. /\ task.at \in Pending /\ task'.at \in Pending /\ task'.order = task.order
        /\ task'.at \notin Listed /\ UNCHANGED <<venue, gate, held, phase>>
    BY <1>0, <1>3, GotoIs DEF ReadStatus, Pending, Listed
  <2> QED  BY <2>1, CoverFrame DEF Pending
<1>4. CASE ReadOrders
  <2>1. /\ task.at \in Pending /\ task'.at \in Pending /\ task'.order = task.order
        /\ UNCHANGED <<venue, gate, held, phase>>
    BY <1>0, <1>4, GotoIs DEF ReadOrders, Pending
  <2>2. seen'.readable => seen'.open = [o \in OpenAtVenue |-> venue[o].filled]
    <3>1. seen \in Reads  BY TypeParts DEF IInv, ReadType
    <3> QED  BY <1>4, <3>1 DEF ReadOrders, Reads
  <2>3. SeenOpen'
    <3>1. \A o \in Order : venue[o].filled <= venue[o].filled
      BY TypeParts DEF IInv, VenueType, Venue
    <3> QED  BY <2>1, <2>2, <3>1 DEF SeenOpen, OpenAtVenue
  <2>4. GateCovers'  BY <2>1 DEF CoverInv, GateCovers, Covered
  <2> QED  BY <2>1, <2>3, <2>4 DEF CoverInv, DownIsIdle, Pending
<1>5. CASE ReadPositions
  <2>1. /\ task.at \in Pending /\ task'.at \in Pending /\ task'.order = task.order
        /\ task.at \in Listed /\ UNCHANGED <<venue, gate, held, phase>>
    BY <1>0, <1>5, GotoIs DEF ReadPositions, Pending, Listed
  <2>2. seen'.readable => seen.readable /\ seen'.open = seen.open
    <3>1. seen \in Reads  BY TypeParts DEF IInv, ReadType
    <3> QED  BY <1>5, <3>1 DEF ReadPositions, Reads
  <2> QED  BY <2>1, <2>2, CoverFrame DEF Pending
<1>6. CASE ReadRaises \/ ReadFails
  <2>1. /\ gate' = FALSE /\ task'.at \notin Listed
        /\ task.at # "idle" /\ UNCHANGED phase
    BY <1>0, <1>6, GotoIs DEF ReadRaises, ReadFails, Listed
  <2> QED  BY <2>1, CoverClosed DEF CoverInv, DownIsIdle
<1>7. CASE ReconcileInventory
  <2>1. /\ task.at = "inventory" /\ task.at \in Listed /\ task'.at \notin Listed
        /\ UNCHANGED <<venue, held, phase>>
    BY <1>0, <1>7, GotoIs DEF ReconcileInventory, Listed
  <2>2. gate' = FALSE \/ Matches  BY <1>7 DEF ReconcileInventory
  <2>3. ASSUME Matches  PROVE CoverInv'
    <3>1. \A o \in Order : venue[o].status = "live" => Covered(o)
      BY <2>1, <2>3, MatchCovers DEF CoverInv
    <3> QED  BY <2>1, <3>1 DEF CoverInv, SeenOpen, GateCovers, DownIsIdle, Covered
  <2> QED  BY <2>1, <2>2, <2>3, CoverClosed DEF CoverInv, DownIsIdle
<1>8. CASE Confirm
  <2>1. /\ task.at = "confirm" /\ task'.at \notin Listed
        /\ UNCHANGED <<venue, gate, held, phase>>
    BY <1>0, <1>8, GotoIs DEF Confirm, Listed
  <2> QED  BY <2>1, CoverFrame DEF Pending
<1> QED  BY <1>1, <1>2, <1>3, <1>4, <1>5, <1>6, <1>7, <1>8 DEF Submission

LEMMA BoundaryCovers ==
    ASSUME IInv, CoverInv, Boundary
    PROVE  CoverInv'
<1>0. TaskType /\ MemoryType /\ seen \in Reads  BY TypeParts DEF IInv, ReadType
<1>1. CASE Start
  <2>1. gate = FALSE /\ gate' = gate /\ phase' = "startup"
    BY <1>0, <1>1 DEF Start, CoverInv, DownIsIdle, MemoryType
  <2>2. task'.at = "next"  BY <1>1 DEF Start
  <2> QED  BY <2>1, <2>2, CoverClosed DEF Listed
<1>2. CASE NextMapping
  <2>1. /\ task.at = "next" /\ task'.at \notin Listed
        /\ UNCHANGED <<venue, gate, held, phase>>
    BY <1>0, <1>2, GotoIs DEF NextMapping, Listed
  <2> QED  BY <2>1, CoverFrame DEF Pending
<1>3. CASE StartupPositions
  <2>1. CASE Serve /\ gate' = FALSE  BY <2>1, CoverClosed DEF Listed
  <2>2. CASE Goto("s_orders") /\ UNCHANGED <<gate, phase>>
    <3>1. /\ task.at = "s_positions" /\ task'.at = "s_orders" /\ UNCHANGED <<venue, held>>
      BY <1>0, <1>3, <2>2, GotoIs DEF StartupPositions
    <3> QED  BY <2>2, <3>1, CoverFrame DEF Pending, Listed
  <2> QED  BY <1>3, <2>1, <2>2 DEF StartupPositions
<1>4. CASE StartupOrders
  <2>1. CASE Serve /\ gate' = FALSE  BY <2>1, CoverClosed DEF Listed
  <2>2. CASE /\ Goto("s_inventory") /\ UNCHANGED <<gate, phase>>
             /\ \/ seen' = [seen EXCEPT !.open = [o \in OpenAtVenue |-> venue[o].filled]]
                \/ seen' = [seen EXCEPT !.readable = FALSE]
    <3>1. /\ task.at = "s_orders" /\ task'.at = "s_inventory" /\ UNCHANGED <<venue, held>>
      BY <1>0, <1>4, <2>2, GotoIs DEF StartupOrders
    <3>2. seen'.readable => seen'.open = [o \in OpenAtVenue |-> venue[o].filled]
      BY <1>0, <2>2 DEF Reads
    <3>3. \A o \in Order : venue[o].filled <= venue[o].filled
      BY TypeParts DEF IInv, VenueType, Venue
    <3>4. SeenOpen'  BY <3>1, <3>2, <3>3 DEF SeenOpen, OpenAtVenue
    <3>5. GateCovers'  BY <2>2, <3>1 DEF CoverInv, GateCovers, Covered, Pending
    <3> QED  BY <2>2, <3>1, <3>4, <3>5 DEF CoverInv, DownIsIdle
  <2> QED  BY <1>4, <2>1, <2>2 DEF StartupOrders
<1>5. CASE StartupInventory
  <2>1. /\ task.at = "s_inventory" /\ task.at \in Listed /\ UNCHANGED <<venue, held>>
        /\ task'.at = "idle" /\ phase' = "running"
        /\ gate' = FALSE \/ Matches
    BY <1>5 DEF StartupInventory, Listed
  <2>2. ASSUME Matches  PROVE CoverInv'
    <3>1. \A o \in Order : venue[o].status = "live" => Covered(o)
      BY <2>1, <2>2, MatchCovers DEF CoverInv
    <3> QED
      BY <2>1, <3>1 DEF CoverInv, SeenOpen, GateCovers, DownIsIdle, Covered, Listed
  <2> QED  BY <2>1, <2>2, CoverClosed DEF Listed
<1>6. CASE Shutdown
  <2>1. /\ task.at = "idle" /\ task'.at = "next" /\ phase' = "shutdown"
        /\ UNCHANGED <<venue, gate, held>>
    BY <1>6 DEF Shutdown
  <2> QED  BY <2>1 DEF CoverInv, SeenOpen, GateCovers, DownIsIdle, Covered, Pending, Listed
<1>7. CASE Exit
  <2>1. gate' = FALSE /\ task'.at = "idle"  BY <1>7
  <2> QED  BY <2>1, CoverClosed DEF Listed
<1>8. CASE FinalOrders
  <2>1. CASE Goto("f_book") /\ UNCHANGED <<router, phase, poll>>
    <3>1. /\ task.at = "f_orders" /\ task'.at = "f_book" /\ UNCHANGED <<venue, gate, held, phase>>
      BY <1>0, <1>8, <2>1, GotoIs DEF FinalOrders
    <3> QED  BY <3>1, CoverFrame DEF Pending, Listed
  <2> QED  BY <1>7, <1>8, <2>1 DEF FinalOrders
<1>9. CASE FinalBook
  <2>1. /\ task.at = "f_book" /\ task'.at = "f_resolve" /\ UNCHANGED <<venue, gate, held, phase>>
    BY <1>0, <1>9 DEF FinalBook, TaskType
  <2> QED  BY <2>1, CoverFrame DEF Pending, Listed
<1>10. CASE FinalResolve
  <2>1. /\ task.at = "f_resolve" /\ task'.at = "f_resolve"
        /\ UNCHANGED <<venue, gate, held, phase>>
    BY <1>0, <1>10 DEF FinalResolve, TaskType
  <2> QED  BY <2>1, CoverFrame DEF Pending, Listed
<1>11. CASE Stop \/ Crash  BY <1>7, <1>11 DEF Stop, Crash
<1> QED
  BY <1>1, <1>2, <1>3, <1>4, <1>5, <1>6, <1>8, <1>9, <1>10, <1>11 DEF Boundary

LEMMA CoverKeeps ==
    ASSUME ~LostReplies
    PROVE  IInv /\ CoverInv /\ [Next]_vars => CoverInv'
<1> SUFFICES ASSUME IInv, CoverInv, [Next]_vars PROVE CoverInv'  OBVIOUS
<1>1. ASSUME NEW o \in Order, VenueFill(o) \/ VenueClose(o) PROVE CoverInv'
  BY <1>1, VenueCovers
<1>2. ASSUME NEW o \in Order, Post(o) PROVE CoverInv'  BY <1>2, PostCovers
<1>3. ASSUME NEW o \in Order, Admit(o) \/ SendCancel(o) \/ PollStatus(o) PROVE CoverInv'
  BY <1>3, QueueCovers DEF Admit, SendCancel, PollStatus
<1>4. CASE MarkPolled  BY <1>4, QueueCovers DEF MarkPolled
<1>5. CASE UNCHANGED vars  BY <1>5, QueueCovers DEF vars
<1> QED
  BY <1>1, <1>2, <1>3, <1>4, <1>5, SubmissionCovers, BoundaryCovers DEF Next

\* Open admission between submissions means that every live order is reserved in
\* memory for all that is still open of it, whatever cancels, polls, failures,
\* crashes and restarts came before.  The lost reply to a submission is excluded
\* by the hypothesis: the order it leaves at the venue is the counterexample of
\* the run GwLostReply.
THEOREM AdmissionCoveredHolds ==
    ASSUME ~LostReplies
    PROVE  Spec => []AdmissionCovered
<1>1. Init => CoverInv
  BY DEF Init, CoverInv, SeenOpen, GateCovers, DownIsIdle, Listed
<1>2. CoverInv => AdmissionCovered
  BY DEF CoverInv, GateCovers, Covered, AdmissionCovered, Resting, OpenAtVenue, Pending
<1>3. IInv /\ CoverInv /\ [Next]_vars => CoverInv'  BY CoverKeeps
<1> QED  BY InitKeeps, NextKeeps, <1>1, <1>2, <1>3, PTL DEF Spec

-----------------------------------------------------------------------------
(* Admission and the orders that ended in conflict.                        *)

\* with admission open, only the order under reconciliation may be in conflict
\* and reserved
GateSeesConflict ==
    gate /\ phase = "running" =>
      \A o \in Order : durable[o] = "conflict" /\ RowActive(o) =>
                         o = task.order /\ task.at \in Pending

\* an order that was read as no longer live has lost its mapping before the
\* inventory is matched, and so its reservation when the inventory matched
EndedIsMarked ==
    /\ task.at = "inventory" /\ seen.status # "live" => durable[task.order] # "active"
    /\ task.at = "confirm" /\ gate /\ phase = "running" /\ seen.status # "live" =>
         ~RowActive(task.order)

\* the steps of a startup or of a shutdown are not those of a running process
BoundaryPhase == task.at \in {"next", "f_orders", "f_book", "f_resolve"} => phase # "running"

ConflictInv == GateSeesConflict /\ EndedIsMarked /\ BoundaryPhase

\* A step towards the decision that touches only the order under reconciliation.
LEMMA ConflictFrame ==
    ASSUME ConflictInv, task.at \in Pending, task'.at \in Pending, task'.at # "inventory",
           task'.order = task.order, UNCHANGED <<gate, phase>>,
           \A o \in Order : o # task.order => durable'[o] = durable[o] /\ row'[o] = row[o]
    PROVE  ConflictInv'
BY DEF ConflictInv, GateSeesConflict, EndedIsMarked, BoundaryPhase, Pending

\* Outside a running process, or with admission closed, no conflict matters.
LEMMA ConflictClosed ==
    ASSUME phase' # "running" \/ gate' = FALSE, task'.at # "inventory",
           task'.at \in {"next", "f_orders", "f_book", "f_resolve"} => phase' # "running"
    PROVE  ConflictInv'
BY DEF ConflictInv, GateSeesConflict, EndedIsMarked, BoundaryPhase

LEMMA ConflictQueue ==
    ASSUME ConflictInv, UNCHANGED <<gate, phase, durable, row, task, seen>>
    PROVE  ConflictInv'
BY DEF ConflictInv, GateSeesConflict, EndedIsMarked, BoundaryPhase

\* An inventory that matches has no order in conflict and reserved.
LEMMA MatchSeesNoConflict ==
    ASSUME Matches, NEW o \in Order, durable[o] # "active"
    PROVE  ~RowActive(o)
BY DEF Matches

\* A status poll or the answer to a cancel never ends a mapping in conflict.
LEMMA PolledConflict ==
    ASSUME ~FaultyStore, IInv, ConflictInv, MarkPolled
    PROVE  ConflictInv'
<1>1. /\ UNCHANGED <<gate, phase, row, task, seen>> /\ poll.order \in Order
      /\ Outcome \in Ended
      /\ durable \in [Order -> Mapping]
  BY Current, TypeParts DEF MarkPolled, IInv, ReadsHold, Outcome, StoreType, PollType
<1>2. \A o \in Order : durable'[o] = IF o = poll.order THEN Outcome ELSE durable[o]
  BY <1>1 DEF MarkPolled
<1>3. \A o \in Order : durable'[o] \in {"conflict", "active"} => durable'[o] = durable[o]
  BY <1>1, <1>2
<1>4. GateSeesConflict'  BY <1>1, <1>3 DEF ConflictInv, GateSeesConflict
<1>5. EndedIsMarked'
  <2>1. task.at = "inventory" => task.order \in Order  BY Current DEF Working
  <2> QED  BY <1>1, <1>3, <2>1 DEF ConflictInv, EndedIsMarked
<1> QED  BY <1>1, <1>4, <1>5 DEF ConflictInv, BoundaryPhase

LEMMA SubmissionConflict ==
    ASSUME ~FaultyStore, IInv, ConflictInv, Submission
    PROVE  ConflictInv'
<1>0. TaskType /\ StoreType  BY TypeParts DEF IInv
<1>1. CASE Register \/ Reserve \/ ReadStatus \/ ReadOrders \/ ReadPositions
  <2>1. /\ task.at \in Pending /\ task'.at \in Pending /\ task'.at # "inventory"
        /\ task'.order = task.order /\ UNCHANGED <<gate, phase>>
    BY <1>0, <1>1, GotoIs DEF Register, Reserve, ReadStatus, ReadOrders, ReadPositions, Pending
  <2>2. \A o \in Order : o # task.order => durable'[o] = durable[o] /\ row'[o] = row[o]
    BY <1>0, <1>1 DEF Register, Reserve, ReadStatus, ReadOrders, ReadPositions, StoreType
  <2> QED  BY <2>1, <2>2, ConflictFrame
<1>2. CASE BookFill \/ ApplyFill \/ ApplyRelease
  <2>1. /\ task.at \in Pending /\ task'.at \in Pending /\ task'.at # "inventory"
        /\ task'.order = task.order /\ UNCHANGED <<gate, phase>>
    BY <1>0, <1>2, GotoIs DEF BookFill, ApplyFill, ApplyRelease, Pending
  <2>2. \A o \in Order : o # task.order => durable'[o] = durable[o] /\ row'[o] = row[o]
    BY <1>0, <1>2 DEF BookFill, ApplyFill, ApplyRelease, StoreType
  <2> QED  BY <2>1, <2>2, ConflictFrame
<1>3. CASE ReadRaises \/ ReadFails
  <2>1. gate' = FALSE /\ task'.at # "inventory" /\ UNCHANGED phase
    BY <1>0, <1>3, GotoIs DEF ReadRaises, ReadFails
  <2>2. task'.at \in {"next", "f_orders", "f_book", "f_resolve"} => phase # "running"
    BY <1>3 DEF ReadRaises, ReadFails
  <2> QED  BY <2>1, <2>2, ConflictClosed
<1>4. CASE MarkEnded
  <2>1. /\ task.at = "mark" /\ task'.at = "inventory" /\ task'.order = task.order
        /\ task.order \in Order /\ UNCHANGED <<gate, phase, row, seen>>
        /\ seen.status \in {"live", "conflict"} \union Ended
    BY <1>0, <1>4, GotoIs, Current DEF MarkEnded, Working
  <2>2. durable' = IF seen.status = "live" THEN durable
                   ELSE [durable EXCEPT ![task.order] = seen.status]
    BY <1>4 DEF MarkEnded
  <2>3. \A o \in Order : o # task.order => durable'[o] = durable[o]
    BY <1>0, <2>2 DEF StoreType
  <2>4. seen.status # "live" => durable'[task.order] # "active"
    BY <1>0, <2>1, <2>2 DEF StoreType
  <2> QED
    BY <2>1, <2>3, <2>4 DEF ConflictInv, GateSeesConflict, EndedIsMarked, BoundaryPhase, Pending
<1>5. CASE ReconcileInventory
  <2>1. /\ task.at = "inventory" /\ task'.at = "confirm" /\ task'.order = task.order
        /\ task.order \in Order /\ UNCHANGED <<phase, durable, row, seen>>
    BY <1>0, <1>5, GotoIs, Current DEF ReconcileInventory, Working
  <2>2. CASE Matches
    <3>1. \A o \in Order : durable[o] # "active" => ~RowActive(o)
      BY <2>2, MatchSeesNoConflict
    <3> QED
      BY <2>1, <3>1 DEF ConflictInv, GateSeesConflict, EndedIsMarked, BoundaryPhase
  <2>3. CASE gate' = FALSE
    BY <2>1, <2>3, ConflictClosed
  <2> QED  BY <1>5, <2>2, <2>3 DEF ReconcileInventory
<1>6. CASE Confirm
  <2>1. /\ task.at = "confirm" /\ task'.at # "inventory" /\ task'.at # "confirm"
        /\ task.order \in Order /\ UNCHANGED <<gate, phase, row>>
        /\ task'.at \in {"next", "f_orders", "f_book", "f_resolve"} => phase # "running"
    BY <1>0, <1>6, GotoIs, Current DEF Confirm, Working
  <2>2. ASSUME gate, phase = "running"
        PROVE  durable' = IF seen.status = "live" THEN durable
                          ELSE [durable EXCEPT ![task.order] = seen.status]
    BY <1>6, <2>2 DEF Confirm
  <2>3. ASSUME gate, phase = "running", NEW o \in Order, durable'[o] = "conflict"
        PROVE  ~RowActive(o)
    <3>1. CASE durable[o] = "conflict"
      BY <2>1, <2>3, <3>1 DEF ConflictInv, GateSeesConflict, Pending
    <3>2. CASE o = task.order /\ seen.status # "live"
      BY <2>1, <2>3, <3>2 DEF ConflictInv, EndedIsMarked
    <3> QED  BY <1>0, <2>2, <2>3, <3>1, <3>2 DEF StoreType
  <2> QED
    BY <2>1, <2>3 DEF ConflictInv, GateSeesConflict, EndedIsMarked, BoundaryPhase
<1> QED  BY <1>1, <1>2, <1>3, <1>4, <1>5, <1>6 DEF Submission

LEMMA BoundaryConflict ==
    ASSUME IInv, ConflictInv, Boundary
    PROVE  ConflictInv'
<1>1. TaskType  BY TypeParts DEF IInv
<1>2. CASE Start  BY <1>2, ConflictClosed DEF Start
<1>3. CASE NextMapping
  <2>1. /\ UNCHANGED <<gate, phase>> /\ phase # "running"
        /\ task'.at \in {"status", "s_positions", "f_orders"}
    BY <1>1, <1>3, GotoIs DEF NextMapping, ConflictInv, BoundaryPhase
  <2> QED  BY <2>1, ConflictClosed
<1>4. CASE StartupPositions \/ StartupOrders
  <2>1. CASE Serve /\ gate' = FALSE  BY <2>1, ConflictClosed
  <2>2. CASE /\ Goto("s_orders") \/ Goto("s_inventory")
             /\ UNCHANGED <<gate, phase, durable, row>>
    <3>1. task'.at \in {"s_orders", "s_inventory"} /\ task.at \in {"s_positions", "s_orders"}
      BY <1>1, <1>4, <2>2, GotoIs DEF StartupPositions, StartupOrders
    <3> QED
      BY <2>2, <3>1 DEF ConflictInv, GateSeesConflict, EndedIsMarked, BoundaryPhase, Pending
  <2> QED  BY <1>4, <2>1, <2>2 DEF StartupPositions, StartupOrders
<1>5. CASE StartupInventory
  <2>1. /\ task'.at = "idle" /\ UNCHANGED <<durable, row>>
        /\ gate' = FALSE \/ Matches
    BY <1>5 DEF StartupInventory
  <2>2. CASE Matches
    <3>1. \A o \in Order : durable[o] # "active" => ~RowActive(o)
      BY <2>2, MatchSeesNoConflict
    <3> QED
      BY <2>1, <3>1 DEF ConflictInv, GateSeesConflict, EndedIsMarked, BoundaryPhase
  <2> QED  BY <2>1, <2>2, ConflictClosed
<1>6. CASE Shutdown  BY <1>6, ConflictClosed DEF Shutdown
<1>7. CASE Exit  BY <1>7, ConflictClosed
<1>8. CASE FinalOrders
  <2>1. CASE Goto("f_book") /\ UNCHANGED <<router, phase, poll>>
    <3>1. task.at = "f_orders" /\ task'.at = "f_book"
      BY <1>1, <1>8, <2>1, GotoIs DEF FinalOrders
    <3> QED  BY <2>1, <3>1, ConflictClosed DEF ConflictInv, BoundaryPhase
  <2> QED  BY <1>7, <1>8, <2>1 DEF FinalOrders
<1>9. CASE FinalBook \/ FinalResolve
  <2>1. task.at \in {"f_book", "f_resolve"} /\ task'.at = "f_resolve" /\ UNCHANGED phase
    BY <1>1, <1>9 DEF FinalBook, FinalResolve, TaskType
  <2> QED  BY <2>1, ConflictClosed DEF ConflictInv, BoundaryPhase
<1>10. CASE Stop \/ Crash  BY <1>7, <1>10 DEF Stop, Crash
<1> QED
  BY <1>2, <1>3, <1>4, <1>5, <1>6, <1>8, <1>9, <1>10 DEF Boundary

LEMMA ConflictKeeps ==
    ASSUME ~FaultyStore
    PROVE  IInv /\ ConflictInv /\ [Next]_vars => ConflictInv'
<1> SUFFICES ASSUME IInv, ConflictInv, [Next]_vars PROVE ConflictInv'  OBVIOUS
<1>1. ASSUME NEW o \in Order, Post(o) PROVE ConflictInv'
  <2>1. /\ task.at = "idle" /\ task'.at \in {"idle", "register"}
        /\ UNCHANGED <<gate, phase, durable, row>>
    BY <1>1 DEF Post
  <2> QED
    BY <2>1 DEF ConflictInv, GateSeesConflict, EndedIsMarked, BoundaryPhase, Pending
<1>2. ASSUME NEW o \in Order,
             VenueFill(o) \/ VenueClose(o) \/ Admit(o) \/ SendCancel(o) \/ PollStatus(o)
      PROVE  ConflictInv'
  BY <1>2, ConflictQueue DEF VenueFill, VenueClose, Admit, SendCancel, PollStatus
<1>3. CASE UNCHANGED vars  BY <1>3, ConflictQueue DEF vars
<1> QED
  BY <1>1, <1>2, <1>3, PolledConflict, SubmissionConflict, BoundaryConflict DEF Next

\* An order whose reconciliation ended in conflict while its reservation is open
\* keeps admission closed, however many other orders are reconciled after it,
\* provided that the mark of the conflict could be written; a lost write is the
\* hazard at the second mark.
THEOREM ConflictRevokesHolds ==
    ASSUME ~FaultyStore
    PROVE  Spec => []ConflictRevokes
<1>1. Init => ConflictInv
  BY DEF Init, ConflictInv, GateSeesConflict, EndedIsMarked, BoundaryPhase
<1>2. ConflictInv => ConflictRevokes
  BY DEF ConflictInv, GateSeesConflict, ConflictRevokes, Resting, Pending
<1>3. IInv /\ ConflictInv /\ [Next]_vars => ConflictInv'  BY ConflictKeeps
<1> QED  BY InitKeeps, NextKeeps, <1>1, <1>2, <1>3, PTL DEF Spec

-----------------------------------------------------------------------------
(* The reservation tables implement DurableReservation.                    *)

\* the steps between the read of an order's status and the use of its fill
Filling == {"orders", "positions", "book", "fill"}

\* a reservation has no history before it is opened
Unopened ==
    \A o \in Order :
      venue[o].status = "none" \/ (o = task.order /\ task.at \in {"register", "reserve"}) =>
        row[o].status = "none" /\ ~tomb[o] /\ journal[o] = 0

\* memory holds what the journal shows, and nothing of an order that was released
HeldIsJournal == \A o \in Order : held[o].held => held[o].filled = journal[o] /\ ~tomb[o]

\* a fill that is applied before a release, or without one, is short of the
\* order's quantity
FillIsPartial ==
    /\ \A o \in Order : venue[o].status \in {"live", "canceled"} => venue[o].filled < Qty
    /\ task.at \in Filling /\ seen.status \in {"live", "canceled"} => seen.filled < Qty
    /\ task.at = "fill" => seen.status \in {"live", "canceled"}

DurableInv == Unopened /\ HeldIsJournal /\ FillIsPartial

\* A step of the reconciling thread that neither registers nor reads a status.
LEMMA DurableFrame ==
    ASSUME DurableInv, UNCHANGED <<venue, row, tomb, journal>>,
           UNCHANGED held \/ (\A o \in Order : ~held'[o].held),
           task'.at \notin {"register", "reserve"},
           \/ task'.at \notin Filling
           \/ task.at \in Filling /\ seen'.status = seen.status /\ seen'.filled = seen.filled,
           task'.at = "fill" => seen'.status \in {"live", "canceled"}
    PROVE  DurableInv'
<1>1. Unopened'  BY DEF DurableInv, Unopened
<1>2. HeldIsJournal'  BY DEF DurableInv, HeldIsJournal
<1>3. FillIsPartial'  BY DEF DurableInv, FillIsPartial
<1> QED  BY <1>1, <1>2, <1>3 DEF DurableInv

LEMMA DurableQueue ==
    ASSUME DurableInv, UNCHANGED <<venue, row, tomb, journal, held, task, seen>>
    PROVE  DurableInv'
BY DEF DurableInv, Unopened, HeldIsJournal, FillIsPartial

LEMMA VenueDurable ==
    ASSUME IInv, DurableInv, NEW o \in Order, VenueFill(o) \/ VenueClose(o)
    PROVE  DurableInv'
<1>1. /\ VenueType /\ venue[o].filled \in 0..Qty /\ venue[o].status = "live"
      /\ UNCHANGED <<row, tomb, journal, held, task, seen>>
  BY TypeParts DEF IInv, VenueType, Venue, VenueFill, VenueClose
<1>2. \A p \in Order : p # o => venue'[p] = venue[p]
  BY <1>1 DEF VenueType, VenueFill, VenueClose
<1>3. /\ venue'[o].status \in {"live", "filled", "canceled"}
      /\ venue'[o].status \in {"live", "canceled"} => venue'[o].filled < Qty
  <2>1. venue[o].filled < Qty  BY <1>1 DEF DurableInv, FillIsPartial
  <2>2. CASE VenueClose(o)  BY <1>1, <2>1, <2>2 DEF VenueType, Venue, VenueClose
  <2>3. CASE VenueFill(o)
    <3>1. /\ venue'[o].filled = venue[o].filled + 1
          /\ venue'[o].status = IF venue[o].filled + 1 = Qty THEN "filled" ELSE "live"
      BY <1>1, <2>3 DEF VenueType, Venue, VenueFill
    <3> QED  BY <1>1, <2>1, <3>1
  <2> QED  BY <2>2, <2>3
<1>4. Unopened'  BY <1>1, <1>2, <1>3 DEF DurableInv, Unopened
<1>5. HeldIsJournal'  BY <1>1 DEF DurableInv, HeldIsJournal
<1>6. FillIsPartial'  BY <1>1, <1>2, <1>3 DEF DurableInv, FillIsPartial
<1> QED  BY <1>4, <1>5, <1>6 DEF DurableInv

LEMMA PostDurable ==
    ASSUME IInv, DurableInv, NEW o \in Order, Post(o)
    PROVE  DurableInv'
<1>1. /\ VenueType /\ venue[o].status = "none" /\ venue[o].filled = 0
      /\ task.at = "idle" /\ UNCHANGED <<row, tomb, journal, held, seen>>
  BY TypeParts DEF IInv, VenueSound, Post
<1>2. /\ \A p \in Order : p # o => venue'[p] = venue[p]
      /\ venue'[o].status \in {"live", "refused"} /\ venue'[o].filled = 0
  BY <1>1 DEF VenueType, Venue, Post
<1>3. task' = task \/ (task'.at = "register" /\ task'.order = o)  BY DEF Post
<1>4. Unopened'
  <2>1. \A p \in Order : venue'[p].status = "none" => venue[p].status = "none"  BY <1>2
  <2> QED  BY <1>1, <1>3, <2>1 DEF DurableInv, Unopened
<1>5. HeldIsJournal'  BY <1>1 DEF DurableInv, HeldIsJournal
<1>6. FillIsPartial'  BY <1>1, <1>2, <1>3 DEF DurableInv, FillIsPartial, Filling
<1> QED  BY <1>4, <1>5, <1>6 DEF DurableInv

LEMMA ReserveDurable ==
    ASSUME IInv, DurableInv, Reserve
    PROVE  DurableInv'
<1> DEFINE o == task.order
<1>1. /\ task.at = "reserve" /\ task'.at = "status" /\ task'.order = o /\ o \in Order
      /\ venue[o].status # "none" /\ UNCHANGED <<venue, tomb, journal, seen>>
  BY TypeParts, GotoIs DEF IInv, TaskType, Reserve, OrdersPosted, Posted, Working
<1>2. row[o].status = "none" /\ ~tomb[o] /\ journal[o] = 0  BY <1>1 DEF DurableInv, Unopened
<1>3. \A p \in Order : p # o => row'[p] = row[p] /\ held'[p] = held[p]
  BY TypeParts DEF IInv, StoreType, MemoryType, Reserve
<1>4. held'[o] = held[o] \/ held'[o] = [held |-> TRUE, filled |-> 0]
  BY <1>1, TypeParts DEF IInv, MemoryType, Reserve
<1> HIDE DEF o
<1>5. Unopened'  BY <1>1, <1>3 DEF DurableInv, Unopened
<1>6. HeldIsJournal'  BY <1>1, <1>2, <1>3, <1>4 DEF DurableInv, HeldIsJournal
<1>7. FillIsPartial'  BY <1>1 DEF DurableInv, FillIsPartial, Filling
<1> QED  BY <1>5, <1>6, <1>7 DEF DurableInv

LEMMA ReadStatusDurable ==
    ASSUME IInv, DurableInv, ReadStatus
    PROVE  DurableInv'
<1>1. /\ task'.at = "orders" /\ task.order \in Posted
      /\ UNCHANGED <<venue, row, tomb, journal, held>>
  BY TypeParts, GotoIs DEF IInv, TaskType, ReadStatus, OrdersPosted, Working
<1>2. \/ seen'.status = venue[task.order].status /\ seen'.filled = venue[task.order].filled
      \/ seen'.status = "conflict"
  BY DEF ReadStatus, NoReads
<1>3. Unopened' /\ HeldIsJournal'  BY <1>1 DEF DurableInv, Unopened, HeldIsJournal
<1>4. FillIsPartial'  BY <1>1, <1>2 DEF DurableInv, FillIsPartial, Posted
<1> QED  BY <1>3, <1>4 DEF DurableInv

LEMMA ApplyFillDurable ==
    ASSUME IInv, DurableInv, ApplyFill
    PROVE  DurableInv'
<1>0. TaskType /\ StoreType /\ MemoryType  BY TypeParts DEF IInv
<1>1. PICK o \in Order : o = task.order  BY Current DEF ApplyFill, Working
<1>2. /\ task.at = "fill" /\ task'.at \in {"release", "mark"} /\ venue[o].status # "none"
      /\ UNCHANGED <<venue, tomb, seen>>
  BY <1>0, <1>1, GotoIs DEF IInv, ApplyFill, OrdersPosted, Posted, Working
<1>3. \A p \in Order : p # o => /\ row'[p] = row[p] /\ held'[p] = held[p]
                                /\ journal'[p] = journal[p]
  BY <1>0, <1>1 DEF StoreType, MemoryType, ApplyFill
<1>4. \/ held'[o] = held[o] /\ journal'[o] = journal[o]
      \/ held[o].held /\ held'[o].filled = seen.filled /\ journal'[o] = seen.filled
  BY <1>0, <1>1 DEF StoreType, MemoryType, Holding, ApplyFill, Advances
<1>5. Unopened'  BY <1>2, <1>3 DEF DurableInv, Unopened
<1>6. HeldIsJournal'  BY <1>2, <1>3, <1>4 DEF DurableInv, HeldIsJournal
<1>7. FillIsPartial'  BY <1>2 DEF DurableInv, FillIsPartial, Filling
<1> QED  BY <1>5, <1>6, <1>7 DEF DurableInv

LEMMA ApplyReleaseDurable ==
    ASSUME IInv, DurableInv, ApplyRelease
    PROVE  DurableInv'
<1>0. TaskType /\ StoreType /\ MemoryType  BY TypeParts DEF IInv
<1>1. PICK o \in Order : o = task.order  BY Current DEF ApplyRelease, Working
<1>2. /\ task.at = "release" /\ task'.at = "mark" /\ venue[o].status # "none"
      /\ UNCHANGED <<venue, journal, seen>>
  BY <1>0, <1>1, GotoIs DEF IInv, ApplyRelease, OrdersPosted, Posted, Working
<1>3. \A p \in Order : p # o => /\ row'[p] = row[p] /\ held'[p] = held[p] /\ tomb'[p] = tomb[p]
  BY <1>0, <1>1 DEF StoreType, MemoryType, ApplyRelease
<1>4. \/ held'[o] = held[o] /\ tomb'[o] = tomb[o]
      \/ ~held'[o].held
  BY <1>0, <1>1 DEF StoreType, MemoryType, ApplyRelease, Free
<1>5. Unopened'  BY <1>2, <1>3 DEF DurableInv, Unopened
<1>6. HeldIsJournal'  BY <1>2, <1>3, <1>4 DEF DurableInv, HeldIsJournal
<1>7. FillIsPartial'  BY <1>2 DEF DurableInv, FillIsPartial, Filling
<1> QED  BY <1>5, <1>6, <1>7 DEF DurableInv

LEMMA SubmissionDurable ==
    ASSUME IInv, DurableInv, Submission
    PROVE  DurableInv'
<1>0. TaskType /\ seen \in Reads  BY TypeParts DEF IInv, ReadType
<1>1. CASE Register
  <2>1. /\ task.at = "register" /\ task'.at = "reserve" /\ task'.order = task.order
        /\ UNCHANGED <<venue, row, tomb, journal, held, seen>>
    BY <1>0, <1>1, GotoIs DEF Register
  <2> QED  BY <2>1 DEF DurableInv, Unopened, HeldIsJournal, FillIsPartial, Filling
<1>2. CASE ReadOrders \/ ReadPositions
  <2>1. /\ task.at \in Filling /\ task'.at \in {"positions", "book"}
        /\ UNCHANGED <<venue, row, tomb, journal, held>>
    BY <1>0, <1>2, GotoIs DEF ReadOrders, ReadPositions, Filling
  <2>2. seen'.status = seen.status /\ seen'.filled = seen.filled
    BY <1>0, <1>2 DEF ReadOrders, ReadPositions, Reads
  <2> QED  BY <2>1, <2>2, DurableFrame
<1>3. CASE ReadRaises \/ ReadFails
  <2>1. /\ task'.at \in {"idle", "next"} /\ UNCHANGED <<venue, row, tomb, journal, held>>
    BY <1>0, <1>3, GotoIs DEF ReadRaises, ReadFails
  <2> QED  BY <2>1, DurableFrame DEF Filling
<1>4. CASE BookFill
  <2>1. /\ task.at = "book" /\ task'.at \in {"fill", "release", "mark"}
        /\ task'.at = "fill" => seen.status \in {"live", "canceled"}
        /\ UNCHANGED <<venue, row, tomb, journal, held, seen>>
    <3>1. /\ task.at = "book" /\ UNCHANGED <<venue, row, tomb, journal, held, seen>>
      BY <1>4 DEF BookFill
    <3>2. CASE seen.filled > 0 /\ seen.status \in {"live", "canceled"}
      BY <1>0, <1>4, <3>2, GotoIs DEF BookFill
    <3>3. CASE seen.status = "filled"
      BY <1>0, <1>4, <3>3, GotoIs DEF BookFill
    <3>4. CASE seen.status = "canceled" /\ seen.filled = 0
      BY <1>0, <1>4, <3>4, GotoIs DEF BookFill
    <3>5. CASE \/ seen.status = "conflict"
               \/ seen.status = "live" /\ seen.filled = 0
      BY <1>0, <1>4, <3>5, GotoIs DEF BookFill
    <3>6. seen.status \in {"live", "conflict", "filled", "canceled"} /\ seen.filled \in 0..Qty
      BY Current
    <3> QED  BY <3>1, <3>2, <3>3, <3>4, <3>5, <3>6
  <2> QED  BY <2>1, DurableFrame DEF Filling
<1>5. CASE MarkEnded \/ ReconcileInventory \/ Confirm
  <2>1. /\ task'.at \in {"inventory", "confirm", "idle", "next"}
        /\ UNCHANGED <<venue, row, tomb, journal, held>>
    BY <1>0, <1>5, GotoIs DEF MarkEnded, ReconcileInventory, Confirm
  <2> QED  BY <2>1, DurableFrame DEF Filling
<1> QED
  BY <1>1, <1>2, <1>3, <1>4, <1>5, ReserveDurable, ReadStatusDurable, ApplyFillDurable,
     ApplyReleaseDurable DEF Submission

LEMMA BoundaryDurable ==
    ASSUME IInv, DurableInv, Boundary
    PROVE  DurableInv'
<1>0. TaskType  BY TypeParts DEF IInv
<1>1. CASE Start
  <2>1. /\ task'.at = "next" /\ UNCHANGED <<venue, row, tomb, journal, seen>>
    BY <1>1 DEF Start
  <2>2. HeldIsJournal'
    BY <1>1, <2>1 DEF Start, DurableInv, HeldIsJournal, Recoverable, Free
  <2>3. Unopened' /\ FillIsPartial'
    BY <2>1 DEF DurableInv, Unopened, FillIsPartial, Filling
  <2> QED  BY <2>2, <2>3 DEF DurableInv
<1>2. CASE NextMapping \/ Shutdown \/ FinalBook \/ FinalResolve
  <2>1. /\ task'.at \in {"next", "status", "s_positions", "f_orders", "f_resolve"}
        /\ UNCHANGED <<venue, row, tomb, journal, held>>
    <3>1. CASE NextMapping
      <4>1. CASE task.todo # {}
        <5>1. PICK o \in task.todo :
                task' = [at |-> "status", order |-> o, todo |-> task.todo \ {o}]
          BY <3>1, <4>1 DEF NextMapping
        <5> QED  BY <3>1, <5>1 DEF NextMapping
      <4>2. CASE task.todo = {}
        BY <1>0, <3>1, <4>2, GotoIs DEF NextMapping
      <4> QED  BY <4>1, <4>2
    <3>2. CASE Shutdown  BY <3>2 DEF Shutdown
    <3>3. CASE FinalBook
      <4>1. task' = [task EXCEPT !.at = "f_resolve", !.todo = Mapped(durable)]
        BY <3>3 DEF FinalBook
      <4>2. task'.at = "f_resolve"  BY <1>0, <4>1 DEF TaskType
      <4> QED  BY <3>3, <4>2 DEF FinalBook
    <3>4. CASE FinalResolve
      <4>1. PICK o \in task.todo : task' = [task EXCEPT !.todo = @ \ {o}]
        BY <3>4 DEF FinalResolve
      <4>2. task'.at = task.at /\ task.at = "f_resolve"
        BY <1>0, <3>4, <4>1 DEF FinalResolve, TaskType
      <4> QED  BY <3>4, <4>2 DEF FinalResolve
    <3> QED  BY <1>2, <3>1, <3>2, <3>3, <3>4
  <2> QED  BY <2>1, DurableFrame DEF Filling
<1>3. CASE StartupPositions \/ StartupOrders \/ StartupInventory
  <2>1. /\ task'.at \in {"idle", "s_orders", "s_inventory"}
        /\ UNCHANGED <<venue, row, tomb, journal, held>>
    BY <1>0, <1>3, GotoIs DEF StartupPositions, StartupOrders, StartupInventory
  <2> QED  BY <2>1, DurableFrame DEF Filling
<1>4. CASE Exit /\ UNCHANGED <<venue, row, tomb, journal>>
  BY <1>4, DurableFrame DEF Filling, Free
<1>5. CASE FinalOrders
  <2>1. CASE Goto("f_book") /\ UNCHANGED <<venue, row, tomb, journal, held>>
    <3>1. task'.at = "f_book"  BY <1>0, <2>1, GotoIs
    <3> QED  BY <2>1, <3>1, DurableFrame DEF Filling
  <2> QED  BY <1>4, <1>5, <2>1 DEF FinalOrders
<1>6. CASE Stop \/ Crash  BY <1>4, <1>6 DEF Stop, Crash
<1> QED  BY <1>1, <1>2, <1>3, <1>5, <1>6 DEF Boundary

LEMMA DurableKeeps == IInv /\ DurableInv /\ [Next]_vars => DurableInv'
<1> SUFFICES ASSUME IInv, DurableInv, [Next]_vars PROVE DurableInv'  OBVIOUS
<1>1. ASSUME NEW o \in Order, Admit(o) \/ SendCancel(o) \/ PollStatus(o) PROVE DurableInv'
  BY <1>1, DurableQueue DEF Admit, SendCancel, PollStatus
<1>2. CASE MarkPolled  BY <1>2, DurableQueue DEF MarkPolled
<1>3. CASE UNCHANGED vars  BY <1>3, DurableQueue DEF vars
<1> QED
  BY <1>1, <1>2, <1>3, VenueDurable, PostDurable, SubmissionDurable, BoundaryDurable DEF Next

StateOf(o) == IF tomb[o] THEN "released" ELSE IF RowActive(o) THEN "open" ELSE "none"

\* What the three steps that write the reservation tables do, and no other step.
LEMMA TableSteps ==
    ASSUME IInv, DurableInv, [Next]_vars
    PROVE  \/ \A o \in Order : StateOf(o)' = StateOf(o) /\ journal'[o] = journal[o]
           \/ \E o \in Order :
                /\ \A p \in Order : p # o => StateOf(p)' = StateOf(p) /\ journal'[p] = journal[p]
                /\ StateOf(o) \in {"none", "open"}
                /\ \/ /\ StateOf(o) = "none" /\ StateOf(o)' = "open" /\ journal'[o] = journal[o]
                   \/ /\ StateOf(o) = "open" /\ StateOf(o)' = "open"
                      /\ journal'[o] \in 1..Qty /\ journal'[o] > journal[o] /\ journal'[o] < Qty
                   \/ /\ StateOf(o) = "open" /\ StateOf(o)' = "released"
                      /\ journal'[o] = journal[o]
<1>0. TaskType /\ StoreType /\ MemoryType  BY TypeParts DEF IInv
<1>1. CASE UNCHANGED <<row, tomb, journal>>  BY <1>1 DEF StateOf
<1>2. CASE Reserve
  <2>1. PICK o \in Order : o = task.order  BY <1>2, Current DEF Reserve, Working
  <2>2. row[o].status = "none" /\ ~tomb[o]
    BY <1>2, <2>1 DEF Reserve, DurableInv, Unopened
  <2>3. UNCHANGED <<tomb, journal>>  BY <1>2 DEF Reserve
  <2>4. CASE row' = [row EXCEPT ![task.order].status = "open"]
    <3>1. row'[o].status = "open" /\ \A p \in Order : p # o => row'[p] = row[p]
      BY <1>0, <2>1, <2>4 DEF StoreType, Reservation
    <3> QED  BY <2>2, <2>3, <3>1 DEF StateOf
  <2> QED  BY <1>1, <1>2, <2>3, <2>4 DEF Reserve
<1>3. CASE ApplyFill
  <2>1. PICK o \in Order : o = task.order  BY <1>3, Current DEF ApplyFill, Working
  <2>2. UNCHANGED tomb /\ task.at = "fill"  BY <1>3 DEF ApplyFill
  <2>3. CASE /\ Advances /\ journal' = [journal EXCEPT ![task.order] = seen.filled]
             /\ \/ row' = [row EXCEPT ![task.order].filled = seen.filled]
                \/ UNCHANGED row
    <3>1. /\ \A p \in Order : row'[p].status = row[p].status
          /\ \A p \in Order : p # o => journal'[p] = journal[p]
          /\ journal'[o] = seen.filled
      BY <1>0, <2>1, <2>3 DEF StoreType, Reservation
    <3>2. /\ row[o].status = "open" /\ ~tomb[o] /\ seen.filled > journal[o]
      BY <2>1, <2>3 DEF Advances, DurableInv, HeldIsJournal
    <3>3. seen.filled < Qty  BY <2>2 DEF DurableInv, FillIsPartial, Filling
    <3>4. seen.filled \in 1..Qty
      <4>1. seen.filled \in 0..Qty /\ journal[o] \in 0..Qty  BY <1>0, Current DEF StoreType
      <4> QED  BY <3>2, <4>1
    <3> QED  BY <2>2, <3>1, <3>2, <3>3, <3>4 DEF StateOf
  <2> QED  BY <1>1, <1>3, <2>2, <2>3 DEF ApplyFill
<1>4. CASE ApplyRelease
  <2>1. PICK o \in Order : o = task.order  BY <1>4, Current DEF ApplyRelease, Working
  <2>2. UNCHANGED journal  BY <1>4 DEF ApplyRelease
  <2>3. CASE /\ Releasable /\ tomb' = [tomb EXCEPT ![task.order] = TRUE]
             /\ \/ row' = [row EXCEPT ![task.order].status = "closed"]
                \/ UNCHANGED row
    <3>1. /\ \A p \in Order : p # o => row'[p] = row[p] /\ tomb'[p] = tomb[p]
          /\ tomb'[o] = TRUE
      BY <1>0, <2>1, <2>3 DEF StoreType
    <3>2. row[o].status = "open" /\ ~tomb[o]  BY <2>1, <2>3 DEF Releasable
    <3> QED  BY <2>2, <3>1, <3>2 DEF StateOf
  <2> QED  BY <1>1, <1>4, <2>2, <2>3 DEF ApplyRelease
<1>5. CASE Submission
  <2>1. CASE \/ Register \/ ReadStatus \/ ReadOrders \/ ReadPositions \/ ReadRaises \/ ReadFails
             \/ BookFill \/ MarkEnded \/ ReconcileInventory \/ Confirm
    BY <1>1, <2>1 DEF Register, ReadStatus, ReadOrders, ReadPositions, ReadRaises, ReadFails,
       BookFill, MarkEnded, ReconcileInventory, Confirm
  <2> QED  BY <1>2, <1>3, <1>4, <1>5, <2>1 DEF Submission
<1>6. CASE Boundary
  BY <1>1, <1>6 DEF Boundary, Start, NextMapping, StartupPositions, StartupOrders,
     StartupInventory, Shutdown, FinalOrders, FinalBook, FinalResolve, Stop, Crash
<1>7. CASE MarkPolled \/ UNCHANGED vars  BY <1>1, <1>7 DEF MarkPolled, vars
<1>8. ASSUME NEW o \in Order, \/ VenueFill(o) \/ VenueClose(o) \/ Admit(o) \/ Post(o)
                              \/ SendCancel(o) \/ PollStatus(o)
      PROVE  UNCHANGED <<row, tomb, journal>>
  BY <1>8 DEF VenueFill, VenueClose, Admit, Post, SendCancel, PollStatus
<1> QED  BY <1>1, <1>5, <1>6, <1>7, <1>8 DEF Next

LEMMA StepImplements ==
    IInv /\ IInv' /\ DurableInv /\ [Next]_vars => [Durable!Next]_(Durable!vars)
<1> SUFFICES ASSUME IInv, IInv', DurableInv, [Next]_vars
             PROVE  [Durable!Next]_(Durable!vars)
  OBVIOUS
<1> DEFINE state == [o \in Order |-> CASE tomb[o] -> "released"
                                       [] ~tomb[o] /\ RowActive(o) -> "open"
                                       [] OTHER -> "none"]
<1>1. StoreType /\ StoreType'  BY TypeParts, TypePartsNext DEF IInv
<1>2. state = [o \in Order |-> StateOf(o)]
  BY <1>1 DEF StateOf, StoreType
<1>3. state' = [o \in Order |-> StateOf(o)']
  BY <1>1 DEF StateOf, StoreType
<1>4. /\ journal \in [Order -> 0..Qty] /\ journal' \in [Order -> 0..Qty]
  BY <1>1 DEF StoreType
<1>5. CASE \A o \in Order : StateOf(o)' = StateOf(o) /\ journal'[o] = journal[o]
  <2>1. state' = state /\ journal' = journal  BY <1>2, <1>3, <1>4, <1>5
  <2> QED  BY <2>1 DEF Durable!vars
<1>6. ASSUME NEW o \in Order,
             \A p \in Order : p # o => StateOf(p)' = StateOf(p) /\ journal'[p] = journal[p]
      PROVE  /\ state' = [state EXCEPT ![o] = StateOf(o)']
             /\ journal' = [journal EXCEPT ![o] = journal'[o]]
  <2>1. journal' = [journal EXCEPT ![o] = journal'[o]]  BY <1>4, <1>6
  <2>2. \A p \in Order : p # o => StateOf(p)' = StateOf(p)  BY <1>6
  <2>3. [p \in Order |-> StateOf(p)'] = [[p \in Order |-> StateOf(p)] EXCEPT ![o] = StateOf(o)']
    BY <2>2, ZenonT(30)
  <2> QED  BY <1>2, <1>3, <2>1, <2>3
<1>7. ASSUME NEW o \in Order,
             \A p \in Order : p # o => StateOf(p)' = StateOf(p) /\ journal'[p] = journal[p],
             StateOf(o) = "none", StateOf(o)' = "open", journal'[o] = journal[o]
      PROVE  Durable!Next
  <2>1. /\ state[o] = "none" /\ state' = [state EXCEPT ![o] = "open"]
        /\ journal' = journal
    BY <1>2, <1>4, <1>6, <1>7
  <2>2. \A q \in Order : [p \in Order |-> p][q] = [p \in Order |-> p][o] =>
                           state[q] \notin {"open", "released"}
    BY <2>1
  <2>3. Durable!Open(o)  BY <2>1, <2>2 DEF Durable!Open
  <2> QED  BY <2>3 DEF Durable!Next
<1>8. ASSUME NEW o \in Order,
             \A p \in Order : p # o => StateOf(p)' = StateOf(p) /\ journal'[p] = journal[p],
             StateOf(o) = "open", StateOf(o)' = "open",
             journal'[o] \in 1..Qty, journal'[o] > journal[o], journal'[o] < Qty
      PROVE  Durable!Next
  <2>1. PICK n \in 1..Qty : n = journal'[o]  BY <1>8
  <2>2. /\ state[o] = "open" /\ state' = [state EXCEPT ![o] = "open"]
        /\ journal' = [journal EXCEPT ![o] = n] /\ n > journal[o] /\ ~(n >= Qty)
    BY <1>2, <1>6, <1>8, <2>1
  <2>3. Durable!Fill(o, n)  BY <2>2 DEF Durable!Fill
  <2> QED  BY <2>3 DEF Durable!Next
<1>9. ASSUME NEW o \in Order,
             \A p \in Order : p # o => StateOf(p)' = StateOf(p) /\ journal'[p] = journal[p],
             StateOf(o) = "open", StateOf(o)' = "released", journal'[o] = journal[o]
      PROVE  Durable!Next
  <2>1. /\ state[o] = "open" /\ state' = [state EXCEPT ![o] = "released"]
        /\ journal' = journal
    BY <1>2, <1>4, <1>6, <1>9
  <2>2. Durable!Release(o)  BY <2>1 DEF Durable!Release
  <2> QED  BY <2>2 DEF Durable!Next
<1> QED  BY <1>5, <1>7, <1>8, <1>9, TableSteps

\* With the calls of the reservation lifecycle taken as single steps, the life of
\* a reservation at the gateway is the durable one, whatever reads, replies and
\* writes are lost: it opens after its acknowledgement, no full fill is ever
\* applied as a partial one, and nothing follows its release.
THEOREM ImplementsDurableHolds == Spec => ImplementsDurable
<1>1. Init => DurableInv /\ Durable!Init
  <2> SUFFICES ASSUME Init PROVE DurableInv /\ Durable!Init  OBVIOUS
  <2>1. DurableInv
    BY DEF Init, DurableInv, Unopened, HeldIsJournal, FillIsPartial, Filling, Free
  <2>2. Durable!Init  BY DEF Init, Durable!Init
  <2> QED  BY <2>1, <2>2
<1> QED
  BY InitKeeps, NextKeeps, DurableKeeps, StepImplements, <1>1, PTL
     DEF Spec, ImplementsDurable, Durable!Spec
=============================================================================
