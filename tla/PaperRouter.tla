----------------------------- MODULE PaperRouter -----------------------------
(***************************************************************************)
(* The internal paper path of app/execution/order_router.py over           *)
(* PaperBroker, with the threads of the engine that call it: the executor  *)
(* sends an order and drives the matching at once; the watchers (main      *)
(* loop, sweeper) ask for the status of the orders that wait, and cancel.  *)
(* Neither the router's paper path nor the broker takes a lock: a thread   *)
(* reads the reserved cash, or the position of a symbol with the quantity  *)
(* reserved in it, and writes back what it made of it, and what another    *)
(* thread wrote in between is lost.  Each such read and each such write is *)
(* a step.                                                                 *)
(*                                                                         *)
(* What the router learns it learns from _sync_paper_reports: a thread     *)
(* reads the cursor and copies the reports after it, handles the copies    *)
(* one after another, writing to SQLite as it goes, and moves the cursor   *)
(* to the end of the list as it then is.                                   *)
(*                                                                         *)
(* The router's broker matches with one market of an unknown symbol and    *)
(* without depth: a market order fills whole, a limit order never.  A      *)
(* broker outside the router has one caller that uses all of its calls.    *)
(***************************************************************************)
EXTENDS PaperBroker

CONSTANT Watcher               \* the threads that poll and cancel

Thread == Watcher \union {"executor"}

VARIABLES
    routed,    \* the broker belongs to a router
    pending,   \* _pending_orders
    cache,     \* _order_status_cache: the status of an order
    closed,    \* orders whose mapping is terminal
    cursor,    \* _paper_reports_index
    task,      \* what a thread does: its step, its call, its order, its copies
    waiting,   \* pending_orders of the engine
    tried,     \* _cancel_attempted_order_ids of the engine
    paid,      \* orders whose fill the engine got
    released,  \* the ends that were recorded on an order's reservation
    met,       \* history: orders sent or cancelled while another thread synced
    copy,      \* the shared sums as a thread read them, the use and the order
    lost       \* history: the sums of which a thread undid another's update

router == <<pending, cache, closed, cursor, task, waiting, tried, paid, released, met>>
sums == <<copy, lost>>
vars == <<broker, routed, router, sums>>

Step == {"idle", "drive", "match", "sync", "take", "apply", "cancel", "mark", "look"}
Idle == [at |-> "idle", call |-> "none", order |-> "none",
         next |-> 1, last |-> 0, known |-> FALSE]

\* reserved_cash, and the position of each symbol
Sum == {"cash"} \union Symbol
Sums(b) == [cash |-> b.cash, held |-> b.held, owned |-> b.owned]
Use == {"none", "reserve", "fill", "booked", "settle", "release"}
NoCopy == [use |-> "none", order |-> "none", of |-> Sums(EmptyBook)]

ASSUME ThreadAssumption == "executor" \notin Watcher
ASSUME SumAssumption == "cash" \notin Symbol

TypeOK ==
    /\ asked \in [Order -> Request]
    /\ config \in [short : BOOLEAN, expiry : BOOLEAN, durable : BOOLEAN]
    /\ \A b \in {book, disk} :
          /\ \A o \in Open(b) :
                /\ b.open[o].filled + b.open[o].left = b.open[o].qty
                /\ b.open[o].left > 0 /\ b.open[o].filled >= 0
          /\ b.cash >= 0 /\ \A s \in Symbol : b.held[s] >= 0 /\ b.owned[s] \in Int
          /\ \A i \in DOMAIN b.reports : b.reports[i].kind \in Kind
    /\ queue \subseteq Order /\ round.due \subseteq queue
    /\ replaces \in 0..MaxReplaces /\ crashes \in 0..MaxCrashes
    /\ routed \in BOOLEAN
    /\ cursor \in 0..Len(book.reports)
    /\ cache \in [Order -> FinalKind \union {"none", "pending"}]
    /\ {pending, closed, waiting, tried, paid, met} \subseteq SUBSET Order
    /\ released \in [Order -> SUBSET FinalKind]
    /\ task \in [Thread -> [at : Step, call : {"none", "send", "poll", "cancel"},
                            order : Order \union {"none"}, next : Nat, last : Nat,
                            known : BOOLEAN]]
    /\ copy \in [Thread -> [use : Use, order : Order \union {"none"},
                            of : [cash : Nat, held : [Symbol -> Nat], owned : [Symbol -> Int]]]]
    /\ lost \subseteq Sum

(* The router sends gtc orders, a market order without a price.  A broker  *)
(* of its own persists, and expires what asks for it: a day order that is  *)
(* not expired does what a gtc order does.                                 *)
Init ==
    /\ BrokerInit
    /\ routed \in BOOLEAN
    /\ IF routed
       THEN /\ config = [short |-> TRUE, expiry |-> FALSE, durable |-> FALSE]
            /\ \A o \in Order :
                  /\ asked[o].tif = "gtc"
                  /\ asked[o].type = "market" => asked[o].price = 0
       ELSE config.expiry /\ config.durable
    /\ pending = {} /\ closed = {} /\ cursor = 0
    /\ waiting = {} /\ tried = {} /\ paid = {} /\ met = {}
    /\ cache = [o \in Order |-> "none"]
    /\ released = [o \in Order |-> {}]
    /\ task = [t \in Thread |-> Idle]
    /\ copy = [t \in Thread |-> NoCopy] /\ lost = {}

Goes(t, at) == task' = [task EXCEPT ![t].at = at]
Busy(t) == task[t].at # "idle" /\ task[t].call \in {"send", "cancel"}
Syncing(t) == task[t].at \in {"take", "apply"}
Meets(t, o) == met' = IF \E u \in Thread \ {t} : Syncing(u) THEN met \union {o} ELSE met

-----------------------------------------------------------------------------
(* The updates of the shared sums.                                         *)

\* what an order's reservation is a part of
SumsOf(o) == IF asked[o].side = "sell" THEN {asked[o].symbol}
             ELSE IF asked[o].price = 0 THEN {} ELSE {"cash"}

\* the book with the sums of S as the thread has read them
Recalled(t, S) ==
    LET c == copy[t].of IN
    [book EXCEPT !.cash = IF "cash" \in S THEN c.cash ELSE @,
                 !.held = [s \in Symbol |-> IF s \in S THEN c.held[s] ELSE @[s]],
                 !.owned = [s \in Symbol |-> IF s \in S THEN c.owned[s] ELSE @[s]]]

Uses(t, use) == copy[t].use = use
Reads(t, use, o) ==
    /\ copy' = [copy EXCEPT ![t] = [use |-> use, order |-> o, of |-> Sums(book)]]
    /\ UNCHANGED lost
\* the thread writes the sums of S, and goes on to the next use
Writes(t, S, next) ==
    /\ copy' = [copy EXCEPT ![t] = next]
    /\ lost' = IF Recalled(t, S) = book THEN lost ELSE lost \union S

-----------------------------------------------------------------------------
(* submit_order and _drive_paper_matching, on the executor.                *)

ReadToReserve(o) ==
    /\ task["executor"].at = "idle" /\ Uses("executor", "none")
    /\ Unused(o)
    /\ Reads("executor", "reserve", o)
    /\ UNCHANGED <<broker, router>>

Send(o) ==
    /\ task["executor"].at = "idle"
    /\ Uses("executor", "reserve") /\ copy["executor"].order = o
    /\ Submit(o, Recalled("executor", SumsOf(o)))
    /\ Writes("executor", SumsOf(o), NoCopy)
    /\ pending' = pending \union {o}
    /\ cache' = [cache EXCEPT ![o] = "pending"]
    /\ task' = [task EXCEPT !["executor"] = [Idle EXCEPT !.at = "drive", !.call = "send",
                                                         !.order = o]]
    /\ Meets("executor", o)
    /\ UNCHANGED <<closed, cursor, waiting, tried, paid, released>>

\* the round runs at the time at which this order, at least, is due
Drive(due) ==
    /\ task["executor"].at = "drive" /\ task["executor"].order \in due
    /\ BeginRound(due)
    /\ Goes("executor", "match")
    /\ UNCHANGED <<sums, pending, cache, closed, cursor, waiting, tried, paid, released, met>>

\* a market order fills whole
LegacyFill(o) == IF asked[o].type = "market" THEN book.open[o].left ELSE 0
Match(o) ==
    /\ task["executor"].at = "match" /\ Uses("executor", "none")
    /\ \/ TakeGone(o)
       \/ o \in Open(book) /\ LegacyFill(o) = 0 /\ TakeQuoted(o, LegacyFill(o))
    /\ UNCHANGED <<router, sums>>

\* it is acknowledged, and _execute_fill reads the position ...
ReadToFill(o) ==
    /\ task["executor"].at = "match" /\ Uses("executor", "none")
    /\ o \in round.due \intersect Open(book) /\ LegacyFill(o) > 0
    /\ book' = Acknowledged(book, o)
    /\ Reads("executor", "fill", o)
    /\ UNCHANGED <<asked, config, queue, round, disk, replaces, crashes, router>>

\* ... writes it with the fill ...
BookFill(o) ==
    /\ Uses("executor", "fill") /\ copy["executor"].order = o /\ o \in Open(book)
    /\ book' = Booked(Recalled("executor", {asked[o].symbol}), o, LegacyFill(o))
    /\ Writes("executor", {asked[o].symbol}, [NoCopy EXCEPT !.use = "booked", !.order = o])
    /\ UNCHANGED <<asked, config, queue, round, disk, replaces, crashes, router>>

\* ... reads it again to release what was reserved for a sale ...
ReadToSettle(o) ==
    /\ Uses("executor", "booked") /\ copy["executor"].order = o
    /\ Reads("executor", "settle", o)
    /\ UNCHANGED <<broker, router>>

\* ... and releases and reports; with that its entry is taken off the queue
SettleFill(o) ==
    /\ Uses("executor", "settle") /\ copy["executor"].order = o /\ o \in Open(book)
    /\ Take(o, Settled(Recalled("executor", SumsOf(o)), o, LegacyFill(o)), TRUE)
    /\ Writes("executor", SumsOf(o), NoCopy)
    /\ UNCHANGED router

Driven_NoSync ==
    /\ task["executor"].at = "match"
    /\ EndRound
    /\ Goes("executor", "look")
    /\ UNCHANGED <<sums, pending, cache, closed, cursor, waiting, tried, paid, released, met>>

Driven ==
    /\ task["executor"].at = "match"
    /\ EndRound
    /\ Goes("executor", "sync")
    /\ UNCHANGED <<sums, pending, cache, closed, cursor, waiting, tried, paid, released, met>>

\* the engine gets the fill, or keeps the order among its pending orders
Return ==
    LET o == task["executor"].order IN
    /\ task["executor"].at = "look"
    /\ IF cache[o] = "filled" THEN paid' = paid \union {o} /\ UNCHANGED waiting
       ELSE waiting' = waiting \union {o} /\ UNCHANGED paid
    /\ task' = [task EXCEPT !["executor"] = Idle]
    /\ UNCHANGED <<broker, sums, pending, cache, closed, cursor, tried, released, met>>

-----------------------------------------------------------------------------
(* _sync_paper_reports, on any thread.                                     *)

SyncRead(t) ==
    /\ task[t].at = "sync"
    /\ IF cursor < Len(book.reports)
       THEN /\ task' = [task EXCEPT ![t].at = "take", ![t].next = cursor + 1,
                                    ![t].last = Len(book.reports)]
            /\ met' = met \union {task[u].order : u \in {v \in Thread \ {t} : Busy(v)}}
       ELSE /\ Goes(t, IF task[t].call = "cancel" THEN "mark" ELSE "look")
            /\ UNCHANGED met
    /\ UNCHANGED <<broker, sums, pending, cache, closed, cursor, waiting, tried, paid, released>>

SyncTake(t) ==
    /\ task[t].at = "take" /\ task[t].next <= task[t].last
    /\ task' = [task EXCEPT ![t].at = "apply",
                            ![t].known = book.reports[task[t].next].order \in pending]
    /\ UNCHANGED <<broker, sums, pending, cache, closed, cursor, waiting, tried, paid, released, met>>

\* _record_paper_report_lifecycle: an end releases the order's reservation
Recorded(r, known) ==
    IF r.kind \in FinalKind /\ known THEN [released EXCEPT ![r.order] = @ \union {r.kind}]
    ELSE released

SyncApply(t) ==
    LET r == book.reports[task[t].next]
        final == r.kind \in FinalKind
    IN
    /\ task[t].at = "apply"
    /\ released' = Recorded(r, task[t].known)
    /\ cache' = [cache EXCEPT ![r.order] = IF final THEN r.kind ELSE "pending"]
    /\ closed' = IF final THEN closed \union {r.order} ELSE closed
    /\ pending' = IF final THEN pending \ {r.order} ELSE pending
    /\ task' = [task EXCEPT ![t].at = "take", ![t].next = @ + 1]
    /\ UNCHANGED <<broker, sums, cursor, waiting, tried, paid, met>>

SyncEnd(t) ==
    /\ task[t].at = "take" /\ task[t].next > task[t].last
    /\ cursor' = Len(book.reports)
    /\ Goes(t, IF task[t].call = "cancel" THEN "mark" ELSE "look")
    /\ UNCHANGED <<broker, sums, pending, cache, closed, waiting, tried, paid, released, met>>

-----------------------------------------------------------------------------
(* The watchers.                                                           *)

\* is_order_terminal: the mapping answers, or get_order_status does
Poll(t, o) ==
    /\ task[t].at = "idle" /\ o \in waiting
    /\ IF o \in closed
       THEN waiting' = waiting \ {o} /\ pending' = pending \ {o} /\ UNCHANGED task
       ELSE /\ task' = [task EXCEPT ![t] = [Idle EXCEPT !.at = "sync", !.call = "poll",
                                                        !.order = o]]
            /\ UNCHANGED <<waiting, pending>>
    /\ UNCHANGED <<broker, sums, cache, closed, cursor, tried, paid, released, met>>

\* _cancel_order_paper reads the pending order and drops it
Claim(t, o) ==
    /\ task[t].at = "idle" /\ o \in waiting \ (tried \union closed)
    /\ tried' = tried \union {o}
    /\ pending' = pending \ {o}
    /\ task' = [task EXCEPT ![t] = [Idle EXCEPT !.at = "cancel", !.call = "cancel",
                                                !.order = o, !.known = o \in pending]]
    /\ Meets(t, o)
    /\ UNCHANGED <<broker, sums, cache, closed, cursor, waiting, paid, released>>

ReadToRelease(t) ==
    /\ task[t].at = "cancel" /\ Uses(t, "none")
    /\ task[t].order \in Open(book)
    /\ Reads(t, "release", task[t].order)
    /\ UNCHANGED <<broker, router>>

\* it cancels an open order, and records the end itself
CancelOpen(t) ==
    LET o == task[t].order IN
    /\ task[t].at = "cancel" /\ Uses(t, "release")
    /\ Cancel(o, Recalled(t, SumsOf(o)))
    /\ Writes(t, SumsOf(o), NoCopy)
    /\ released' = IF task[t].known THEN [released EXCEPT ![o] = @ \union {"cancelled"}]
                   ELSE released
    /\ Goes(t, "sync")
    /\ UNCHANGED <<pending, cache, closed, cursor, waiting, tried, paid, met>>

CancelGone_Releases(t) ==
    /\ task[t].at = "cancel" /\ Uses(t, "none") /\ task[t].order \notin Open(book)
    /\ released' = IF task[t].known
                   THEN [released EXCEPT ![task[t].order] = @ \union {"cancelled"}]
                   ELSE released
    /\ Goes(t, "mark")
    /\ UNCHANGED <<broker, sums, pending, cache, closed, cursor, waiting, tried, paid, met>>

CancelGone(t) ==
    /\ task[t].at = "cancel" /\ Uses(t, "none") /\ task[t].order \notin Open(book)
    /\ Goes(t, "mark")
    /\ UNCHANGED <<broker, sums, pending, cache, closed, cursor, waiting, tried, paid, released, met>>

\* whatever happened, the order counts as cancelled; then its status is read
Mark(t) ==
    /\ task[t].at = "mark"
    /\ cache' = [cache EXCEPT ![task[t].order] = "cancelled"]
    /\ task' = [task EXCEPT ![t].at = "sync", ![t].call = "poll"]
    /\ UNCHANGED <<broker, sums, pending, closed, cursor, waiting, tried, paid, released, met>>

Look(t) ==
    /\ t # "executor" /\ task[t].at = "look"
    /\ waiting' = IF cache[task[t].order] \in FinalKind THEN waiting \ {task[t].order}
                  ELSE waiting
    /\ task' = [task EXCEPT ![t] = Idle]
    /\ UNCHANGED <<broker, sums, pending, cache, closed, cursor, tried, paid, released, met>>

Routed ==
    \/ \E o \in Order :
          \/ ReadToReserve(o) \/ Send(o) \/ Match(o)
          \/ ReadToFill(o) \/ BookFill(o) \/ ReadToSettle(o) \/ SettleFill(o)
    \/ \E due \in SUBSET queue : Drive(due)
    \/ Driven \/ Return
    \/ \E t \in Thread : SyncRead(t) \/ SyncTake(t) \/ SyncApply(t) \/ SyncEnd(t)
    \/ \E t \in Watcher, o \in Order : Poll(t, o) \/ Claim(t, o)
    \/ \E t \in Watcher :
          \/ ReadToRelease(t) \/ CancelOpen(t) \/ CancelGone(t) \/ Mark(t) \/ Look(t)

Next ==
    /\ UNCHANGED routed
    /\ IF routed THEN Routed ELSE BrokerNext /\ UNCHANGED <<router, sums>>

Spec == Init /\ [][Next]_vars

-----------------------------------------------------------------------------
(* What the two promise.                                                   *)

\* what is left of the open orders, in cash and in the quantity of a symbol
CashOpen(b) ==
    [o \in Order |-> IF o \in Open(b) /\ asked[o].side = "buy"
                      THEN b.open[o].left * b.open[o].price ELSE 0]
SaleOpen(b, s) ==
    [o \in Order |-> IF o \in Open(b) /\ asked[o].side = "sell" /\ asked[o].symbol = s
                      THEN b.open[o].left ELSE 0]

\* The cash and the quantities reserved cover what is left of the open orders,
\* and are exactly that as long as no order was replaced: a fill, a cancel, an
\* expiry and a restart give back neither more nor less than was reserved.
\* (A replacement of an order that filled in part reserves the filled part for
\* good.)  So it is with every sum of which no thread undid another's update;
\* nothing in the code keeps the threads from that.
ReservationsCover ==
    /\ "cash" \notin lost =>
          /\ book.cash >= SumFunction(CashOpen(book))
          /\ replaces = 0 => book.cash = SumFunction(CashOpen(book))
    /\ \A s \in Symbol \ lost :
          /\ book.held[s] >= SumFunction(SaleOpen(book, s))
          /\ replaces = 0 => book.held[s] = SumFunction(SaleOpen(book, s))

\* what the reports say was filled, of an order and of a symbol
Fills(b, o) == SumFunctionOnSet([i \in DOMAIN b.reports |-> b.reports[i].qty], ReportsOf(b, o))
Bought(b, s) ==
    [i \in DOMAIN b.reports |->
        LET r == b.reports[i] IN
        IF asked[r.order].symbol # s THEN 0
        ELSE IF asked[r.order].side = "buy" THEN r.qty ELSE -r.qty]

\* what the executor has written to a position and not yet reported
Unreported(s) ==
    LET c == copy["executor"] IN
    IF c.use \notin {"booked", "settle"} \/ asked[c.order].symbol # s THEN 0
    ELSE IF asked[c.order].side = "buy" THEN book.open[c.order].left
    ELSE -book.open[c.order].left

\* A position is what the fills of its symbol add up to, the reported ones and
\* the one under way, and an open order has filled what its own reports say,
\* also after a crash in the middle of a matching round.  A position of which
\* a thread undid another's update is excepted: a cancelled sale may put back
\* the position that it read before a fill, and the fill is gone.
PositionsMatchFills ==
    /\ \A s \in Symbol \ lost : book.owned[s] = SumFunction(Bought(book, s)) + Unreported(s)
    /\ \A o \in Open(book) : book.open[o].filled = Fills(book, o)

Ends(b, o) == {i \in ReportsOf(b, o) : b.reports[i].kind \in FinalKind}

\* An order that ends is reported once and last, and is open until then: no
\* cancel between two steps of a round, no entry left on the queue and no
\* restart lets an order that ended fill or end again.
EndsOnce ==
    \A o \in Order :
        /\ \A i \in Ends(book, o), j \in ReportsOf(book, o) : j <= i
        /\ Ends(book, o) # {} => o \notin Open(book)
        /\ ReportsOf(book, o) # {} /\ Ends(book, o) = {} => o \in Open(book)

\* Only the end that the broker reports is recorded on a reservation, by the
\* cancel as by the reports that any thread handles.
ReleasedAsEnded ==
    \A o \in Order, k \in FinalKind :
        k \in released[o] => \E i \in Ends(book, o) : book.reports[i].kind = k

\* When the threads rest, the end of every order that was sent and cancelled
\* while no other thread synced is known everywhere: to the status cache, the
\* mapping and the reservation, and the engine has the fill, if it filled.
EndsAreSeen ==
    (routed /\ \A t \in Thread : task[t].at = "idle") =>
        \A o \in Order \ met : \A i \in Ends(book, o) :
            LET k == book.reports[i].kind IN
            /\ cache[o] = k /\ released[o] = {k}
            /\ o \in closed /\ o \notin pending
            /\ k = "filled" => o \in paid
=============================================================================
