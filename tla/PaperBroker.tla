----------------------------- MODULE PaperBroker -----------------------------
(***************************************************************************)
(* The internal paper venue (app/execution/paper_broker.py): open orders,  *)
(* the cash and the quantities they reserve, the positions, the queue of   *)
(* orders to match, the execution reports, and the snapshot on disk.       *)
(*                                                                         *)
(* A matching round takes the due orders off the queue one after another   *)
(* and tries each against its market; here every order taken is a step, so *)
(* that a caller on another thread, or a crash, may come between two.      *)
(* Prices and depth come in as what a market lets an order fill; latency   *)
(* as the choice of the orders that are due.  Balance, fees and slippage   *)
(* are left out: a purchase may be refused for want of cash at any time.   *)
(* Strict rejects, venue sessions and the passive queue are never enabled  *)
(* in the repository and are left out.                                     *)
(***************************************************************************)
EXTENDS Integers, Sequences, FiniteSetsExt

CONSTANTS
    Order,       \* client ids
    Request,     \* what an order may ask for
    Price,       \* limit prices; a replacement chooses one
    MaxReplaces, \* bound on replacements
    MaxCrashes   \* bound on crashes

Symbol == {r.symbol : r \in Request}
NoOrder == [qty |-> 0]       \* no client id of Order is open under it

ASSUME OrderAssumption == IsFiniteSet(Order) /\ "none" \notin Order
ASSUME BoundAssumption == {MaxReplaces, MaxCrashes} \subseteq Nat
ASSUME PriceAssumption == Price \subseteq Nat \ {0}
ASSUME RequestAssumption ==
    \A r \in Request :
        /\ r.side \in {"buy", "sell"} /\ r.type \in {"market", "limit"}
        /\ r.tif \in {"gtc", "ioc", "fok", "day"} /\ r.qty \in Nat \ {0}
        /\ r.price \in Price \union {0}               \* 0: no limit price
        /\ r.type = "limit" => r.price # 0

VARIABLES
    asked,     \* what each order asks for, were it submitted
    config,    \* PaperBrokerConfig: short selling, expiry, persistence
    book,      \* open_orders, reserved_cash, positions, execution_reports
    queue,     \* the client ids on _matching_heap
    round,     \* the matching round: whether it runs and reported, what is due
    disk,      \* the book as it was last persisted
    replaces,  \* replacements so far
    crashes    \* crashes so far

broker == <<asked, config, book, queue, round, disk, replaces, crashes>>

FinalKind == {"filled", "cancelled", "expired"}
Kind == FinalKind \union {"acknowledged", "partial", "replaced"}

NoRound == [on |-> FALSE, due |-> {}, reported |-> FALSE]
EmptyBook ==
    [open |-> [o \in Order |-> NoOrder],
     cash |-> 0,                                  \* reserved_cash
     held |-> [s \in Symbol |-> 0],               \* reserved_sell_qty
     owned |-> [s \in Symbol |-> 0],              \* the position's quantity
     reports |-> <<>>]

Open(b) == {o \in Order : b.open[o] # NoOrder}
ReportsOf(b, o) == {i \in DOMAIN b.reports : b.reports[i].order = o}
Unused(o) == o \notin Open(book) /\ ReportsOf(book, o) = {}
Less(a, n) == IF a > n THEN a - n ELSE 0

-----------------------------------------------------------------------------
(* What a call does to the book.                                           *)

\* _reserve_for_order
Reserve(b, o, d) ==
    IF asked[o].side = "buy" THEN [b EXCEPT !.cash = @ + d.qty * d.price]
    ELSE [b EXCEPT !.held[asked[o].symbol] = @ + d.qty]

\* _release_reservation, for n of the order's quantity
Release(b, o, n) ==
    IF asked[o].side = "buy" THEN [b EXCEPT !.cash = Less(@, n * b.open[o].price)]
    ELSE [b EXCEPT !.held[asked[o].symbol] = Less(@, n)]

\* _validate_reservation answers from the position for a sale only
InventoryFor(b, o, n) ==
    \/ asked[o].side = "buy"
    \/ config.short
    \/ b.owned[asked[o].symbol] - b.held[asked[o].symbol] >= n

Reported(b, o, kind, n) ==
    [b EXCEPT !.reports = Append(@, [order |-> o, kind |-> kind, qty |-> n])]

Placed(b, o) ==
    LET d == [qty |-> asked[o].qty, left |-> asked[o].qty, filled |-> 0,
              price |-> asked[o].price, acked |-> FALSE]
    IN [Reserve(b, o, d) EXCEPT !.open[o] = d]

\* the first time an order is taken off the queue it is acknowledged
Acknowledged(b, o) ==
    IF b.open[o].acked THEN b
    ELSE Reported([b EXCEPT !.open[o].acked = TRUE], o, "acknowledged", 0)

Ended_Whole(b, o, kind) ==
    Reported([Release(b, o, b.open[o].qty) EXCEPT !.open[o] = NoOrder], o, kind, 0)
Ended_StaysOpen(b, o, kind) == Reported(Release(b, o, b.open[o].left), o, kind, 0)
\* cancel_order and _expire_or_cancel: release what is left, report, forget
Ended(b, o, kind) ==
    Reported([Release(b, o, b.open[o].left) EXCEPT !.open[o] = NoOrder], o, kind, 0)

\* _execute_fill changes the position ...
Booked(b, o, n) ==
    [b EXCEPT !.owned[asked[o].symbol] = IF asked[o].side = "buy" THEN @ + n ELSE @ - n]
\* ... then releases what filled, reports, and forgets an order that is done
Settled(b, o, n) ==
    LET d == b.open[o]
        all == n = d.left
    IN Reported(
         [Release(b, o, n) EXCEPT
            !.open[o] = IF all THEN NoOrder
                        ELSE [d EXCEPT !.left = @ - n, !.filled = @ + n]],
         o, IF all THEN "filled" ELSE "partial", n)
Filled(b, o, n) == Settled(Booked(b, o, n), o, n)

\* _attempt_match where the market lets the order fill n
Matched(b, o, n) ==
    IF n = 0 /\ asked[o].tif \in {"ioc", "fok"} THEN Ended(b, o, "cancelled")
    ELSE IF n = 0 THEN b
    ELSE IF asked[o].tif = "fok" /\ n < b.open[o].left THEN Ended(b, o, "cancelled")
    ELSE IF asked[o].tif = "ioc" /\ n < b.open[o].left
         THEN Ended(Filled(b, o, n), o, "cancelled")
    ELSE Filled(b, o, n)

-----------------------------------------------------------------------------
(* The calls, and the steps of a matching round.                           *)

\* _auto_persist
Save == disk' = IF config.durable THEN book' ELSE disk

\* b: the book as the caller has read it
Submit(o, b) ==
    /\ Unused(o) /\ InventoryFor(b, o, asked[o].qty)
    /\ book' = Placed(b, o)
    /\ queue' = queue \union {o}
    /\ Save
    /\ UNCHANGED <<asked, config, round, replaces, crashes>>

\* The order's entry stays on the queue.
Cancel(o, b) ==
    /\ o \in Open(book)
    /\ book' = Ended(b, o, "cancelled")
    /\ Save
    /\ UNCHANGED <<asked, config, queue, round, replaces, crashes>>

ReplaceWith_Requantify(o, p, n) ==
    LET d == [book.open[o] EXCEPT !.qty = n, !.left = n, !.price = p]
        freed == Release(book, o, book.open[o].left)
    IN /\ InventoryFor(freed, o, n)
       /\ book' = Reported([Reserve(freed, o, d) EXCEPT !.open[o] = d], o, "replaced", 0)
       /\ Save

(* replace_order puts n more of the order in the market at price p.  The   *)
(* reservation it makes is for the whole order, what has filled included;  *)
(* so is the one it puts back when the replacement is refused.             *)
ReplaceWith(o, p, n) ==
    LET d == [book.open[o] EXCEPT !.qty = book.open[o].filled + n, !.left = n,
                                  !.price = p]
        freed == Release(book, o, book.open[o].left)
    IN \/ /\ InventoryFor(freed, o, n)
          /\ book' = Reported([Reserve(freed, o, d) EXCEPT !.open[o] = d], o, "replaced", 0)
          /\ Save
       \/ /\ ~InventoryFor(freed, o, n) \/ (asked[o].side = "buy" /\ asked[o].type = "limit")
          /\ book' = Reserve(freed, o, book.open[o])
          /\ UNCHANGED disk

Replace(o) ==
    /\ o \in Open(book) /\ replaces < MaxReplaces
    /\ \E p \in Price \union {book.open[o].price},
          n \in {r.qty : r \in Request} \union {book.open[o].left} :
          ReplaceWith(o, p, n)
    /\ replaces' = replaces + 1
    /\ UNCHANGED <<asked, config, queue, round, crashes>>

(* process_matching_detailed: every entry that is due is taken once.       *)
BeginRound(due) ==
    /\ ~round.on
    /\ round' = [on |-> TRUE, due |-> due, reported |-> FALSE]
    /\ UNCHANGED <<asked, config, book, queue, disk, replaces, crashes>>

\* take o off the queue; the book becomes b, and o waits again if it may
Take(o, b, again) ==
    /\ book' = b
    /\ queue' = IF again /\ o \in Open(b) THEN queue ELSE queue \ {o}
    /\ round' = [round EXCEPT !.due = @ \ {o}, !.reported = @ \/ b.reports # book.reports]
    /\ UNCHANGED <<asked, config, disk, replaces, crashes>>

TakeGone(o) ==
    o \in round.due /\ o \notin Open(book) /\ Take(o, book, FALSE)

\* no market for its symbol: the order is acknowledged and leaves the queue
TakeUnquoted(o) ==
    o \in round.due /\ o \in Open(book) /\ Take(o, Acknowledged(book, o), FALSE)

\* a stale or untrustworthy book: nothing is tried, not even for IOC and FOK
TakeStale(o) ==
    o \in round.due /\ o \in Open(book) /\ Take(o, Acknowledged(book, o), TRUE)

\* the market lets the order fill n
TakeQuoted(o, n) ==
    o \in round.due /\ Take(o, Matched(Acknowledged(book, o), o, n), TRUE)

\* _expire_orders_if_needed, after the last order was taken
Expires(o) == config.expiry /\ o \in Open(book) /\ asked[o].tif = "day"
Expire(o) ==
    /\ round.on /\ round.due = {} /\ Expires(o)
    /\ book' = Ended(book, o, "expired")
    /\ round' = [round EXCEPT !.reported = TRUE]
    /\ UNCHANGED <<asked, config, queue, disk, replaces, crashes>>

EndRound ==
    /\ round.on /\ round.due = {} /\ \A o \in Order : ~Expires(o)
    /\ round' = NoRound
    /\ disk' = IF config.durable /\ round.reported THEN book ELSE disk
    /\ UNCHANGED <<asked, config, book, queue, replaces, crashes>>

CrashAndRestore_NoReports ==
    /\ config.durable /\ crashes < MaxCrashes
    /\ book' = [disk EXCEPT !.reports = <<>>]
    /\ queue' = Open(disk)
    /\ round' = NoRound
    /\ crashes' = crashes + 1
    /\ UNCHANGED <<asked, config, disk, replaces>>

(* The process dies and restore_from_durable_state rebuilds the broker.    *)
CrashAndRestore ==
    /\ config.durable /\ crashes < MaxCrashes
    /\ book' = disk
    /\ queue' = Open(disk)
    /\ round' = NoRound
    /\ crashes' = crashes + 1
    /\ UNCHANGED <<asked, config, disk, replaces>>

BrokerInit ==
    /\ asked \in [Order -> Request]
    /\ config \in [short : BOOLEAN, expiry : BOOLEAN, durable : BOOLEAN]
    /\ book = EmptyBook /\ disk = EmptyBook
    /\ queue = {} /\ round = NoRound
    /\ replaces = 0 /\ crashes = 0

(* One caller that waits for every call to return.                         *)
BrokerNext ==
    \/ ~round.on /\ \E o \in Order : Submit(o, book) \/ Cancel(o, book) \/ Replace(o)
    \/ \E due \in SUBSET queue : BeginRound(due)
    \/ \E o \in Order : TakeGone(o) \/ TakeUnquoted(o) \/ TakeStale(o) \/ Expire(o)
    \/ \E o \in Open(book) : \E n \in 0..book.open[o].left : TakeQuoted(o, n)
    \/ EndRound
    \/ CrashAndRestore
=============================================================================
