---------------------------- MODULE MCPaperRouter ----------------------------
(* Two orders, one symbol, the requests that take every branch.            *)
EXTENDS PaperRouter, TLC

CONSTANTS o1, o2

TwoOrders == {o1, o2}

Ask(side, type, tif, price) ==
    [symbol |-> "s", side |-> side, type |-> type, tif |-> tif, qty |-> 2, price |-> price]

Asks == {Ask("buy", "limit", "gtc", 1), Ask("sell", "limit", "gtc", 2),
         Ask("buy", "market", "gtc", 0), Ask("sell", "market", "gtc", 0),
         Ask("sell", "market", "ioc", 0), Ask("buy", "limit", "day", 2),
         Ask("sell", "limit", "fok", 1)}
\* the orders are interchangeable
OrderSymmetry == Permutations(Order)
=============================================================================
