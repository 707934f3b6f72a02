--------------------------- MODULE MCGatewayOrders ---------------------------
(* Constant values with which TLC checks GatewayOrders.                    *)
EXTENDS GatewayOrders, TLC

CONSTANTS o1, o2

OneOrder == {o1}
TwoOrders == {o1, o2}

\* the orders are interchangeable
OrderSymmetry == Permutations(Order)
=============================================================================
