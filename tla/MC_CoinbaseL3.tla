--------------------------- MODULE MC_CoinbaseL3 ---------------------------
(* A small instance of CoinbaseL3: two buy orders and one sell order, the  *)
(* first buy and the sell resting before the builder starts.               *)
EXTENDS CoinbaseL3, TLC

CONSTANTS o1, o2, o3

MCOrderIds == {o1, o2, o3}
MCBuys == {o1, o2}
MCInitOrders ==
  (o1 :> [side |-> "buy", price |-> 1, size |-> 2])
    @@ (o3 :> [side |-> "sell", price |-> 2, size |-> 1])
=============================================================================
