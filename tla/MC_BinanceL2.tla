---------------------------- MODULE MC_BinanceL2 ----------------------------
(* A small instance of the L2 builder for TLC: two prices, quantities 0..1,*)
(* three venue updates, one lost diff and one failed connect.              *)
EXTENDS BinanceL2

MCPrices == {1, 2}
=============================================================================
