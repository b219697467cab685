---------------------------- MODULE MCOrderBook ----------------------------
(***************************************************************************)
(* OrderBook and what it promises, on three order ids.                     *)
(***************************************************************************)
EXTENDS OrderBook, TLC

\* The ids are uuids: nothing depends on which is which.
Symmetry == Permutations(OrderId)

=============================================================================
