-------------------------- MODULE MCOrderExecutor --------------------------
(* US figures (config.py, trading_costs.py) on a grid of ticks that has a   *)
(* price in every tier of the trailing gap.                                 *)
EXTENDS OrderExecutor

MCPrice == {960, 1000, 1003, 1008, 1012, 1035}
=============================================================================
