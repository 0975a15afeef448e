----------------------------- MODULE MCTradeDay -----------------------------
(***************************************************************************)
(* One session of the trader and the morning of the next.                  *)
(***************************************************************************)
EXTENDS TradeDay

Phase(name, d) == [name |-> name, day |-> d]
Sessions ==
  <<Phase("pre", 1), Phase("early", 1), Phase("late", 1), Phase("close", 1),
    Phase("after", 1), Phase("pre", 2), Phase("early", 2)>>
=============================================================================
