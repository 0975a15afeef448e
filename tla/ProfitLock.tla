----------------------------- MODULE ProfitLock -----------------------------
(***************************************************************************)
(* What order_executor.py promises of the "Patience Then Lock" exit, said  *)
(* without trackers, prices or files: each guarded position has a phase    *)
(* and a stop level.  Patience may turn into lock, lock never back into    *)
(* patience, and the level only rises until the position ends; only an     *)
(* add, which changes the cost basis, may re-derive it.                    *)
(***************************************************************************)
EXTENDS Naturals

CONSTANT Symbols

VARIABLES phase, level

Phase == {"none", "patience", "lock"}

Init == /\ phase = [s \in Symbols |-> "none"]
        /\ level = [s \in Symbols |-> 0]

\* A position comes under protection, fresh or restored.
Open(s) == phase[s] = "none" /\ phase'[s] # "none"

Tighten(s) == /\ phase[s] # "none" /\ phase'[s] # "none"
              /\ phase[s] = "lock" => phase'[s] = "lock" /\ level'[s] >= level[s]
              /\ level'[s] >= level[s]

\* A pyramid add: only behind an armed lock, which stays armed.
Rebase(s) == phase[s] = "lock" /\ phase'[s] = "lock"

End(s) == phase[s] # "none" /\ phase'[s] = "none" /\ level'[s] = 0

Idle(s) == phase'[s] = phase[s] /\ level'[s] = level[s]

Next == /\ phase' \in [Symbols -> Phase] /\ level' \in [Symbols -> Nat]
        /\ \A s \in Symbols : Open(s) \/ Tighten(s) \/ Rebase(s) \/ End(s) \/ Idle(s)

Spec == Init /\ [][Next]_<<phase, level>>
=============================================================================
