----------------------------- MODULE FeatureLog -----------------------------
(***************************************************************************)
(* The training file of the swing model (src/continuous_learning.py): the  *)
(* trader reads it whole, adds a row and writes it back for every decision *)
(* (log_daily_features); the trainer, another process, reads it, asks for  *)
(* prices for a long while, and writes it back with the labels filled in   *)
(* (retrain_model_if_needed).  Nothing locks the file, and a rewrite       *)
(* starts by emptying it: a reader meets any part of the rows already      *)
(* written, or an error.                                                   *)
(***************************************************************************)
EXTENDS Integers, FiniteSets

CONSTANTS Symbol,
          Ahead,       \* trading days until a row can be labelled
          History,     \* days of prices the trainer asks for
          MinRows,     \* labelled rows a retrain needs more of
          LastDay      \* bound

VARIABLES day,
          file,        \* rows on the disk, "missing" before the first
          draft,       \* process -> what it will write; Nothing when not at work
          writing,     \* the processes between truncation and the last row
          model,       \* day of the latest swing model, 0 for the old one
          logged,      \* history: rows whose write was completed
          labelled,    \* history: rows whose label was written
          torn         \* history: the two were at work at once, or one died writing

vars == <<day, file, draft, writing, model, logged, labelled, torn>>

Process == {"trader", "trainer"}
Row == [day : 1..LastDay, symbol : Symbol, target : {"none", "known"}]
Key(r) == <<r.day, r.symbol>>
Keys(rows) == {Key(r) : r \in rows}
Nothing == [rows |-> {}, at |-> "rest"]
Missing == [rows |-> {}, at |-> "missing"]

\* What read_csv makes of the file: all of it, or while it is being written
\* some of the rows to come.  An error ends the operation.
Readable ==
  IF writing # {} THEN UNION {SUBSET draft[p].rows : p \in writing}
  ELSE IF file.at = "there" THEN {file.rows} ELSE {}

Begins(p, rows) ==
  /\ draft' = [draft EXCEPT ![p] = [rows |-> rows, at |-> "work"]]
  /\ torn' = (torn \/ \E q \in Process \ {p} : draft[q] # Nothing)

\* log_daily_features: one row a day and symbol, the first one counts.
TraderReads ==
  \E s \in Symbol :
    LET row == [day |-> day, symbol |-> s, target |-> "none"]
    IN /\ draft["trader"] = Nothing
       /\ \/ file = Missing /\ Begins("trader", {row})
          \/ \E rows \in Readable :
               /\ Key(row) \notin Keys(rows)
               /\ Begins("trader", rows \cup {row})
       /\ UNCHANGED <<day, file, writing, model, logged, labelled>>

\* The price history ends yesterday and reaches History days back.
Labelable(r) == r.day >= day - History /\ r.day + Ahead < day

Label(r) == [r EXCEPT !.target = "known"]

\* retrain_model_if_needed: labels what it got the prices for.  Nothing is
\* written when no row was labelled.
TrainerReads ==
  /\ draft["trainer"] = Nothing
  /\ \E rows \in Readable, priced \in SUBSET Symbol :
       LET old == {r \in rows : r.target = "none" /\ Labelable(r) /\ r.symbol \in priced}
       IN /\ old # {}
          /\ Begins("trainer", (rows \ old) \cup {Label(r) : r \in old})
  /\ UNCHANGED <<day, file, writing, model, logged, labelled>>

Truncates(p) ==
  /\ draft[p] # Nothing
  /\ p \notin writing
  /\ writing' = writing \cup {p}
  /\ file' = [rows |-> {}, at |-> "there"]
  /\ UNCHANGED <<day, draft, model, logged, labelled, torn>>

\* Mutant: the rows without a label are left out of what is written.
WrittenLabelledOnly(p) ==
  IF p = "trainer" THEN {r \in draft[p].rows : r.target = "known"} ELSE draft[p].rows
Written(p) == draft[p].rows

\* The last row is on the disk; the trainer goes on to fit and replaces the
\* model file in one step when it has enough labels.
Finishes(p) ==
  /\ p \in writing
  /\ writing' = writing \ {p}
  /\ file' = [file EXCEPT !.rows = Written(p)]
  /\ draft' = [draft EXCEPT ![p] = Nothing]
  /\ logged' = logged \cup Keys(draft[p].rows)
  /\ labelled' = labelled \cup Keys({r \in draft[p].rows : r.target = "known"})
  /\ model' = IF p = "trainer" /\ Cardinality({r \in draft[p].rows : r.target = "known"})
                                    > MinRows
              THEN day ELSE model
  /\ UNCHANGED <<day, torn>>

\* A process that dies has written some of the rows, or none.
Dies(p) ==
  /\ draft[p] # Nothing
  /\ draft' = [draft EXCEPT ![p] = Nothing]
  /\ writing' = writing \ {p}
  /\ IF p \notin writing THEN UNCHANGED <<file, torn>>
     ELSE /\ \E rows \in SUBSET draft[p].rows : file' = [file EXCEPT !.rows = rows]
          /\ torn' = TRUE
  /\ UNCHANGED <<day, model, logged, labelled>>

\* Both are at rest at night.
NextDay ==
  /\ day < LastDay
  /\ \A p \in Process : draft[p] = Nothing
  /\ day' = day + 1
  /\ UNCHANGED <<file, draft, writing, model, logged, labelled, torn>>

Init ==
  /\ day = 1 /\ file = Missing
  /\ draft = [p \in Process |-> Nothing] /\ writing = {}
  /\ model = 0 /\ logged = {} /\ labelled = {} /\ torn = FALSE

Next ==
  \/ TraderReads \/ TrainerReads \/ NextDay
  \/ \E p \in Process : Truncates(p) \/ Finishes(p) \/ Dies(p)

Spec == Init /\ [][Next]_vars

TypeOK ==
  /\ day \in 1..LastDay
  /\ file.rows \subseteq Row /\ file.at \in {"missing", "there"}
  /\ \A p \in Process : draft[p].rows \subseteq Row /\ draft[p].at \in {"rest", "work"}
  /\ writing \subseteq Process /\ model \in 0..LastDay
  /\ logged \subseteq (1..LastDay) \X Symbol /\ labelled \subseteq logged
  /\ torn \in BOOLEAN

(* A row that was logged, and a label that was written, are still in the   *)
(* file whenever nobody is writing it, and a key has one row, unless the   *)
(* trader and the trainer were at work at the same time (the later writer  *)
(* puts back what it had read) or one of them died while writing.          *)
RowsLostOnlyInARace ==
  writing = {} /\ ~torn =>
    /\ Keys(file.rows) = logged
    /\ Keys({r \in file.rows : r.target = "known"}) = labelled
    /\ Cardinality(Keys(file.rows)) = Cardinality(file.rows)

(* Why: who is at work alone read every row logged, and writes them all    *)
(* back, no key twice.                                                     *)
LoggedRow == [day : Nat, symbol : Symbol, target : {"none", "known"}]
Known(rows) == {r \in rows : r.target = "known"}
KeysAreUnique(rows) == \A r, s \in rows : Key(r) = Key(s) => r = s
IsLog(rows) == IsFiniteSet(rows) /\ rows \subseteq LoggedRow /\ KeysAreUnique(rows)

WriterIsAlone ==
  /\ day \in Nat /\ writing \subseteq Process /\ DOMAIN draft = Process
  /\ DOMAIN file = {"rows", "at"}
  /\ ~torn =>
       /\ \E p \in Process : draft[p] = Nothing
       /\ \A p \in writing : draft[p] # Nothing
       /\ writing = {} =>
            IsLog(file.rows) /\ Keys(file.rows) = logged /\ Keys(Known(file.rows)) = labelled
       /\ \A p \in Process : draft[p] # Nothing =>
            /\ IsLog(draft[p].rows)
            /\ logged \subseteq Keys(draft[p].rows) /\ labelled \subseteq Keys(Known(draft[p].rows))
=============================================================================
