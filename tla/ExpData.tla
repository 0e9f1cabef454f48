------------------------------- MODULE ExpData -------------------------------
(***************************************************************************)
(* Experience data and valuation data (src/R/data.R): what exp_data() makes  *)
(* of the columns it is given, what assigning a column does to it, and the   *)
(* lives val_from_exp_data() finds alive at a date.                         *)
(*                                                                         *)
(* The columns are read across: a row is one record's exposure-to-risk       *)
(* [id, start, end, died, count].  Rows are never reordered, and id says     *)
(* which record a row came from; it stands for the columns that are carried  *)
(* along.  Dates are clicks.                                                *)
(***************************************************************************)
EXTENDS Vectors

CONSTANTS
  Columns,  \* sequences of rows a user may give
  Periods,  \* experience periods [start, end] they may give
  Dates,    \* dates they may assign or ask for
  Counts    \* counts they may assign

RowType == [id : Nat, start : Int, end : Int, died : BOOLEAN, count : Int]
PeriodType == [start : Int, end : Int]

\* Each row is a record of its own.
AreRecords(rows) ==
  /\ rows \in Seq(RowType)
  /\ \A m, n \in DOMAIN rows : rows[m].id = rows[n].id => m = n

ASSUME DataAssumption ==
  /\ \A rows \in Columns : AreRecords(rows)
  /\ Periods \subseteq PeriodType
  /\ Dates \subseteq Int /\ Counts \subseteq Int

VARIABLES
  given,     \* the columns and the period exp_data() is called with
  data,      \* the rows of the exp_data, once there is one
  assigned,  \* history: whether a column has been assigned since
  asAt,      \* the date of the val_data
  alive,     \* its rows
  step       \* "columns", "data", "valued" or "refused"; before them, those of the caller

dataVars == <<given, data, assigned, asAt, alive, step>>

Period == given.period

DataInit ==
  /\ given \in [columns : Columns, period : Periods]
  /\ data = <<>>
  /\ assigned = FALSE
  /\ asAt = given.period.end
  /\ alive = <<>>
  /\ step = "columns"

-----------------------------------------------------------------------------
(* new_exp_data() and new_val_data().                                       *)

Counted(rows) == Where(rows, {n \in DOMAIN rows : rows[n].count > 0})

\* Missing dates and the like are refused before this.
Improper(row) == row.start > row.end \/ (row.start = row.end /\ row.died)

\* Mistake: the end of the period is left out of it.
TrimmedBefore(row, period) ==
  LET keepEnd == row.end < period.end
  IN [row EXCEPT !.start = IF row.start >= period.start THEN row.start ELSE period.start,
                 !.end = IF keepEnd THEN row.end ELSE period.end,
                 !.died = keepEnd /\ row.died]

\* Mistake: a death after the period is left in.
TrimmedToDeath(row, period) ==
  LET keepEnd == row.end <= period.end
  IN [row EXCEPT !.start = IF row.start >= period.start THEN row.start ELSE period.start,
                 !.end = IF keepEnd THEN row.end ELSE period.end]

\* The part of an exposure in the period.  A death at its end is in it.
Trimmed(row, period) ==
  LET keepEnd == row.end <= period.end
  IN [row EXCEPT !.start = IF row.start >= period.start THEN row.start ELSE period.start,
                 !.end = IF keepEnd THEN row.end ELSE period.end,
                 !.died = keepEnd /\ row.died]

HasE2R(rows) == {n \in DOMAIN rows : rows[n].start < rows[n].end}

\* All rows are trimmed, and those with nothing left dropped.
TrimRows(rows, period) ==
  LET trimmed == [n \in DOMAIN rows |-> Trimmed(rows[n], period)]
  IN Where(trimmed, HasE2R(trimmed))

ExposureColumns == {"start", "end", "died"}
WholeSet == "all"

\* Is the column new, or is every column?
IsNew(column, newColumn) == newColumn \in {column, WholeSet}

\* Mistake: rows are trimmed when the data is made, not when it is changed.
TrimsOnlyNewData(newColumn) == newColumn = WholeSet

Trims(newColumn) == \E column \in ExposureColumns : IsNew(column, newColumn)

\* process_data_columns comes first, so a row that counts for nothing is not looked at.
Considered(rows, newColumn) == IF IsNew("count", newColumn) THEN Counted(rows) ELSE rows

RefusesRows(rows, newColumn) ==
  \/ IsNew("count", newColumn) /\ \E n \in DOMAIN rows : rows[n].count < 0
  \/ /\ Trims(newColumn)
     /\ \E n \in DOMAIN Considered(rows, newColumn) : Improper(Considered(rows, newColumn)[n])

Kept(rows, period, newColumn) ==
  IF Trims(newColumn) THEN TrimRows(Considered(rows, newColumn), period)
  ELSE Considered(rows, newColumn)

-----------------------------------------------------------------------------
Empty(period) == period.start >= period.end

MakeData ==
  /\ step = "columns"
  /\ ~Empty(Period) /\ ~RefusesRows(given.columns, WholeSet)
  /\ data' = Kept(given.columns, Period, WholeSet)
  /\ step' = "data"
  /\ UNCHANGED <<given, assigned, asAt, alive>>

RefuseData ==
  /\ step = "columns"
  /\ Empty(Period) \/ RefusesRows(given.columns, WholeSet)
  /\ step' = "refused"
  /\ UNCHANGED <<given, data, assigned, asAt, alive>>

Assignable == [start |-> Dates, end |-> Dates, died |-> BOOLEAN, count |-> Counts]

\* x$column <- values, with a value for one row changed.  An error leaves x alone.
AssignColumn ==
  /\ step = "data"
  /\ \E n \in DOMAIN data, column \in DOMAIN Assignable : \E value \in Assignable[column] :
       LET rows == [data EXCEPT ![n][column] = value]
       IN ~RefusesRows(rows, column) /\ data' = Kept(rows, Period, column)
  /\ assigned' = TRUE
  /\ UNCHANGED <<given, asAt, alive, step>>

\* In its exposure, or at the end of it without having died.
IsAlive(row, date) ==
  \/ row.start <= date /\ date < row.end
  \/ date = row.end /\ ~row.died

\* The end of the period is the default date, and one of those asked for.
ValueData ==
  /\ step = "data"
  /\ \E date \in Dates :
       /\ asAt' = date
       /\ alive' = Where(data, {n \in DOMAIN data : IsAlive(data[n], date)})
  /\ step' = "valued"
  /\ UNCHANGED <<given, data, assigned>>

-----------------------------------------------------------------------------
\* Whatever was given to exp_data(), and whatever `$<-` has assigned since, every row
\* is one the engine accepts: of positive length, within the period, counting for
\* something (data.R:112-124), so buildTimeGrid refuses none.  `[[<-` and `[<-` have
\* no method for experience data and are not modelled.
EveryRowIsUsable ==
  \A n \in DOMAIN data :
    /\ Period.start <= data[n].start
    /\ data[n].start < data[n].end
    /\ data[n].end <= Period.end
    /\ data[n].count > 0

Exposed(rows) == Total([n \in DOMAIN rows |-> rows[n].end - rows[n].start])
Deaths(rows) == Total([n \in DOMAIN rows |-> IF rows[n].died THEN 1 ELSE 0])

\* Consecutive periods add up: cut anywhere in two, the period's exposure is that of
\* the parts, and no death is lost at the cut or counted on both sides of it
\* (data.R:266).
PeriodsAddUp ==
  step = "data" /\ ~assigned =>
    \A cut \in Period.start + 1 .. Period.end - 1 :
      LET early == Kept(given.columns, [Period EXCEPT !.end = cut], WholeSet)
          late == Kept(given.columns, [Period EXCEPT !.start = cut], WholeSet)
      IN /\ Exposed(early) + Exposed(late) = Exposed(data)
         /\ Deaths(early) + Deaths(late) = Deaths(data)

\* The valuation of a date holds those of the data who were alive then, though
\* what happened to them after the period has been trimmed away (data.R:159).
ValuationIsOfTheLiving ==
  step = "valued" /\ ~assigned =>
    {alive[n].id : n \in DOMAIN alive} =
      {given.columns[m].id : m \in {k \in DOMAIN given.columns :
         /\ \E n \in DOMAIN data : data[n].id = given.columns[k].id
         /\ Period.start <= asAt /\ asAt <= Period.end
         /\ IsAlive(given.columns[k], asAt)}}
=============================================================================
