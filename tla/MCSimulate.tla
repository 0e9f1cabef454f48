----------------------------- MODULE MCSimulate ------------------------------
EXTENDS Simulate

\* A calendar of years of 24 clicks, six days of four: entering in the morning, at
\* midday, in the evening and at the turn of a day, leaving before, in, at the end
\* of and after the period, or with no date of its own.
MCLives == [start : {Missing, 1, 9, 10, 11, 13}, cap : {Missing} \union 9 .. 33]

Short == {life \in MCLives : life.start \in {Missing, 11} /\ life.cap \in {Missing, 14}}

MCPopulations ==
  {<<life>> : life \in MCLives} \union {<<a, b>> : a \in Short, b \in Short}

\* Exposures that begin and end before, at, in, at the end of and after a period.
Kinds ==
  [start : 7 .. 12, end : 7 .. 13, died : BOOLEAN, count : {-1, 0, 1}]

Row(e, id) ==
  [id |-> id, start |-> e.start, end |-> e.end, died |-> e.died, count |-> e.count]

\* One row of any kind beside one that is fixed.
Beside == [start |-> 8, end |-> 12, died |-> TRUE, count |-> 1]

MCColumns == {<<Row(e, 1), Row(Beside, 2)>> : e \in Kinds} \union {<<>>}

\* The longest for whole walks; the short ones are the columns', and cut walks off.
MCPeriods ==
  {[start |-> 8, end |-> 30], [start |-> 8, end |-> 12], [start |-> 9, end |-> 11],
   [start |-> 10, end |-> 10]}

MCDates == 7 .. 13

MCCounts == {-1, 0, 1}
=============================================================================
