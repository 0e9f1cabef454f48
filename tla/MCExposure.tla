----------------------------- MODULE MCExposure -----------------------------
EXTENDS Exposure

\* A calendar of two years of 36 clicks: a year, a third and a ninth are 36, 12
\* and 4 clicks.  Exposures start within a click of an even boundary or outside
\* the calendar, as R's missing integer does, and are of every length.
MCExposures ==
  [start : {-1, 1, 2, 3, 4, 70, 73}, end : -1 .. 74, died : BOOLEAN]

\* The third of these is a count of intervals passed for a time scale.
MCAsked == {36, 12, 3, 4}
=============================================================================
