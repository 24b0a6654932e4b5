-------------------------- MODULE BrowserParameters --------------------------
(***************************************************************************)
(* Those parameters of the browser of module Browser that a proof asks     *)
(* something of, and what it asks.                                         *)
(***************************************************************************)
EXTENDS Integers, Sequences

CONSTANTS
  PageSize,    \* revisions of a page of the log
  MaxRev,      \* bound: revisions
  Page,        \* entries that the dashboard asks for
  Batch,       \* rows of a kind that the dashboard fetches
  ProfileTake, \* rows of a kind that a profile fetches
  WeekDays,    \* days of a week
  MonthStart,  \* the first days of the months, and the day after the last one
  FirstDay,    \* the day a behaviour starts on
  LastDay,     \* bound
  Weeks, Months, Span,  \* weeks, months and days that a request looks back
  Grid         \* weeks of the heatmap

\* There is a first revision, which makes the layout.
ASSUME HistoryAssumption == PageSize \in Nat /\ MaxRev \in Nat \ {0}

ASSUME FeedsAssumption == Page \in Nat /\ Batch \in Nat /\ ProfileTake \in Nat

\* Months follow one another.  Today is in the calendar, with as many months before it as
\* a request looks back, and the heatmap has cells for more days than it is asked for.
ASSUME StatsAssumption ==
  /\ WeekDays \in Nat /\ WeekDays > 1
  /\ MonthStart \in Seq(Nat) /\ \A m, n \in DOMAIN MonthStart : m < n => MonthStart[m] < MonthStart[n]
  /\ FirstDay \in Nat /\ LastDay \in Nat /\ FirstDay <= LastDay
  /\ Months \in DOMAIN MonthStart /\ MonthStart[Months] <= FirstDay
  /\ LastDay < MonthStart[Len(MonthStart)]
  /\ Weeks \in Nat /\ Span \in Nat /\ Grid \in Nat /\ Span < Grid * WeekDays

=============================================================================
