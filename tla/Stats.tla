--------------------------------- MODULE Stats ---------------------------------
(***************************************************************************)
(* Commits counted by week, month and day: StatsService and                *)
(* UserStatsService.getHeatmap.  The database groups the revisions since   *)
(* a first day; the service, which asks for the time again when the        *)
(* answer is there, lays out the buckets and fills them.  The grid of the  *)
(* heatmap and the "commits of the week" of the dashboard are drawn from   *)
(* the days.                                                               *)
(*                                                                         *)
(* Days are numbered from 0, a Sunday and the first of a month, in a       *)
(* calendar whose weeks and months are shorter than ours; only some months *)
(* have the day that follows the end of the shortest.  Times of the day    *)
(* are left out.                                                           *)
(***************************************************************************)
EXTENDS Integers, FiniteSets, Sequences

CONSTANTS
  WeekDays,    \* days of a week
  MonthStart,  \* the first days of the months, and the day after the last one
  FirstDay,    \* the day a behaviour starts on
  LastDay,     \* bound
  Weeks, Months, Span,  \* weeks, months and days that a request looks back
  Grid,        \* WEEKS of the heatmap
  MaxCommits   \* bound: commits of a day, once it has come

VARIABLES
  today,
  commits,  \* commits[d]: indexed revisions of day d
  request,  \* the bucket asked for: "week", "month" or "day"
  phase,    \* "idle", "asked", "grouped" or "answered"
  from,     \* the first day of the request
  grouped,  \* what the database has counted, by bucket
  answer,   \* the count of every bucket laid out
  turned    \* history: the week or month has changed since the request came

vars == <<today, commits, request, phase, from, grouped, answer, turned>>

Days == 0..LastDay

\* The years before: a commit on every day, or on every other day.
Init ==
  /\ today = FirstDay
  /\ \E n \in {1, 2} : commits = [d \in Days |-> IF d <= today /\ d % n = 0 THEN 1 ELSE 0]
  /\ request = "week" /\ phase = "idle" /\ from = 0
  /\ grouped = <<>> /\ answer = <<>>
  /\ turned = FALSE

-----------------------------------------------------------------------------
(***************************************************************************)
(* The calendar.                                                           *)
(***************************************************************************)

MonthOf(d) == CHOOSE m \in 1..(Len(MonthStart) - 1) : MonthStart[m] <= d /\ d < MonthStart[m + 1]

\* setUTCMonth: the day of the month stays, and runs over where the month is too short.
SetMonth(d, m) == MonthStart[m] + (d - MonthStart[MonthOf(d)])

GetDay(d) == d % WeekDays
StartOfWeek(d) == d + (IF GetDay(d) = 0 THEN 1 - WeekDays ELSE 1 - GetDay(d))
StartOfMonth(d) == MonthStart[MonthOf(d)]

WeeksAgo == StartOfWeek(today - Weeks * WeekDays)

\* A plausible slip: the month is set before the day is.
MonthsAgoLate == StartOfMonth(SetMonth(today, MonthOf(today) - Months + 1))
MonthsAgo == SetMonth(StartOfMonth(today), MonthOf(today) - Months + 1)

\* The bucket of a day: date_trunc, toWeekKey, toMonthKey and toDayKey.
Key(kind, d) == IF kind = "week" THEN StartOfWeek(d) ELSE IF kind = "month" THEN StartOfMonth(d) ELSE d

\* A plausible slip: the week under way is not counted in the length of the range.
BucketsExact(kind) ==
  LET last == Key(kind, today)
      starts == {d \in from..last : Key(kind, d) = d}
      most == IF kind = "week" THEN Weeks ELSE IF kind = "month" THEN Months ELSE Span + 1
  IN  {d \in starts : Cardinality({e \in starts : e < d}) < most}

\* buildWeekRange and buildMonthRange, which take at most one bucket more than asked, and
\* buildDayRange, whose last day is that of the request.
Buckets(kind) ==
  LET last == IF kind = "day" THEN from + Span ELSE Key(kind, today)
      starts == {d \in from..last : Key(kind, d) = d}
      most == IF kind = "week" THEN Weeks + 1 ELSE IF kind = "month" THEN Months + 1 ELSE Span + 1
  IN  {d \in starts : Cardinality({e \in starts : e < d}) < most}

-----------------------------------------------------------------------------
(***************************************************************************)
(* The requests.                                                           *)
(***************************************************************************)

\* The number of things when every x of S has f[x] of them.
Total(f, S) == Cardinality(UNION {{x} \X (1..f[x]) : x \in S})
Sum(f) == Total(f, DOMAIN f)

\* A request comes: its first day is fixed.
Ask(kind) ==
  /\ phase = "idle"
  /\ phase' = "asked"
  /\ request' = kind
  /\ from' = IF kind = "week" THEN WeeksAgo ELSE IF kind = "month" THEN MonthsAgo ELSE today - Span
  /\ UNCHANGED <<today, commits, grouped, answer, turned>>

\* SELECT date_trunc(...), COUNT(*) ... WHERE date >= from GROUP BY 1.
Group ==
  /\ phase = "asked"
  /\ phase' = "grouped"
  /\ LET days == {d \in Days : d >= from /\ commits[d] > 0 /\ (request = "day" => d <= from + Span)} IN
     grouped' = [k \in {Key(request, d) : d \in days} |->
                   Total(commits, {d \in days : Key(request, d) = k})]
  /\ UNCHANGED <<today, commits, request, from, answer, turned>>

\* The buckets are laid out and filled, a missing one with 0.
Answer ==
  /\ phase = "grouped"
  /\ phase' = "answered"
  /\ answer' = [d \in Buckets(request) |-> IF d \in DOMAIN grouped THEN grouped[d] ELSE 0]
  /\ UNCHANGED <<today, commits, request, from, grouped, turned>>

Done ==
  /\ phase = "answered"
  /\ phase' = "idle" /\ grouped' = <<>> /\ answer' = <<>> /\ turned' = FALSE
  /\ UNCHANGED <<today, commits, request, from>>

\* A commit is indexed.
Commit ==
  /\ commits[today] < MaxCommits
  /\ commits' = [commits EXCEPT ![today] = @ + 1]
  /\ UNCHANGED <<today, request, phase, from, grouped, answer, turned>>

\* Midnight.
NextDay ==
  /\ today < LastDay
  /\ today' = today + 1
  /\ turned' = (turned \/ (phase # "idle" /\ request # "day" /\ Key(request, today') # Key(request, today)))
  /\ UNCHANGED <<commits, request, phase, from, grouped, answer>>

Next == (\E k \in {"week", "month", "day"} : Ask(k)) \/ Group \/ Answer \/ Done \/ Commit \/ NextDay

Spec == Init /\ [][Next]_vars

-----------------------------------------------------------------------------
(***************************************************************************)
(* The grid of ContributionHeatmap: one column for seven days from its     *)
(* start, one row for each day of the week; the days are put in one after  *)
(* the other, so the last one of a cell stays.                             *)
(***************************************************************************)

GridStart == from + Span - (Grid * WeekDays - 1)
CellOf(d) == <<(d - GridStart) \div WeekDays, GetDay(d)>>
Cells ==
  LET days == GridStart..(from + Span) IN
  [c \in {CellOf(d) : d \in days} |->
     LET last == CHOOSE d \in days : CellOf(d) = c /\ \A e \in days : CellOf(e) = c => e <= d IN
     IF last \in DOMAIN answer THEN answer[last] ELSE 0]

\* Every revision since the first day falls into a bucket that is shown, so the total is
\* what the database has counted, and there are as many buckets as the page says; so it
\* is unless the week or the month ends while the request is under way.  The heatmap
\* shows each day in a cell of its own.
TotalsWhole ==
  (phase = "answered" /\ ~turned) =>
    /\ Sum(answer) = Sum(grouped)
    /\ Cardinality(DOMAIN answer) =
         IF request = "week" THEN Weeks + 1 ELSE IF request = "month" THEN Months ELSE Span + 1
    /\ request = "day" => Sum(Cells) = Sum(answer)
=============================================================================
