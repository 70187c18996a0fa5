------------------------------ MODULE Periods ------------------------------
(***************************************************************************)
(* thecargo.utils.timezone, dependencies.timezone and dashboard.period:    *)
(* where the days of a time zone begin and end, in which zone a person's   *)
(* days are counted, and which days a dashboard shows and compares with.   *)
(*                                                                         *)
(* Days are numbered from the first one of the calendar, hours of UTC from *)
(* its midnight. A zone is a list of offsets, each from an hour on: it is  *)
(* wherever a clock is put forward or back, at midnight or over it.        *)
(***************************************************************************)
EXTENDS Integers, Sequences, FiniteSetsExt

CONSTANTS
    MonthLengths,   \* the months of the calendar; the first one begins a quarter
    Offsets,        \* zone -> its offsets: a sequence of [from, offset]
    Broken,         \* a name that is no zone
    NoZone,         \* None: a claim that is not in the token
    Todays,         \* the days a dashboard is asked for
    CustomDays      \* what date_from and date_to may be

DAY == 24
Zones == DOMAIN Offsets
MAX_CUSTOM == 366

VARIABLES
    zone,      \* what the request works with, or an error
    view       \* the dashboard's answer, or NoView

periodVars == <<zone, view>>

----------------------------------------------------------------------------
(* Zones. *)

\* The number of the offset that holds at an hour of UTC, and at a local time: a
\* local time that comes twice is the first one, one that is skipped has the
\* offset before (zoneinfo, fold 0).
OffsetAt(z, hour) == Max({1} \union {i \in 2 .. Len(Offsets[z]) : Offsets[z][i].from <= hour})

LocalChange(z, i) == Offsets[z][i].from + Max({Offsets[z][i - 1].offset, Offsets[z][i].offset})
LocalReturn(z, i) == Offsets[z][i].from + Min({Offsets[z][i - 1].offset, Offsets[z][i].offset})
AtLocal(z, time) == Max({1} \union {i \in 2 .. Len(Offsets[z]) : LocalChange(z, i) <= time})

\* Zones as the tz database has them: one change is over, by any clock, before the
\* next, and no midnight lies inside the hours a change skips or repeats. (America/
\* St_Johns had its changes a minute past midnight, the last time in 2011.)
ASSUME ZonesAssumption ==
    /\ NoZone \notin Zones
    /\ \A z \in Zones :
        /\ Offsets[z] \in Seq([from : Int, offset : Int]) /\ Offsets[z] # <<>>
        /\ \A i \in 2 .. Len(Offsets[z]) :
            /\ i < Len(Offsets[z]) => LocalChange(z, i) <= LocalReturn(z, i + 1)
            /\ ((LocalChange(z, i) - 1) \div DAY) * DAY <= LocalReturn(z, i)

\* business_today: the date of the local time.
BusinessToday(z, hour) == (hour + Offsets[z][OffsetAt(z, hour)].offset) \div DAY

StartOfDay(z, day) == day * DAY - Offsets[z][AtLocal(z, day * DAY)].offset

\* Mutant: a day ends a day's hours after it began.
DayLater(z, day) == StartOfDay(z, day) + DAY

EndOfDay(z, day) == StartOfDay(z, day + 1)

\* expand_day_bound
Bound(z, day, upper) == IF upper THEN EndOfDay(z, day) ELSE StartOfDay(z, day)

\* token_tz and token_org_tz: a token without the claim is stale.
ZoneOrStale(claim) == IF claim \in Zones THEN claim ELSE "token_stale"

\* viewer_zone and org_zone: what is not in the token is asked of the auth
\* service; a name that is no zone is an error.
ZoneOrAsked(claim, organization) ==
    LET name == IF claim = NoZone THEN organization ELSE claim
    IN IF name \in Zones THEN name ELSE "error"

OrgClaim(tz, otz) == IF otz = NoZone THEN tz ELSE otz

----------------------------------------------------------------------------
(* Periods. *)

Window(first, last) == [from |-> first, to |-> last]
Span(w) == w.to - w.from + 1

MonthStarts[m \in 1 .. Len(MonthLengths) + 1] ==
    IF m = 1 THEN 0 ELSE MonthStarts[m - 1] + MonthLengths[m - 1]
MonthOf(day) == Max({m \in DOMAIN MonthLengths : MonthStarts[m] <= day})
QuarterStart(day) == MonthStarts[((MonthOf(day) - 1) \div 3) * 3 + 1]

Sooner(a, b) == IF a < b THEN a ELSE b

\* The window of the last n days, and the one before it.
LastDays(today, n) ==
    [current |-> Window(today - n + 1, today), prior |-> Window(today - 2 * n + 1, today - n)]

\* Mutant: the month before goes as far as this one, whatever its length.
MonthToDateUnclamped(today) ==
    LET start == MonthStarts[MonthOf(today)]
        before == MonthStarts[MonthOf(start - 1)]
    IN [current |-> Window(start, today), prior |-> Window(before, before + (today - start))]

MonthToDate(today) ==
    LET start == MonthStarts[MonthOf(today)]
        before == MonthStarts[MonthOf(start - 1)]
    IN [current |-> Window(start, today),
        prior |-> Window(before, Sooner(start - 1, before + (today - start)))]

QuarterToDate(today) ==
    LET start == QuarterStart(today)
        before == QuarterStart(start - 1)
    IN [current |-> Window(start, today),
        prior |-> Window(before, Sooner(start - 1, before + (today - start)))]

Custom(first, last) ==
    [current |-> Window(first, last), prior |-> Window(first - Span(Window(first, last)), first - 1)]

\* resolve_period, but for its label
ResolvePeriod(asked, today) ==
    CASE asked.period = "today"  -> LastDays(today, 1)
      [] asked.period = "7d"     -> LastDays(today, 7)
      [] asked.period = "30d"    -> LastDays(today, 30)
      [] asked.period = "mtd"    -> MonthToDate(today)
      [] asked.period = "qtd"    -> QuarterToDate(today)
      [] asked.period = "custom" -> Custom(asked.first, asked.last)

\* The calendar has whole quarters, and reaches past every day a dashboard is asked
\* for and a quarter before it.
ASSUME CalendarAssumption ==
    /\ MonthLengths \in Seq(Nat \ {0}) /\ Len(MonthLengths) >= 3 /\ Len(MonthLengths) % 3 = 0
    /\ Todays \subseteq Int /\ CustomDays \subseteq Int
    /\ \A z \in Zones, day \in Todays, hour \in 0 .. DAY - 1 :
          BusinessToday(z, day * DAY + hour) \in MonthStarts[4] .. MonthStarts[Len(MonthLengths) + 1] - 1

\* What may be asked without being refused: a custom range has both its days, in
\* order, and not too far apart.
Asked ==
    [period : {"today", "7d", "30d", "mtd", "qtd"}, first : {0}, last : {0}] \union
    {r \in [period : {"custom"}, first : CustomDays, last : CustomDays] :
        r.first <= r.last /\ r.last - r.first <= MAX_CUSTOM}

----------------------------------------------------------------------------
NoView == [period |-> "none"]

PeriodsInit == zone = NoZone /\ view = NoView

\* A request takes its zone from its token, or from its token and the auth service.
TakeZone ==
    /\ zone = NoZone
    /\ \E tz, otz \in Zones \union {Broken, NoZone}, organization \in Zones :
          zone' \in {ZoneOrStale(tz), ZoneOrStale(OrgClaim(tz, otz)),
                    ZoneOrAsked(tz, organization), ZoneOrAsked(OrgClaim(tz, otz), organization)}
    /\ UNCHANGED view

Resolve ==
    /\ zone \in Zones /\ view = NoView
    /\ \E day \in Todays, hour \in 0 .. DAY - 1, asked \in Asked :
          LET instant == day * DAY + hour
              resolved == ResolvePeriod(asked, BusinessToday(zone, instant))
          IN view' = [period |-> asked.period, now |-> instant,
                      current |-> resolved.current, prior |-> resolved.prior]
    /\ UNCHANGED zone

PeriodsNext == TakeZone \/ Resolve

PeriodsSpec == PeriodsInit /\ [][PeriodsNext]_periodVars

----------------------------------------------------------------------------
(* Properties. *)

Today == BusinessToday(zone, view.now)

\* Every instant is of one day, the date of its local time, whatever the clocks
\* do: days of 23 or 25 hours, midnights that come twice or never, a date that is
\* left out. So a window up to today holds the present, and no other one's past.
DaysCoverTime ==
    view # NoView =>
        /\ \A day \in Today - 3 .. Today + 3 :
              day = Today <=>
                  Bound(zone, day, FALSE) <= view.now /\ view.now < Bound(zone, day, TRUE)
        /\ view.period # "custom" =>
              Bound(zone, view.current.from, FALSE) <= view.now /\ view.now < Bound(zone, view.current.to, TRUE)
        /\ Bound(zone, view.prior.to, TRUE) <= Bound(zone, view.current.from, FALSE)

\* A dashboard compares like with like: a window with the days right before it, as
\* many of them; the days of a month or quarter so far with the same days of the
\* one before, from its first on, and with all of it when it is shorter.
PriorIsComparable ==
    view # NoView =>
        LET c == view.current
            p == view.prior
            months == IF view.period = "mtd" THEN 1 ELSE 3
            first == MonthOf(c.from)
        IN /\ view.period # "custom" => c.to = Today
           /\ IF view.period \in {"mtd", "qtd"}
              THEN /\ c.from = MonthStarts[first] /\ p.from = MonthStarts[first - months]
                   /\ Today < MonthStarts[first + months]
                   /\ Span(p) = Sooner(Span(c), c.from - p.from)
              ELSE p.to = c.from - 1 /\ Span(p) = Span(c)
=============================================================================
