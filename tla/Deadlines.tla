------------------------------ MODULE Deadlines ------------------------------
(***************************************************************************)
(* The deadline engine: FRCP 6(a)(1), 6(a)(5) and 6(d) over a calendar of  *)
(* federal holidays, and the command that runs it once per input.  A date  *)
(* is <<year, month, day>>, an instant the number of its day since 1970    *)
(* (the engine works in whole UTC days, whose length never changes).       *)
(***************************************************************************)
EXTENDS Integers, Sequences, FiniteSets, FiniteSetsExt

CONSTANTS
  Inputs,  \* [json, trigger, days, direction, mail, jurisdiction]
  None     \* no date: what arithmetic on a text that is no date gives

VARIABLES input, exit, result

vars == <<input, exit, result>>

-----------------------------------------------------------------------------
(* Days and dates (the JavaScript Date object) *)

Sunday == 0  Monday == 1  Thursday == 4  Friday == 5  Saturday == 6

Leap(y) == y % 4 = 0 /\ (y % 100 # 0 \/ y % 400 = 0)
MonthDays(y) == <<31, IF Leap(y) THEN 29 ELSE 28, 31, 30, 31, 30, 31, 31, 30, 31, 30, 31>>
DaysBefore(y) == 365 * (y - 1970) + (y - 1969) \div 4 - (y - 1901) \div 100 + (y - 1601) \div 400
MonthStart(y, m) == DaysBefore(y) + FoldSet(LAMBDA k, n : n + MonthDays(y)[k], 0, 1 .. m - 1)

\* isoToMs, in days.
DayOf(date) == MonthStart(date[1], date[2]) + date[3] - 1
\* msToISO.
DateOf(n) ==
  LET y == CHOOSE y \in 1970 + n \div 366 - 1 .. 1970 + n \div 365 + 1 :
             DaysBefore(y) <= n /\ n < DaysBefore(y + 1)
      m == CHOOSE m \in 1 .. 12 : MonthStart(y, m) <= n /\ n < MonthStart(y, m) + MonthDays(y)[m]
  IN <<y, m, n - MonthStart(y, m) + 1>>
\* The first of January 1970 was a Thursday.
Dow(n) == (n + Thursday) % 7

-----------------------------------------------------------------------------
(* holidays.ts *)

NthWeekday(year, month, weekday, n) ==
  LET offset == (weekday - Dow(DayOf(<<year, month, 1>>)) + 7) % 7
  IN <<year, month, 1 + offset + (n - 1) * 7>>

LastMonday(year, month) ==
  LET last == DayOf(<<year, month, MonthDays(year)[month]>>)
  IN DateOf(last - ((Dow(last) - Monday + 7) % 7))

ObservedFixed(date) ==
  LET n == DayOf(date) IN
  CASE Dow(n) = Saturday -> DateOf(n - 1)
    [] Dow(n) = Sunday   -> DateOf(n + 1)
    [] OTHER             -> date

FixedDates == {<<1, 1>>, <<6, 19>>, <<7, 4>>, <<11, 11>>, <<12, 25>>}

\* Variant: the New Year's Day of the next year is forgotten.
NoSpill(year) == {}
\* A Saturday first of January is observed in the year before.
Spill(year) ==
  IF ObservedFixed(<<year + 1, 1, 1>>)[1] = year THEN {<<year, 12, 31>>} ELSE {}

FederalHolidays(year) ==
  {date \in {ObservedFixed(<<year, f[1], f[2]>>) : f \in FixedDates} : date[1] = year}
  \cup Spill(year)
  \cup {NthWeekday(year, 1, Monday, 3), NthWeekday(year, 2, Monday, 3), LastMonday(year, 5),
        NthWeekday(year, 9, Monday, 1), NthWeekday(year, 10, Monday, 2),
        NthWeekday(year, 11, Thursday, 4)}

IsBusinessDay(n) ==
  /\ Dow(n) \notin {Sunday, Saturday}
  /\ DateOf(n) \notin FederalHolidays(DateOf(n)[1])

-----------------------------------------------------------------------------
(* engine.ts *)

RECURSIVE RollForward(_), RollBackward(_)
RollForward(n)  == IF IsBusinessDay(n) THEN n ELSE RollForward(n + 1)
RollBackward(n) == IF IsBusinessDay(n) THEN n ELSE RollBackward(n - 1)

Unsupported(reason) == [supported |-> FALSE, reason |-> reason, deadline |-> None, dow |-> None]
Computed(n) == [supported |-> TRUE, reason |-> None, deadline |-> DateOf(n), dow |-> Dow(n)]
\* NaN is no weekend and in no set of holidays, so it is a business day.
NoDate == [supported |-> TRUE, reason |-> None, deadline |-> None, dow |-> None]

ComputeDeadline(in) ==
  LET start   == DayOf(in.trigger)
      base    == RollForward(start + in.days)
      forward == in.direction = "forward"
  IN CASE in.jurisdiction # "US-FED" -> Unsupported("unsupported_jurisdiction")
       [] in.jurisdiction = "US-FED" /\ (in.days = None \/ in.days <= 0) -> Unsupported("invalid_days")
       [] in.jurisdiction = "US-FED" /\ in.days # None /\ in.days > 0 ->
            IF in.mail /\ ~forward THEN Unsupported("mail_rule_forward_only")
            ELSE IF in.trigger = None THEN NoDate
            ELSE Computed(CASE forward /\ in.mail  -> RollForward(base + 3)
                            [] forward /\ ~in.mail -> base
                            [] OTHER               -> RollBackward(start - in.days))

-----------------------------------------------------------------------------
(* cli.ts: one input, one exit.  serviceByMail is not validated, and a     *)
(* trigger is any text.                                                    *)

Running == exit = None

Refuses ==
  /\ Running /\ ~input.json
  /\ exit' = 1
  /\ UNCHANGED <<input, result>>

Computes ==
  /\ Running /\ input.json
  /\ exit' = 0 /\ result' = ComputeDeadline(input)
  /\ UNCHANGED input

Init == input \in Inputs /\ exit = None /\ result = None
Next == Refuses \/ Computes
Spec == Init /\ [][Next]_vars

-----------------------------------------------------------------------------
(* The rule as the statute states it, day by day and without a year: a day *)
(* off is a weekend, a legal holiday, or the weekday on which one that     *)
(* falls on a weekend is kept.                                             *)

Fixed(n) == LET date == DateOf(n) IN <<date[2], date[3]>> \in FixedDates
Floating(n) ==
  LET date == DateOf(n)
      In(month, weekday, first) ==
        date[2] = month /\ Dow(n) = weekday /\ date[3] \in first .. first + 6
  IN \/ In(1, Monday, 15) \/ In(2, Monday, 15) \/ In(5, Monday, 25)
     \/ In(9, Monday, 1) \/ In(10, Monday, 8) \/ In(11, Thursday, 22)
DayOff(n) ==
  \/ Dow(n) \in {Saturday, Sunday}
  \/ Fixed(n) \/ Floating(n)
  \/ Dow(n) = Friday /\ Fixed(n + 1)
  \/ Dow(n) = Monday /\ Fixed(n - 1)

\* n is the first day at or after d, or the last at or before it, not off.
FirstFrom(d, n) == ~DayOff(n) /\ d <= n /\ \A k \in d .. n - 1 : DayOff(k)
LastUpTo(d, n)  == ~DayOff(n) /\ n <= d /\ \A k \in n + 1 .. d : DayOff(k)

(* "Encodes FRCP 6(a)(1), 6(a)(5), and 6(d) exactly as written": every     *)
(* computed deadline is the one the rule defines, with the mail days added *)
(* to the rolled period and rolled again.  Outside the rule's reach there  *)
(* is no date.                                                             *)
FollowsTheRule ==
  (exit = 0 /\ input.trigger # None) =>
    LET start == DayOf(input.trigger)
        n     == DayOf(result.deadline)
        days  == input.days
    IN IF result.supported
       THEN CASE input.direction = "forward" /\ ~input.mail -> FirstFrom(start + days, n)
              [] input.direction = "forward" /\ input.mail  ->
                   \E base \in start + days .. n : FirstFrom(start + days, base) /\ FirstFrom(base + 3, n)
              [] OTHER -> ~input.mail /\ LastUpTo(start - days, n)
       ELSE result.deadline = None
===============================================================================
