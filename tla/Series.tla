------------------------------- MODULE Series -------------------------------
(***************************************************************************)
(* schedule(): a meeting, and the occurrences its recurrence rule asks     *)
(* for, created one after the other without a transaction.                 *)
(*                                                                         *)
(* Grain.  One action is one attempt to insert a meeting.  A date is a     *)
(* month, counted from January 2023, and a day; the time of day is that of *)
(* the first occurrence and UTC has no other.  A rule is parsed already:   *)
(* an INTERVAL or COUNT that is no positive number counts as absent, and   *)
(* so do the parts the parser does not know (BYDAY); UNTIL is the last day *)
(* whose occurrence is not after it.  Left out: title, duration, invitees. *)
(***************************************************************************)
EXTENDS Naturals, Sequences

CONSTANTS
  Starts,                     \* bound: the dates of a first occurrence
  Intervals, Counts, Untils,  \* bound: the parts of a rule, 0 for none
  MaxOccurrences,             \* MAX_RECURRING_OCCURRENCES, 24 in the code
  MaxAttempts                 \* 5 in the code

VARIABLES
  ask,            \* what schedule() was asked: a first date and a rule
  series,         \* the dates of the meetings it has made
  attempt,        \* the codes it has tried for the next one
  doing,          \* where it is
  invited         \* the invitations of the first meeting are on their way

seriesVars == <<ask, series, attempt, doing, invited>>

Freqs == {"NONE", "DAILY", "WEEKLY", "MONTHLY", "YEARLY"}
Rules == [freq: Freqs, interval: Intervals, count: Counts, until: Untils]

-----------------------------------------------------------------------------
(* Dates. *)

Leap(y) == y % 4 = 0 /\ (y % 100 # 0 \/ y % 400 = 0)

MonthLength(m) ==
  CASE m % 12 = 1 -> IF Leap(2023 + m \div 12) THEN 29 ELSE 28
    [] m % 12 \in {3, 5, 8, 10} -> 30
    [] OTHER -> 31

(* The dates there are, of which a Date holds no other. *)
Calendar == {d \in [month: Nat, day: 1..31] : d.day <= MonthLength(d.month)}

ASSUME SeriesAssumption ==
  /\ MaxOccurrences \in Nat \ {0} /\ MaxAttempts \in Nat \ {0}
  /\ Intervals \subseteq Nat \ {0} /\ Counts \subseteq Nat /\ Untils \subseteq Nat
  /\ Starts \subseteq Calendar
  /\ Starts # {} /\ Intervals # {} /\ Counts # {} /\ Untils # {}

LeapsUpTo(y) == y \div 4 - y \div 100 + y \div 400

(* The days of January 2023 and on before month m. *)
DaysBefore(m) ==
  LET year == m \div 12
      starts == <<0, 31, 59, 90, 120, 151, 181, 212, 243, 273, 304, 334>>
      leap == IF m % 12 > 1 /\ Leap(2023 + year) THEN 1 ELSE 0
  IN 365 * year + LeapsUpTo(2022 + year) - LeapsUpTo(2022) + starts[(m % 12) + 1] + leap

(* The time of a date, in days. *)
Ordinal(d) == DaysBefore(d.month) + d.day

AtMost(x, y) == IF x < y THEN x ELSE y

(* Adding n times 24 hours. *)
AddDays(d, n) ==
  LET t == Ordinal(d) + n
      m == CHOOSE m \in d.month..(d.month + n \div 28 + 1) :
             DaysBefore(m) < t /\ t <= DaysBefore(m + 1)
  IN [month |-> m, day |-> t - DaysBefore(m)]

(* Mutation: the day is not clamped and runs over into the next month. *)
AddMonths_Over(d, n) ==
  AddDays([month |-> d.month + n, day |-> 1], d.day - 1)

(* addMonthsUtc: the day is clamped to the end of the month. *)
AddMonths(d, n) ==
  [month |-> d.month + n, day |-> AtMost(d.day, MonthLength(d.month + n))]

(* nextRecurringDate, addYearsUtc. *)
NextDate(d, r) ==
  CASE r.freq = "DAILY" -> AddDays(d, r.interval)
    [] r.freq = "WEEKLY" -> AddDays(d, 7 * r.interval)
    [] r.freq = "MONTHLY" -> AddMonths(d, r.interval)
    [] OTHER -> AddMonths(d, 12 * r.interval)

(* Mutation: the count leaves out the first meeting. *)
Goes_Later(d, r, n) ==
  /\ n < MaxOccurrences
  /\ r.count = 0 \/ n <= r.count
  /\ r.until = 0 \/ Ordinal(d) <= r.until

(* The loop of futureOccurrenceDates goes on to its nth date, d. *)
Goes(d, r, n) ==
  /\ n < MaxOccurrences
  /\ r.count = 0 \/ n < r.count
  /\ r.until = 0 \/ Ordinal(d) <= r.until

-----------------------------------------------------------------------------
(* The handler. *)

Ask == [start: Starts, rule: Rules]

SeriesTypeOK ==
  /\ ask \in Ask
  /\ series \in Seq(Calendar) /\ Len(series) <= MaxOccurrences
  /\ attempt \in 0..MaxAttempts
  /\ doing \in {"idle", "create", "done", "failed"}
  /\ invited \in BOOLEAN

SeriesInit ==
  /\ ask = CHOOSE a \in Ask : a.rule.freq = "NONE"
  /\ series = <<>> /\ attempt = 0
  /\ doing = "idle" /\ invited = FALSE

(* The rule is there, or it is no rule: freq is then NONE. *)
Schedule ==
  /\ doing = "idle"
  /\ ask' \in Ask
  /\ doing' = "create"
  /\ UNCHANGED <<series, attempt, invited>>

NextOfSeries ==
  IF series = <<>> THEN ask.start ELSE NextDate(series[Len(series)], ask.rule)

(* The meeting is made, and the loop ends or goes on. *)
CreateOccurrence ==
  LET made == Append(series, NextOfSeries)
      next == NextDate(NextOfSeries, ask.rule) IN
  /\ doing = "create"
  /\ series' = made
  /\ attempt' = 0
  /\ doing' = IF ask.rule.freq # "NONE" /\ Goes(next, ask.rule, Len(made))
                THEN "create" ELSE "done"
  /\ UNCHANGED <<ask, invited>>

(* The code is taken. *)
Collide ==
  /\ doing = "create"
  /\ attempt' = attempt + 1
  /\ doing' = IF attempt' < MaxAttempts THEN "create" ELSE "failed"
  /\ UNCHANGED <<ask, series, invited>>

(* The database is away, or the process dies. *)
FailOccurrence ==
  /\ doing = "create"
  /\ doing' = "failed"
  /\ UNCHANGED <<ask, series, attempt, invited>>

(* dispatchInvites, which nothing waits for. *)
DispatchInvites ==
  /\ doing = "done" /\ ~invited
  /\ invited' = TRUE
  /\ UNCHANGED <<ask, series, attempt, doing>>

SeriesNext == Schedule \/ CreateOccurrence \/ Collide \/ FailOccurrence \/ DispatchInvites

SeriesSpec == SeriesInit /\ [][SeriesNext]_seriesVars
-----------------------------------------------------------------------------
(* Properties. *)

(* The nth date a calendar gives the rule, without the dates before it but *)
(* for the shortest month passed: a series that met a shorter month keeps  *)
(* its last day for good.                                                  *)
RuleDate(a, n) ==
  LET gap == IF a.rule.freq = "YEARLY" THEN 12 * a.rule.interval ELSE a.rule.interval
      step == IF a.rule.freq = "WEEKLY" THEN 7 * a.rule.interval ELSE a.rule.interval
      Passed == {a.start.day} \cup {MonthLength(a.start.month + k * gap) : k \in 1..n}
  IN IF n = 0 THEN Ordinal(a.start)
     ELSE IF a.rule.freq \in {"DAILY", "WEEKLY"} THEN Ordinal(a.start) + n * step
     ELSE DaysBefore(a.start.month + n * gap)
            + CHOOSE x \in Passed : \A y \in Passed : x <= y

(* The dates the rule asks for. *)
Wanted(a) ==
  {0} \cup {n \in 1..(MaxOccurrences - 1) :
              /\ a.rule.freq # "NONE"
              /\ a.rule.count = 0 \/ n < a.rule.count
              /\ a.rule.until = 0 \/ RuleDate(a, n) <= a.rule.until}

(* What is made is the beginning of the series the rule asks for, each     *)
(* meeting on its day and none twice, also when schedule() fails half way; *)
(* it is the whole series when it is done, and nobody is invited before.   *)
SeriesFollowsRule ==
  /\ \A i \in DOMAIN series : i - 1 \in Wanted(ask) /\ Ordinal(series[i]) = RuleDate(ask, i - 1)
  /\ doing = "done" => Wanted(ask) = 0..(Len(series) - 1)
  /\ invited => doing = "done"
=============================================================================
