--------------------------- MODULE SeriesScheduler ---------------------------
(***************************************************************************)
(* One weekly presentation series: its schedule, the scheduler processes    *)
(* that tick (presentations/scheduler.py) and the owner's requests          *)
(* (routers/presentations.py).  Both prepare the period's draft on the same *)
(* path, prepare_occurrence.                                                *)
(*                                                                          *)
(* Instants are numbered, a schedule is the set of its instants, and a      *)
(* period is WeekLength instants long.                                      *)
(***************************************************************************)
EXTENDS Naturals

CONSTANTS Tickers,      \* processes that run scheduler.tick
          Owners,       \* requests that may be open at once
          Schedules,    \* sets of instants
          WeekLength, CatchUp,
          MaxNow, MaxRequests, MaxTickerDeaths   \* bounds

ASSUME SeriesAssumption ==
    /\ Tickers \cap Owners = {}
    /\ WeekLength \in Nat \ {0} /\ CatchUp \in Nat /\ MaxNow \in Nat
    /\ MaxRequests \in Nat /\ MaxTickerDeaths \in Nat
    /\ \A p \in Schedules : p \subseteq Nat \ {0} /\ \A t \in 0..MaxNow : \E i \in p : i > t

VARIABLES
    now,
    series,      \* the committed row: enabled, paused, plan, next (0: NULL)
    decks,       \* committed decks per period
    booked,      \* periods with a committed occurrence
    at,          \* per session: its next step
    loaded,      \* per session: the row as it loaded it
    period,      \* per session: the period it prepares
    fired,       \* how often each planned instant was won
    asked, tickerDeaths,
    crowded      \* two owner's requests have been open at once

seriesVars == <<now, series, decks, booked, at, loaded, period, fired, asked, tickerDeaths, crowded>>

SeriesSessions == Tickers \cup Owners
Moments == UNION Schedules
PeriodOf(t) == t \div WeekLength
Periods == {PeriodOf(t) : t \in 0..MaxNow}
SeriesRow == [enabled : BOOLEAN, paused : BOOLEAN, plan : Schedules \cup {{}},
              next : Moments \cup {0}]
NoSchedule == [enabled |-> FALSE, paused |-> FALSE, plan |-> {}, next |-> 0]
SeriesStep == {"rest", "swap", "look", "insert", "pause", "schedule"}

SeriesTypeOK ==
    /\ now \in 0..MaxNow
    /\ series \in SeriesRow
    /\ decks \in [Periods -> Nat] /\ booked \subseteq Periods
    /\ at \in [SeriesSessions -> SeriesStep]
    /\ loaded \in [SeriesSessions -> SeriesRow]
    /\ period \in [SeriesSessions -> Periods]
    /\ fired \in [Moments -> Nat]
    /\ asked \in 0..MaxRequests /\ tickerDeaths \in 0..MaxTickerDeaths
    /\ crowded \in BOOLEAN

--------------------------------------------------------------------------------
(* The session's steps *)

\* next_run: the first scheduled instant strictly after t.
NextRun(plan, t) == CHOOSE i \in plan : i > t /\ \A k \in plan : k > t => i <= k

GoTo(s, step) == at' = [at EXCEPT ![s] = step]
Prepare(s, p) == period' = [period EXCEPT ![s] = p]

\* Go on or, at "rest", forget what was loaded.
Proceed(s, step) ==
    /\ GoTo(s, step)
    /\ loaded' = IF step = "rest" THEN [loaded EXCEPT ![s] = NoSchedule] ELSE loaded
    /\ period' = IF step = "rest" THEN [period EXCEPT ![s] = 0] ELSE period

\* The mark is set when a second owner's request opens.
Open(o) ==
    /\ o \in Owners /\ at[o] = "rest" /\ asked < MaxRequests
    /\ asked' = asked + 1
    /\ loaded' = [loaded EXCEPT ![o] = series]
    /\ crowded' = (crowded \/ \E q \in Owners \ {o} : at[q] \in {"pause", "schedule"})

--------------------------------------------------------------------------------
(* scheduler.tick *)

\* Mutant of DueSeries: what is due now is not due yet.
SeriesDueLater == series.enabled /\ ~series.paused /\ series.next # 0 /\ series.next < now

DueSeries == series.enabled /\ ~series.paused /\ series.next # 0 /\ series.next <= now

\* tick selects the series if it is due ...
TickRead(w) ==
    /\ at[w] = "rest" /\ DueSeries
    /\ loaded' = [loaded EXCEPT ![w] = series]
    /\ Prepare(w, PeriodOf(now))
    /\ GoTo(w, "swap")
    /\ UNCHANGED <<now, series, decks, booked, fired, asked, tickerDeaths, crowded>>

\* ... and moves next_run_at on if it still is what it selected.  The winner
\* prepares the draft, or skips it if the run is too late.
TickSwapWhen(w, won, following) ==
    LET planned == loaded[w].next IN
    /\ at[w] = "swap"
    /\ series' = IF won THEN [series EXCEPT !.next = following] ELSE series
    /\ fired' = IF won THEN [fired EXCEPT ![planned] = @ + 1] ELSE fired
    /\ Proceed(w, IF won /\ now - planned <= CatchUp THEN "look" ELSE "rest")
    /\ UNCHANGED <<now, decks, booked, asked, tickerDeaths, crowded>>

\* Mutant of TickSwap: the row is updated by its id alone.
TickSwapBlind(w) == TickSwapWhen(w, TRUE, NextRun(loaded[w].plan, now))
TickSwap(w) == TickSwapWhen(w, series.next = loaded[w].next, NextRun(loaded[w].plan, now))

--------------------------------------------------------------------------------
(* prepare_occurrence *)

\* The period's occurrence exists already, or a draft is to be made ...
LookUp(s) ==
    /\ at[s] = "look"
    /\ Proceed(s, IF period[s] \in booked THEN "rest" ELSE "insert")
    /\ UNCHANGED <<now, series, decks, booked, fired, asked, tickerDeaths, crowded>>

\* Mutant of InsertDraft: occurrences are not unique.
InsertAnyway(s) ==
    /\ at[s] = "insert"
    /\ decks' = [decks EXCEPT ![period[s]] = @ + 1]
    /\ booked' = booked \cup {period[s]}
    /\ Proceed(s, "rest")
    /\ UNCHANGED <<now, series, fired, asked, tickerDeaths, crowded>>

\* ... deck, occurrence, revision and run commit together; if the unique key has
\* been taken since, everything is rolled back and the other's deck is returned.
InsertDraft(s) ==
    /\ at[s] = "insert"
    /\ IF period[s] \in booked THEN UNCHANGED <<decks, booked>>
       ELSE /\ decks' = [decks EXCEPT ![period[s]] = @ + 1]
            /\ booked' = booked \cup {period[s]}
    /\ Proceed(s, "rest")
    /\ UNCHANGED <<now, series, fired, asked, tickerDeaths, crowded>>

\* Preparation fails (no brand kit, an invalid storyline): rolled back, recorded.
PrepareFails(s) ==
    /\ at[s] = "insert"
    /\ Proceed(s, "rest")
    /\ UNCHANGED <<now, series, decks, booked, fired, asked, tickerDeaths, crowded>>

--------------------------------------------------------------------------------
(* The owner's requests *)

\* prepare, for now or for any instant; refused while the series is paused.
AskPrepareFor(o, p) ==
    /\ Open(o) /\ ~series.paused
    /\ Prepare(o, p)
    /\ GoTo(o, "look")
    /\ UNCHANGED <<now, series, decks, booked, fired, tickerDeaths>>

\* Mutant of AskPrepare: the period after the one asked for.
AskPrepareAhead(o, t) == AskPrepareFor(o, PeriodOf(t) + 1)
AskPrepare(o, t) == AskPrepareFor(o, PeriodOf(t))

AskPause(o) ==
    /\ Open(o)
    /\ GoTo(o, "pause")
    /\ UNCHANGED <<now, series, decks, booked, period, fired, tickerDeaths>>

\* pause writes the negation of what it loaded.
WritePause(o) ==
    /\ at[o] = "pause"
    /\ series' = [series EXCEPT !.paused = ~loaded[o].paused]
    /\ Proceed(o, "rest")
    /\ UNCHANGED <<now, decks, booked, fired, asked, tickerDeaths, crowded>>

AskSchedule(o) ==
    /\ Open(o)
    /\ GoTo(o, "schedule")
    /\ UNCHANGED <<now, series, decks, booked, period, fired, tickerDeaths>>

\* set_schedule writes the columns that differ from what it loaded.
WriteScheduleAs(o, on, plan, next) ==
    LET old == loaded[o] IN
    /\ at[o] = "schedule"
    /\ series' = [series EXCEPT !.enabled = IF on # old.enabled THEN on ELSE @,
                                !.plan = IF plan # old.plan THEN plan ELSE @,
                                !.next = IF next # old.next THEN next ELSE @]
    /\ Proceed(o, "rest")
    /\ UNCHANGED <<now, decks, booked, fired, asked, tickerDeaths, crowded>>

\* Mutant of WriteSchedule: the next run is kept when only the switch changes.
WriteScheduleKeeps(o, on, plan) ==
    WriteScheduleAs(o, on, plan, IF on /\ plan # loaded[o].plan THEN NextRun(plan, now) ELSE loaded[o].next)

WriteSchedule(o, on, plan) == WriteScheduleAs(o, on, plan, IF on THEN NextRun(plan, now) ELSE 0)

--------------------------------------------------------------------------------

\* A scheduler process dies; what it won and did not prepare is lost.
TickerDies(w) ==
    /\ at[w] # "rest" /\ tickerDeaths < MaxTickerDeaths
    /\ tickerDeaths' = tickerDeaths + 1
    /\ Proceed(w, "rest")
    /\ UNCHANGED <<now, series, decks, booked, fired, asked, crowded>>

WeekPasses ==
    /\ now < MaxNow
    /\ now' = now + 1
    /\ UNCHANGED <<series, decks, booked, at, loaded, period, fired, asked, tickerDeaths, crowded>>

\* A new series has no schedule.
SeriesInit ==
    /\ now = 0 /\ decks = [p \in Periods |-> 0] /\ booked = {}
    /\ series = NoSchedule
    /\ at = [s \in SeriesSessions |-> "rest"]
    /\ loaded = [s \in SeriesSessions |-> NoSchedule]
    /\ period = [s \in SeriesSessions |-> 0]
    /\ fired = [i \in Moments |-> 0]
    /\ asked = 0 /\ tickerDeaths = 0 /\ crowded = FALSE

Prepares(s) == LookUp(s) \/ InsertDraft(s) \/ PrepareFails(s)
Tick(w) == TickRead(w) \/ TickSwap(w) \/ Prepares(w)

SeriesNext ==
    \/ \E w \in Tickers : Tick(w) \/ TickerDies(w)
    \/ \E o \in Owners :
          \/ AskPause(o) \/ WritePause(o) \/ AskSchedule(o) \/ Prepares(o)
          \/ \E t \in 0..MaxNow : AskPrepare(o, t)
          \/ \E on \in BOOLEAN, plan \in Schedules : WriteSchedule(o, on, plan)
    \/ WeekPasses

--------------------------------------------------------------------------------
(* Properties *)

\* "One draft per (series, recipe version, period): manual and scheduled
\* preparation converge here", however many prepare it at once, fail or die.
OneDraft == \A p \in Periods : decks[p] = IF p \in booked THEN 1 ELSE 0

\* "Two workers can never both fire it": a planned instant is won once, also
\* when the series is paused, rescheduled or switched off while it is due.
FiredOnce == \A i \in Moments : fired[i] <= 1

\* A series that is switched on has a next run; only two settings requests at
\* once can leave it without.
SwitchedOnIsArmed == series.enabled /\ ~crowded => series.next # 0

\* A due series does not stay due: it is fired, skipped as too late, paused or
\* switched off, whatever its earlier drafts came to.
DueMovesOn ==
    (series.enabled /\ ~series.paused /\ series.next # 0 /\ series.next <= now)
       ~> (~series.enabled \/ series.paused \/ series.next > now \/ crowded)
================================================================================
