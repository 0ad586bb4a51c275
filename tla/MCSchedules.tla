------------------------------ MODULE MCSchedules ------------------------------
(* The two schedules of the program: the standup reviews and the weekly        *)
(* series.  They share no state, so an execution runs one of them and leaves   *)
(* the other as it began.                                                      *)
EXTENDS StandupSchedule, SeriesScheduler

CONSTANTS e1, w1, w2, t1, t2, o1, o2

VARIABLE desk   \* the schedule this execution is about

vars == <<desk, reviewVars, seriesVars>>

OneEditor == {e1}
OneRunner == {w1}
TwoRunners == {w1, w2}
NoTickers == {}
TwoTickers == {t1, t2}
TwoOwners == {o1, o2}
DailyPlans == {{1, 3}, {2, 3}}

Reviews(A) == desk = "reviews" /\ A /\ UNCHANGED <<desk, seriesVars>>
Weekly(A) == desk = "weekly" /\ A /\ UNCHANGED <<desk, reviewVars>>

Init == desk \in {"reviews", "weekly"} /\ ReviewInit /\ SeriesInit
Next == Reviews(ReviewNext) \/ Weekly(SeriesNext)
Spec == Init /\ [][Next]_vars

\* A request and a pass go on, a freed row goes to the session that waits for
\* it, a back-off ends, and the scheduler's loop ticks.
Fairness ==
    /\ \A e \in Editors : /\ WF_vars(Reviews(SettingsStep(e) /\ ReviewNoted))
                         /\ SF_vars(Reviews(WriteSettings(e) /\ ReviewNoted))
                         /\ SF_vars(Reviews(Rearm(e) /\ ReviewNoted))
    /\ \A w \in Runners : /\ WF_vars(Reviews(RunnerStep(w) /\ ReviewNoted))
                         /\ SF_vars(Reviews(BeginReview(w) /\ ReviewNoted))
                         /\ SF_vars(Reviews(Rearm(w) /\ ReviewNoted))
    /\ WF_vars(Reviews((\E r \in Rows : RetryDue(r)) /\ ReviewNoted))
    /\ \A t \in Tickers : WF_vars(Weekly(Tick(t)))

FairSpec == Spec /\ Fairness

TypeOK == ReviewTypeOK /\ SeriesTypeOK /\ desk \in {"reviews", "weekly"}

\* Neither schedule comes to a stop: the chain of reviews moves past every instant,
\* and a due series is fired or skipped, whatever failed, died or was edited before.
SchedulesMoveOn == ChainMovesOn /\ DueMovesOn
================================================================================
