------------------------------ MODULE DayScheduler -----------------------------
(***************************************************************************)
(* The planner's graph (planner/agents.py, planner/graph.py): schedule_node   *)
(* lays the prioritised tasks into the day around lunch, the critic scores    *)
(* the result and sends it back with hints until it is good enough or the     *)
(* iterations are spent.                                                    *)
(*                                                                          *)
(* A task is its kind: the order of the tasks decides which of them finds a   *)
(* place, not where the places are.  The score and the hints of the critic    *)
(* are left open.  Times are minutes of the day.                             *)
(***************************************************************************)
EXTENDS Naturals, Sequences

CONSTANTS Configs,          \* versions of PlannerConfig that may be applied
          Agendas,          \* per kind, how many tasks there are
          MeetingMinutes,   \* of a meeting or a review, 45 in the code
          AdminMinutes,     \* 30 in the code
          MAX_STEPS         \* nodes a graph may visit, 64 in the code

Config == [day_start : Nat, day_end : Nat, lunch_start : Nat, lunch_minutes : Nat,
           deep_block_minutes : Nat, buffer_minutes : Nat, admin_batch_after : Nat,
           meeting_window_start : Nat, max_iterations : Nat]
Agenda == [deep : Nat, meeting : Nat, admin : Nat]

\* The code checks no configuration; this holds of the default and of all that
\* review_planner proposes, which leaves these times alone.
ASSUME SchedulerAssumption ==
    /\ Configs \subseteq Config /\ Agendas \subseteq Agenda
    /\ \A c \in Configs :
          /\ c.day_start <= c.lunch_start /\ c.lunch_start <= c.day_end
          /\ c.admin_batch_after <= c.day_end
    /\ MeetingMinutes \in Nat /\ AdminMinutes \in Nat /\ MAX_STEPS \in Nat

VARIABLES
    cfg, agenda,   \* what the graph was invoked with
    stage,         \* the part of the day being laid out, or the node
    left,          \* tasks not yet placed
    cursor,        \* the next free minute
    timeline,      \* blocks in the order they are placed
    hints,         \* of the instruction, then of the last critique
    iterations

schedulerVars == <<cfg, agenda, stage, left, cursor, timeline, hints, iterations>>

Stage == {"morning", "meetings", "afternoon", "admin", "critique", "finalized", "failed"}
Hint == {"batch_admin", "protect_morning"}
TimeBlock == [kind : {"deep", "meeting", "admin", "break"}, start : Nat, end : Nat]

SchedulerTypeOK ==
    /\ cfg \in Configs /\ agenda \in Agendas /\ stage \in Stage /\ left \in Agenda
    /\ cursor \in Nat /\ timeline \in Seq(TimeBlock)
    /\ hints \in SUBSET Hint /\ iterations \in Nat

Later(a, b) == IF a >= b THEN a ELSE b
LunchEnd == cfg.lunch_start + cfg.lunch_minutes

\* Mutant of MeetingStart: the configured window, wherever lunch is.
MeetingWindow == cfg.meeting_window_start
MeetingStart == Later(cfg.meeting_window_start, LunchEnd)

\* end_cap: with the hint, the afternoon stops where the admin batch begins.
EndCap == IF "batch_admin" \in hints THEN cfg.admin_batch_after ELSE cfg.day_end

\* place
Place(kind, minutes) ==
    /\ timeline' = Append(timeline, [kind |-> kind, start |-> cursor, end |-> cursor + minutes])
    /\ cursor' = cursor + minutes + cfg.buffer_minutes
    /\ left' = [left EXCEPT ![kind] = @ - 1]
    /\ UNCHANGED <<cfg, agenda, stage, hints, iterations>>

Fits(kind, minutes, end) == left[kind] > 0 /\ cursor + minutes <= end

PlaceMorning ==
    /\ stage = "morning" /\ Fits("deep", cfg.deep_block_minutes, cfg.lunch_start)
    /\ Place("deep", cfg.deep_block_minutes)

\* Lunch is sacred; the meetings begin after it.
EndMorning ==
    /\ stage = "morning" /\ ~Fits("deep", cfg.deep_block_minutes, cfg.lunch_start)
    /\ stage' = "meetings"
    /\ timeline' = Append(timeline, [kind |-> "break", start |-> cfg.lunch_start, end |-> LunchEnd])
    /\ cursor' = MeetingStart
    /\ UNCHANGED <<cfg, agenda, left, hints, iterations>>

PlaceMeeting ==
    /\ stage = "meetings" /\ Fits("meeting", MeetingMinutes, EndCap)
    /\ Place("meeting", MeetingMinutes)

EndMeetings ==
    /\ stage = "meetings" /\ ~Fits("meeting", MeetingMinutes, EndCap)
    /\ stage' = "afternoon"
    /\ UNCHANGED <<cfg, agenda, left, cursor, timeline, hints, iterations>>

\* Deep work that did not fit the morning.
PlaceAfternoon ==
    /\ stage = "afternoon" /\ Fits("deep", cfg.deep_block_minutes, EndCap)
    /\ Place("deep", cfg.deep_block_minutes)

EndAfternoon ==
    /\ stage = "afternoon" /\ ~Fits("deep", cfg.deep_block_minutes, EndCap)
    /\ stage' = "admin" /\ cursor' = Later(cursor, cfg.admin_batch_after)
    /\ UNCHANGED <<cfg, agenda, left, timeline, hints, iterations>>

PlaceAdmin ==
    /\ stage = "admin" /\ Fits("admin", AdminMinutes, cfg.day_end)
    /\ Place("admin", AdminMinutes)

EndDay ==
    /\ stage = "admin" /\ ~Fits("admin", AdminMinutes, cfg.day_end)
    /\ stage' = "critique" /\ iterations' = iterations + 1
    /\ UNCHANGED <<cfg, agenda, left, cursor, timeline, hints>>

\* The steps the graph needs to end now: prioritize, the passes with their
\* critiques, finalize, and the look at END.
StepsToEnd == 2 * iterations + 3

\* critique_node and critic_router.  An empty plan leaves the hints as they were.
Critique ==
    /\ stage = "critique"
    /\ \E good \in BOOLEAN, next \in SUBSET Hint :
          /\ (\A i \in 1..Len(timeline) : timeline[i].kind = "break") => next = hints
          /\ hints' = next
          /\ \/ /\ StepsToEnd > MAX_STEPS
                /\ stage' = "failed" /\ UNCHANGED <<left, cursor, timeline>>
             \/ /\ StepsToEnd <= MAX_STEPS /\ (good \/ iterations >= cfg.max_iterations)
                /\ stage' = "finalized" /\ UNCHANGED <<left, cursor, timeline>>
             \/ /\ StepsToEnd <= MAX_STEPS /\ ~good /\ iterations < cfg.max_iterations
                /\ stage' = "morning"
                /\ left' = agenda /\ cursor' = cfg.day_start /\ timeline' = <<>>
    /\ UNCHANGED <<cfg, agenda, iterations>>

SchedulerInit ==
    /\ cfg \in Configs /\ agenda \in Agendas
    /\ stage = "morning" /\ left = agenda /\ cursor = cfg.day_start
    /\ timeline = <<>> /\ hints \in SUBSET Hint /\ iterations = 0

SchedulerNext ==
    \/ PlaceMorning \/ EndMorning \/ PlaceMeeting \/ EndMeetings
    \/ PlaceAfternoon \/ EndAfternoon \/ PlaceAdmin \/ EndDay \/ Critique

--------------------------------------------------------------------------------
(* Properties *)

\* Whatever configuration was applied and whatever the critic hints at: blocks
\* follow each other without overlap, lunch among them; work lies inside the
\* working hours; meetings and admin never come before lunch; an admin batch is
\* not begun before its hour.
TimelineSound ==
    \A i \in 1..Len(timeline) :
        LET b == timeline[i] IN
        /\ \A j \in 1..(i - 1) : timeline[j].end <= b.start
        /\ b.kind # "break" => cfg.day_start <= b.start /\ b.end <= cfg.day_end
        /\ b.kind \in {"meeting", "admin"} => LunchEnd <= b.start
        /\ b.kind = "admin" => cfg.admin_batch_after <= b.start
================================================================================
