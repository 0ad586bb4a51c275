---------------------------- MODULE StandupEvidence ----------------------------
(***************************************************************************)
(* What a standup is written from (standup/collector.py), how it is written   *)
(* (standup/compiler.py) and the thread it replies to (thread_resolver.py).   *)
(*                                                                           *)
(* A pass reads the work and the rows of the day when it begins and writes     *)
(* rows when it commits; no index makes a signal's dedupe_key unique.         *)
(* One reporting day; time has two parts, the evening before (from 18:00) and  *)
(* the day.                                                                  *)
(***************************************************************************)
EXTENDS Naturals, Sequences, FiniteSetsExt, SequencesExt

CONSTANTS Work,        \* what signals are about
          Sort,        \* Work -> "task" | "approval" | "meeting" | "note"
          Words,       \* Work -> the distinctive words of its title
          Size,        \* Work -> the length of its title
          Collectors,  \* sessions that may be open at once
          Reviewer,    \* the one among them that runs the day's review
          MaxBullets,  \* policy.MAX_BULLETS
          MaxEvents,   \* bound on changes of the work, passes, notes and choices
          Messages     \* a channel's messages

ASSUME EvidenceAssumption ==
    /\ Sort \in [Work -> {"task", "approval", "meeting", "note"}] /\ Size \in [Work -> Nat]
    /\ Reviewer \in Collectors /\ MaxBullets \in Nat \ {0} /\ MaxEvents \in Nat /\ IsFiniteSet(Work)

VARIABLES
    part,        \* of the time
    matters,     \* per thing: its status and the part it was last updated in
    evidence,    \* rows, oldest first
    passes,      \* per session: what its collection has read
    update,      \* the draft last generated, with the rows it was made from
    thread,      \* the message last resolved, and the reminder's bot once learned
    said,        \* keys of what the person has excluded
    twofold,     \* two collections of a day have crossed
    spent        \* how many events there were

evidenceVars == <<part, matters, evidence, passes, update, thread, said, twofold, spent>>

NoCollection == [open |-> FALSE]
NoUpdate == [made |-> FALSE]
NoThread == [found |-> {}, bot |-> "none"]

\* Mutant of Window: from midnight.
WindowFromMidnight == {2}

\* The day is reported with the evening of the working day before.
Window == {1, 2}

EvidenceTypeOK ==
    /\ part \in 1..2
    /\ \A w \in Work : matters[w].at \in 0..2
    /\ \A n \in DOMAIN evidence :
           /\ evidence[n].included \in BOOLEAN
           /\ evidence[n].type \in {"completed", "progress", "blocked", "meeting"}
    /\ thread.found \subseteq Messages /\ twofold \in BOOLEAN

--------------------------------------------------------------------------------
(* Collection *)

TypeOf(w, status) ==
    CASE Sort[w] = "approval" -> "blocked"
      [] Sort[w] = "meeting" -> "meeting"
      [] OTHER -> CASE status = "done" -> "completed"
                    [] status = "blocked" -> "blocked"
                    [] OTHER -> "progress"

\* A task's key carries its status, so that each of them is a signal of its own; a
\* decided approval is no signal.
KeyOf(w, status) == IF Sort[w] = "task" THEN <<w, status>> ELSE <<w>>

Signals ==
    {[key |-> KeyOf(w, matters[w].status), thing |-> w, type |-> TypeOf(w, matters[w].status)] :
        w \in {v \in Work : matters[v].at \in Window
                            /\ matters[v].status \in {"active", "blocked", "done", "pending", "planned"}}}

Spend == spent < MaxEvents /\ spent' = spent + 1

\* A task, an approval or a meeting changes.
Move(w) ==
    /\ \E status \in CASE Sort[w] = "task" -> {"active", "blocked", "done"}
                       [] Sort[w] = "approval" -> {"pending", "decided"}
                       [] Sort[w] = "meeting" -> {"planned"}
                       [] OTHER -> {} :
           /\ status # matters[w].status
           /\ matters' = [matters EXCEPT ![w] = [status |-> status, at |-> part]]
    /\ Spend
    /\ UNCHANGED <<part, evidence, passes, update, thread, said, twofold>>

TimePasses ==
    /\ part = 1 /\ part' = part + 1
    /\ UNCHANGED <<matters, evidence, passes, update, thread, said, twofold, spent>>

\* Mutant of Existing: what the person excluded is not looked for.
ExistingIncluded == {n \in DOMAIN evidence : evidence[n].included}

Existing == DOMAIN evidence

\* A review also generates.
BeginCollect(c) ==
    /\ passes[c] = NoCollection
    /\ passes' = [passes EXCEPT ![c] =
           [open |-> TRUE, signals |-> Signals,
            known |-> {evidence[n].key : n \in Existing}, seen |-> DOMAIN evidence, then |-> matters]]
    /\ Spend
    /\ UNCHANGED <<part, matters, evidence, update, thread, said, twofold>>

\* Mutant of RefreshedRow: a row collected again is included again.
RefreshedRowWhole(row, signal) == [row EXCEPT !.type = signal.type, !.included = TRUE]

\* A row collected again gets the facts; `included` is the person's.
RefreshedRow(row, signal) == [row EXCEPT !.type = signal.type]

--------------------------------------------------------------------------------
(* The compiler *)

Related(a, b) ==
    LET common == Cardinality(Words[a] \cap Words[b]) IN
    \/ common >= 2
    \/ common = 1 /\ Min({Cardinality(Words[a]), Cardinality(Words[b])}) <= 2

\* Rows about one outcome, the longest title first; a row joins the first group it
\* is related to.
Groups(rows, ids) ==
    LET joined(groups, n) ==
            LET near == {g \in DOMAIN groups : Related(rows[n].thing, rows[groups[g][1]].thing)} IN
            IF near = {} THEN Append(groups, <<n>>)
            ELSE [groups EXCEPT ![Min(near)] = Append(@, n)]
        longer(m, n) == \/ Size[rows[m].thing] > Size[rows[n].thing]
                        \/ Size[rows[m].thing] = Size[rows[n].thing] /\ m < n
    IN  FoldLeft(joined, <<>>, SetToSortSeq(ids, longer))

Upto(s, limit) == SubSeq(s, 1, Min({Len(s), limit}))
Bullets(kind, rows, ids, limit) ==
    [g \in DOMAIN Upto(Groups(rows, ids), limit) |-> [kind |-> kind, ids |-> ToSet(Groups(rows, ids)[g])]]
Cited(bullets) == UNION {bullets[n].ids : n \in DOMAIN bullets}
OrElse(bullets, kind) == IF bullets = <<>> THEN <<[kind |-> kind, ids |-> {}]>> ELSE bullets

\* Mutant of StillOpen: what yesterday's section tells of is told again.
StillOpenAll(open, yesterday) == open

\* Unfinished work that yesterday's section has no room for.
StillOpen(open, yesterday) == open \ Cited(yesterday)

\* Mutant of Finished: work under way counts.
FinishedSoon(rows, ids) == {n \in ids : rows[n].type \in {"completed", "progress"}}

Finished(rows, ids) == {n \in ids : rows[n].type = "completed"}

\* No source gives a planned row: today is what is still open, and the meetings.
Compile(rows) ==
    LET ids == {n \in DOMAIN rows : rows[n].included}
        of(type) == {n \in ids : rows[n].type = type}
        done == Bullets("completed", rows, Finished(rows, ids), MaxBullets)
        yesterday == done \o Bullets("continued", rows, of("progress") \ Cited(done), MaxBullets - Len(done))
        open == Bullets("open", rows, StillOpen(of("progress"), yesterday), MaxBullets)
        inOrder == SetToSortSeq(of("meeting"), <)
        meetings == [n \in DOMAIN inOrder |-> [kind |-> "meeting", ids |-> {inOrder[n]}]]
    IN  [made |-> TRUE, rows |-> rows,
         yesterday |-> OrElse(yesterday, "nothing"),
         today |-> OrElse(Upto(open \o meetings, MaxBullets), "nothing"),
         blockers |-> OrElse(Bullets("blocker", rows, of("blocked"), MaxBullets), "nothing")]

CommitCollect(c) ==
    LET pass == passes[c]
        match(row) == {s \in pass.signals : row.key = s.key}
        refreshed == [n \in DOMAIN evidence |->
                         IF match(evidence[n]) # {} /\ evidence[n].key \in pass.known
                         THEN RefreshedRow(evidence[n], CHOOSE s \in match(evidence[n]) : TRUE)
                         ELSE evidence[n]]
        missing == {s \in pass.signals : s.key \notin pass.known}
        added == SetToSeq({[key |-> s.key, thing |-> s.thing, type |-> s.type,
                            included |-> TRUE] : s \in missing})
    IN
    /\ pass # NoCollection
    /\ evidence' = refreshed \o added
    /\ twofold' = (twofold \/ \E n \in DOMAIN evidence \ pass.seen, s \in missing :
                                 evidence[n].key = s.key)
    /\ update' = IF c = Reviewer THEN Compile(evidence') ELSE update
    /\ passes' = [passes EXCEPT ![c] = NoCollection]
    /\ UNCHANGED <<part, matters, thread, said, spent>>

\* add_manual_note, for what no system saw.
AddNote(w) ==
    /\ Sort[w] = "note" /\ Spend
    /\ evidence' = Append(evidence, [key |-> <<w>>, thing |-> w, type |-> "completed",
                                     included |-> TRUE])
    /\ UNCHANGED <<part, matters, passes, update, thread, said, twofold>>

\* set_evidence_included, by the row.
Include(n, included) ==
    /\ n \in DOMAIN evidence /\ evidence[n].included # included
    /\ Spend
    /\ evidence' = [evidence EXCEPT ![n].included = included]
    /\ said' = IF included THEN said \ {evidence[n].key}
               ELSE said \cup {evidence[n].key}
    /\ UNCHANGED <<part, matters, passes, update, thread, twofold>>

Generate ==
    /\ update' = Compile(evidence) /\ update' # update /\ Spend
    /\ UNCHANGED <<part, matters, evidence, passes, thread, said, twofold>>
--------------------------------------------------------------------------------
(* The thread *)

\* Mutant of Score: the hour alone is enough.
ScoreAnyway(m, bot) == IF m.timely /\ ~m.reply THEN 2 ELSE 0

\* The hour, with the wording or the poster: a reply never.
Score(m, bot) ==
    LET matched == 1 + (IF m.signed THEN 1 ELSE 0) + (IF bot # "none" /\ m.bot = bot THEN 1 ELSE 0) IN
    IF m.timely /\ ~m.reply /\ matched >= 2 THEN matched ELSE 0

\* A setup's test remembers the first bot it finds.
BotAfter(best) == IF thread.bot = "none" /\ best # {} THEN (CHOOSE m \in best : TRUE).bot ELSE thread.bot

\* resolve, over what the channel's history holds: the best, the later of two.  It
\* touches nothing else and is explored before the work begins.
Resolve(history, learns) ==
    LET rank(m) == 10 * Score(m, thread.bot) + m.ts
        good == {m \in history : Score(m, thread.bot) > 0}
        best == {m \in good : \A o \in good : rank(m) >= rank(o)}
    IN
    /\ spent = 0
    /\ thread' = [found |-> best,
                  bot |-> IF learns THEN BotAfter(best) ELSE thread.bot]
    /\ UNCHANGED <<part, matters, evidence, passes, update, said, twofold, spent>>
--------------------------------------------------------------------------------
EvidenceInit ==
    /\ part = 1 /\ evidence = <<>> /\ update = NoUpdate /\ thread = NoThread /\ said = {} /\ twofold = FALSE
    /\ matters = [w \in Work |-> [status |-> "none", at |-> 0]] /\ passes = [c \in Collectors |-> NoCollection]
    /\ spent = 0

EvidenceNext ==
    \/ TimePasses
    \/ \E w \in Work : Move(w) \/ AddNote(w)
    \/ \E c \in Collectors : BeginCollect(c) \/ CommitCollect(c)
    \/ \E n \in DOMAIN evidence, included \in BOOLEAN : Include(n, included)
    \/ Generate
    \/ \E history \in SUBSET Messages, learns \in BOOLEAN : Resolve(history, learns)
--------------------------------------------------------------------------------
\* Every line rests on rows that were included; a completion on completed work.
LinesTraced ==
    update # NoUpdate =>
        \A section \in {"yesterday", "today", "blockers"} : \A n \in DOMAIN update[section] :
            LET line == update[section][n] IN
            /\ line.ids = {} <=> line.kind = "nothing"
            /\ \A id \in line.ids : update.rows[id].included
            /\ line.kind = "completed" => \A id \in line.ids : update.rows[id].type = "completed"

\* No row is told of twice, and none is left out while its section has room.
RowsToldOnce ==
    update # NoUpdate =>
        LET y == update.yesterday
            told == Cited(y) \cup Cited(update.today)
            of(types) == {n \in DOMAIN update.rows :
                             LET r == update.rows[n] IN r.included /\ r.type \in types}
        IN  /\ \A m, n \in DOMAIN y : m # n => y[m].ids \cap y[n].ids = {}
            /\ Cited(y) \cap Cited(update.today) = {}
            /\ Len(y) < MaxBullets => of({"completed", "progress"}) \subseteq Cited(y)
            /\ Len(update.today) < MaxBullets => of({"progress", "meeting"}) \subseteq told

\* A day's pass has read what was done that day and since the evening before.
EveningCounts ==
    \A c \in Collectors : passes[c] # NoCollection =>
        \A w \in Work : Sort[w] = "task" /\ passes[c].then[w].status = "done" =>
            \E s \in passes[c].signals : s.thing = w /\ s.type = "completed"

\* A signal has one row a day, however often it is collected, unless two collections cross.
OneRowASignal ==
    twofold \/ \A m, n \in DOMAIN evidence :
        m # n /\ evidence[m].key = evidence[n].key =>
            Sort[evidence[n].thing] = "note"

\* What the person excluded stays so through collections, unless two cross.
ExclusionKept ==
    twofold \/ \A n \in DOMAIN evidence :
        evidence[n].key \in said /\ evidence[n].included => Sort[evidence[n].thing] = "note"

\* A thread is a timely root that is worded as the reminder or comes from a bot that once
\* posted one so worded.
ThreadIsReminder ==
    /\ \A m \in thread.found : m.timely /\ ~m.reply /\ (m.signed \/ (m.bot # "none" /\ m.bot = thread.bot))
    /\ thread.bot # "none" => \E m \in Messages : m.signed /\ m.bot = thread.bot
================================================================================
