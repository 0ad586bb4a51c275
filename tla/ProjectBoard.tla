------------------------------ MODULE ProjectBoard -----------------------------
(* BoardProjects with their tasks and documents, and the lists over them, which are   *)
(* read page by page with a cursor while the rows change.                        *)
EXTENDS Integers, Sequences, FiniteSets, SequencesExt

CONSTANTS
    RowIds,      \* identifiers, in their order; which one a row gets is chance
    MaxTime,     \* bound: stamps of the clock; rows of one instant share a stamp
    Listings,    \* [table, project, status, sort, order, limit] that readers ask for
    StatusPatches,     \* statuses that patches give, "none" for a patch without one
    MaxRemovals  \* bound: removals begun

\* 0 stands for no project.
ASSUME BoardAssumption == 0 \notin RowIds

VARIABLES
    rows,      \* the rows of all tables by identifier
    now,
    removal,   \* the request that removes a project
    removals,  \* removals begun
    refusals,   \* refusals so far, with what explained each
    listing    \* the reader: what it asked, where its cursor is, what it was given

boardVars == <<rows, now, removal, removals, refusals, listing>>

GoneRow == [table |-> "gone", project |-> 0, status |-> "none", created |-> 0, updated |-> 0]
NoBoardRow == [table |-> "none", project |-> 0, status |-> "none", created |-> 0, updated |-> 0]
BoardRow(table, project, status, t) ==
    [table |-> table, project |-> project, status |-> status, created |-> t, updated |-> t]
NoRemoval == [project |-> 0, detached |-> {}, crossed |-> FALSE]

TimeSorts == {"created_at", "updated_at"}
\* Documents and approvals have no updated_at.
AllowedSorts(table) == IF table = "documents" THEN {"created_at"} ELSE TimeSorts

NoQuestion == [table |-> "none", project |-> 0, status |-> "any", sort |-> "none",
               order |-> "none", limit |-> 0]
NoListing == [of |-> NoQuestion, cursor |-> <<>>, items |-> <<>>, more |-> FALSE,
              unchanged |-> {}]

BoardTypeOK ==
    /\ rows \in [RowIds -> [table : {"none", "gone", "projects", "tasks", "documents"}, project : RowIds \cup {0},
                            status : {"none", "Active", "Done", "active", "indexed"},
                            created : 0..MaxTime, updated : 0..MaxTime]]
    /\ now \in 1..MaxTime /\ removals \in 0..MaxRemovals
    /\ removal.project \in RowIds \cup {0} /\ removal.detached \subseteq RowIds
    /\ refusals \in SUBSET SUBSET {"document", "crossing"}
    /\ listing.of \in Listings \cup {NoQuestion} /\ listing.unchanged \subseteq RowIds
    /\ listing.items \in Seq(RowIds)

BoardInit ==
    /\ rows = [i \in RowIds |-> NoBoardRow] /\ now = 1
    /\ removal = NoRemoval /\ removals = 0 /\ refusals = {}
    /\ listing = NoListing

Unused == {i \in RowIds : rows[i] = NoBoardRow}
BoardProjects == {i \in RowIds : rows[i].table = "projects"}
TasksOf(p) == {i \in RowIds : rows[i].table = "tasks" /\ rows[i].project = p}
DocumentsOf(p) == {i \in RowIds : rows[i].table = "documents" /\ rows[i].project = p}

\* Rows change, and a reader's rows that were touched are no longer the same.
WriteRows(new) ==
    /\ rows' = new
    /\ listing' = [listing EXCEPT !.unchanged = {i \in @ : new[i] = rows[i]}]

Tick ==
    /\ now < MaxTime /\ now' = now + 1
    /\ UNCHANGED <<rows, removal, removals, refusals, listing>>

--------------------------------------------------------------------------------
(* BoardProjects and tasks *)

\* A project and, when it names a milestone, its first task, in one transaction.
CreateProject(p) ==
    /\ p \in Unused
    /\ \/ WriteRows([rows EXCEPT ![p] = BoardRow("projects", 0, "Active", now)])
       \/ \E t \in Unused \ {p} :
             WriteRows([rows EXCEPT ![p] = BoardRow("projects", 0, "Active", now),
                                ![t] = BoardRow("tasks", p, "active", now)])
    /\ UNCHANGED <<now, removal, removals, refusals>>

\* Only what the patch gives is set; without a status it gives another field.
UpdateProject(p, patch) ==
    /\ p \in BoardProjects /\ patch # rows[p].status
    /\ WriteRows([rows EXCEPT ![p].status = IF patch = "none" THEN @ ELSE patch, ![p].updated = now])
    /\ UNCHANGED <<now, removal, removals, refusals>>

\* The database refuses a task of a project that is not there.
CreateTask(t, p) ==
    /\ t \in Unused /\ p \in BoardProjects \cup {0}
    /\ WriteRows([rows EXCEPT ![t] = BoardRow("tasks", p, "active", now)])
    /\ removal' = [removal EXCEPT !.crossed = @ \/ (p # 0 /\ p = removal.project)]
    /\ UNCHANGED <<now, removals, refusals>>

IndexDocument(d, p) ==
    /\ d \in Unused /\ p \in BoardProjects
    /\ WriteRows([rows EXCEPT ![d] = BoardRow("documents", p, "indexed", now)])
    /\ UNCHANGED <<now, removal, removals, refusals>>

\* Another part of the system changes a task.
TaskChanges(t) ==
    /\ rows[t].table = "tasks" /\ rows[t].updated < now
    /\ WriteRows([rows EXCEPT ![t].updated = now])
    /\ UNCHANGED <<now, removal, removals, refusals>>

\* Mutant: the tasks are left as they are.
NothingToDetach(p) == {}

\* A removal reads the project's tasks, and detaches them as it deletes.
ToDetach(p) == TasksOf(p)
BeginRemoval(p) ==
    /\ p \in BoardProjects /\ removal = NoRemoval /\ removals < MaxRemovals
    /\ removal' = [project |-> p, detached |-> ToDetach(p), crossed |-> FALSE]
    /\ removals' = removals + 1
    /\ UNCHANGED <<rows, now, refusals, listing>>

\* Foreign keys of rows that were not detached stop it, and all is rolled back.
StillReferring == (TasksOf(removal.project) \cup DocumentsOf(removal.project)) \ removal.detached

CommitRemoval ==
    /\ removal # NoRemoval
    /\ IF StillReferring = {}
       THEN /\ WriteRows([i \in RowIds |->
                        IF i = removal.project THEN GoneRow
                        ELSE IF i \in removal.detached
                             THEN [rows[i] EXCEPT !.project = 0, !.updated = now]
                        ELSE rows[i]])
            /\ UNCHANGED refusals
       ELSE /\ refusals' = refusals \cup
                 {{why \in {"document", "crossing"} :
                     \/ why = "document" /\ DocumentsOf(removal.project) # {}
                     \/ why = "crossing" /\ removal.crossed}}
            /\ UNCHANGED <<rows, listing>>
    /\ removal' = NoRemoval
    /\ UNCHANGED <<now, removals>>

--------------------------------------------------------------------------------
(* Lists, page by page *)

\* What the filters of each list let through; projects are not asked for by project.
ByStatus(of, S) == {i \in S : of.status # "any" => rows[i].status = of.status}
ByProject(of, S) == {i \in S : of.project # 0 => rows[i].project = of.project}
ListTasks(of) == ByProject(of, ByStatus(of, {i \in RowIds : rows[i].table = "tasks"}))
ListProjects(of) == ByStatus(of, BoardProjects)
ListDocuments(of) == ByProject(of, ByStatus(of, {i \in RowIds : rows[i].table = "documents"}))
Matching(of) ==
    CASE of.table = "tasks" -> ListTasks(of)
      [] of.table = "projects" -> ListProjects(of)
      [] of.table = "documents" -> ListDocuments(of)
      [] OTHER -> {}

SortValue(of, i) == IF of.sort = "created_at" THEN rows[i].created ELSE rows[i].updated

\* One key before another in ascending order: the value, then the identifier.
KeyLess(k, l) == k[1] < l[1] \/ (k[1] = l[1] /\ k[2] < l[2])
Precedes(of, k, l) == IF of.order = "asc" THEN KeyLess(k, l) ELSE KeyLess(l, k)
CursorOf(of, i) == <<SortValue(of, i), i>>

\* Mutant: the cursor seeks by the sort's value without the identifier.
BeyondValue(of, cursor) ==
    {i \in Matching(of) : cursor = <<>> \/ IF of.order = "asc" THEN SortValue(of, i) > cursor[1]
                                           ELSE SortValue(of, i) < cursor[1]}

Beyond(of, cursor) ==
    {i \in Matching(of) : cursor = <<>> \/ Precedes(of, cursor, CursorOf(of, i))}

\* clamp_limit.
MaxLimit == 200
DefaultLimit == 50
PageSize(limit) == IF limit = 0 THEN DefaultLimit ELSE IF limit > MaxLimit THEN MaxLimit ELSE limit

\* The page's rows in order, and whether a row more was found.
Ordered(of, S) == SetToSortSeq(S, LAMBDA i, j : Precedes(of, CursorOf(of, i), CursorOf(of, j)))
KeysetPage(of, cursor) ==
    LET found == Ordered(of, Beyond(of, cursor))
        size == PageSize(of.limit)
        more == Len(found) > size
        page == IF more THEN SubSeq(found, 1, size) ELSE found
    IN [rows |-> page, more |-> more,
        next |-> IF more THEN CursorOf(of, page[size]) ELSE <<>>]

AskList(of) ==
    /\ listing = NoListing /\ of.sort \in AllowedSorts(of.table)
    /\ LET got == KeysetPage(of, <<>>)
       IN listing' = [of |-> of, items |-> got.rows, cursor |-> got.next,
                      more |-> got.more, unchanged |-> Matching(of)]
    /\ UNCHANGED <<rows, now, removal, removals, refusals>>

AskNextPage ==
    /\ listing.more
    /\ LET got == KeysetPage(listing.of, listing.cursor)
       IN listing' = [listing EXCEPT !.items = @ \o got.rows, !.cursor = got.next,
                                     !.more = got.more]
    /\ UNCHANGED <<rows, now, removal, removals, refusals>>

ReaderLeaves ==
    /\ listing # NoListing /\ listing' = NoListing
    /\ UNCHANGED <<rows, now, removal, removals, refusals>>

BoardNext ==
    \/ Tick
    \/ \E p \in RowIds : CreateProject(p)
    \/ \E p \in RowIds : \E patch \in StatusPatches : UpdateProject(p, patch)
    \/ \E t \in RowIds : \E p \in RowIds \cup {0} : CreateTask(t, p)
    \/ \E d \in RowIds : \E p \in RowIds : IndexDocument(d, p)
    \/ \E t \in RowIds : TaskChanges(t)
    \/ \E p \in RowIds : BeginRemoval(p)
    \/ CommitRemoval
    \/ \E of \in Listings : AskList(of)
    \/ AskNextPage
    \/ ReaderLeaves

--------------------------------------------------------------------------------
(* Properties *)

Given(i) == Cardinality({n \in DOMAIN listing.items : listing.items[n] = i})

\* A reader that comes to the end of a list has been given each row that was there
\* from the first page on and did not change, one time, whatever was created, changed
\* and removed meanwhile, and by whatever it sorts; by creation no row comes twice.
PagesComplete ==
    /\ \A i \in listing.unchanged : Given(i) <= 1 /\ (~listing.more => Given(i) = 1)
    /\ listing.of.sort = "created_at" => \A i \in RowIds : Given(i) <= 1

\* A project can be removed whatever tasks it has: only a document of it, or a task
\* that was added while it was being removed, stands in the way.
RemovalsExplained == {} \notin refusals

================================================================================
