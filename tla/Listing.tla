------------------------------ MODULE Listing -------------------------------
(***************************************************************************)
(* The paged lists: a client walks one of them page by page while rows are *)
(* inserted, change (and so enter or leave the filtered list) or are       *)
(* deleted.  Agents, capabilities, executions and deliverables are paged   *)
(* by a cursor, the id of the last row; projects, tasks and audit entries  *)
(* by a page number.  A store call is one step.  A row is its creation     *)
(* time and whether the filter matches it; ids are ordered as uuids are.   *)
(* Deleting a project takes all of its agents at once: the rest of a walk  *)
(* through them is empty, as it is here when every row has left.           *)
(***************************************************************************)
EXTENDS Naturals, FiniteSets, Records

CONSTANTS
    ListRows,           \* ids, a set of numbers
    ListLimits,         \* limits that clients ask for
    DefaultLimit,       \* the limit when there is none (50 or 20)
    MaxLimit            \* the largest limit (200 or 100)

ListRecords == [at : Nat, matches : BOOLEAN]

ASSUME ListingAssumption ==
    /\ ListRows \subseteq Nat /\ IsFiniteSet(ListRows) /\ ListLimits \subseteq Nat
    /\ None \notin ListRows /\ None \notin ListRecords
    /\ DefaultLimit \in 1..MaxLimit /\ MaxLimit \in Nat

VARIABLES
    list,       \* which list, in which store
    listed,     \* per id None or its row
    deleted,    \* ids whose row was deleted while a cursor may name it
    walk,       \* the client: pc, cursor, page, limit, rows seen and how often
    steady,     \* history: rows that matched since the walk began
    upset       \* history: what happened to the list since:
                \* "left", "came", and of the row of the cursor "lost" and "deleted"

listVars == <<list, listed, deleted, walk, steady, upset>>

CursorLists == {"memoryAgents", "postgresAgents", "memoryCapabilities", "postgresCapabilities",
                "memoryExecutions", "postgresExecutions",
                "memoryDeliverables", "postgresDeliverables"}
OffsetLists == {"memoryProjects", "postgresProjects", "memoryTasks",
                "memoryAuditLogs", "postgresAuditLogs"}

\* Lists in ascending order of creation; the others are newest first.
Ascending == {"memoryAgents", "postgresAgents", "memoryProjects", "memoryTasks"}
\* The catalog is seeded once; deliverables and audit entries never change their filter.
Growing == (CursorLists \cup OffsetLists) \ {"memoryCapabilities", "postgresCapabilities"}
Changing == Growing \ {"memoryDeliverables", "postgresDeliverables",
                       "memoryAuditLogs", "postgresAuditLogs"}
\* Rows that go with their task or their agent (ON DELETE CASCADE).
Cascaded == {"postgresExecutions", "postgresDeliverables"}

ListInit ==
    /\ list \in CursorLists \cup OffsetLists
    /\ listed = [r \in ListRows |-> None]
    /\ deleted = {}
    /\ walk = [pc |-> "idle", cursor |-> None, page |-> 1, limit |-> 1,
               seen |-> [r \in ListRows |-> 0]]
    /\ steady = {} /\ upset = {}

Matches == {r \in ListRows : listed[r] # None /\ listed[r].matches}
Walking == walk.pc = "walking"

\* Lists paged by a cursor break ties by id, the catalog is sorted by name.
RowBefore(r, s) ==
    CASE list \in {"memoryCapabilities", "postgresCapabilities"} -> r < s
      [] list \in Ascending -> \/ listed[r].at < listed[s].at
                               \/ listed[r].at = listed[s].at /\ r < s
      [] OTHER -> \/ listed[r].at > listed[s].at
                  \/ listed[r].at = listed[s].at /\ r > s

\* The first of the rows of S, and the cursor for the next page, if there is one.
FirstPage(S, limit) ==
    LET data == {r \in S : Cardinality({s \in S : RowBefore(s, r)}) < limit} IN
    [data |-> data,
     next |-> IF data = S \/ data = {} THEN None
              ELSE CHOOSE r \in data : \A s \in data : ~RowBefore(r, s)]

After(c) == {r \in Matches : RowBefore(c, r)}

\* Mistake: the row of the cursor is on the next page again.
MemoryAgentListAgain(c, limit) ==
    FirstPage(IF c \in Matches THEN After(c) \cup {c} ELSE Matches, limit)

\* The memory store looks for the cursor among the matches; without it, from the start.
MemoryAgentList(c, limit) == FirstPage(IF c \in Matches THEN After(c) ELSE Matches, limit)
MemoryCapabilityList(c, limit) == FirstPage(IF c \in Matches THEN After(c) ELSE Matches, limit)

\* The others compare with the row of the cursor, matching or not.  It is always
\* there, but for the two lists that lose rows by a cascade: without it, from the
\* start.
PostgresAgentList(c, limit) == FirstPage(IF c = None THEN Matches ELSE After(c), limit)
PostgresCapabilityList(c, limit) == FirstPage(IF c = None THEN Matches ELSE After(c), limit)
MemoryExecutionList(c, limit) == FirstPage(IF c = None THEN Matches ELSE After(c), limit)
PostgresExecutionList(c, limit) ==
    FirstPage(IF c = None \/ c \in deleted THEN Matches ELSE After(c), limit)
MemoryDeliverableList(c, limit) == FirstPage(IF c = None THEN Matches ELSE After(c), limit)
PostgresDeliverableList(c, limit) ==
    FirstPage(IF c = None \/ c \in deleted THEN Matches ELSE After(c), limit)

CursorPage(c, limit) ==
    CASE list = "memoryAgents"         -> MemoryAgentList(c, limit)
      [] list = "postgresAgents"       -> PostgresAgentList(c, limit)
      [] list = "memoryCapabilities"   -> MemoryCapabilityList(c, limit)
      [] list = "postgresCapabilities" -> PostgresCapabilityList(c, limit)
      [] list = "memoryExecutions"     -> MemoryExecutionList(c, limit)
      [] list = "postgresExecutions"   -> PostgresExecutionList(c, limit)
      [] list = "memoryDeliverables"   -> MemoryDeliverableList(c, limit)
      [] list = "postgresDeliverables" -> PostgresDeliverableList(c, limit)

\* The orders in which a store may return rows of the same creation time.
TieOrders == {f \in [ListRows -> ListRows] : \A r, s \in ListRows : f[r] = f[s] => r = s}

\* Rows of one page number.  Ties in the creation time come in any order.
OffsetRows(order, page, limit) ==
    LET before(r) == {s \in Matches : \/ listed[s].at < listed[r].at
                                      \/ listed[s].at = listed[r].at /\ order[s] < order[r]}
        rank(r) == IF list \in Ascending THEN Cardinality(before(r))
                   ELSE Cardinality(Matches) - 1 - Cardinality(before(r))
    IN  {r \in Matches : rank(r) \in (page - 1) * limit..page * limit - 1}

MemoryProjectList(order, page, limit) == OffsetRows(order, page, limit)
PostgresProjectList(order, page, limit) == OffsetRows(order, page, limit)
\* Mistake: the offset is taken from the page number itself.
MemoryTaskListSkips(order, page, limit) == OffsetRows(order, page + 1, limit)

MemoryTaskList(order, page, limit) == OffsetRows(order, page, limit)
MemoryAuditLogList(order, page, limit) == OffsetRows(order, page, limit)
PostgresAuditLogList(order, page, limit) == OffsetRows(order, page, limit)

OffsetPage(order, page, limit) ==
    CASE list = "memoryProjects"    -> MemoryProjectList(order, page, limit)
      [] list = "postgresProjects"  -> PostgresProjectList(order, page, limit)
      [] list = "memoryTasks"       -> MemoryTaskList(order, page, limit)
      [] list = "memoryAuditLogs"   -> MemoryAuditLogList(order, page, limit)
      [] list = "postgresAuditLogs" -> PostgresAuditLogList(order, page, limit)

\* The stores clamp the limit of a cursor page; the services replace one that
\* is out of range by the default.
ClampLimit(n) == IF n = 0 THEN DefaultLimit ELSE IF n > MaxLimit THEN MaxLimit ELSE n
ServiceLimit(n) == IF n = 0 \/ n > MaxLimit THEN DefaultLimit ELSE n
ListProjects(n) == ServiceLimit(n)
ListProjectTasks(n) == ServiceLimit(n)
ListLogs(n) == ServiceLimit(n)

LimitOf(n) == CASE list \in CursorLists -> ClampLimit(n)
                [] list \in {"memoryProjects", "postgresProjects"} -> ListProjects(n)
                [] list = "memoryTasks" -> ListProjectTasks(n)
                [] OTHER -> ListLogs(n)

-----------------------------------------------------------------------------
LastAt == LET ats == {listed[r].at : r \in {s \in ListRows : listed[s] # None}} IN
          IF ats = {} THEN 0 ELSE CHOOSE n \in ats : \A k \in ats : k <= n

Upset(what) == upset' = IF Walking THEN upset \cup {what} ELSE upset

\* Create: now, which may be the instant of the row before.
InsertRow(r, at) ==
    /\ listed[r] = None
    /\ walk.pc = "idle" \/ (Walking /\ list \in Growing)
    /\ at \in LastAt..LastAt + 1
    /\ listed' = [listed EXCEPT ![r] = [at |-> at, matches |-> TRUE]]
    /\ Upset("came")
    /\ UNCHANGED <<list, deleted, walk, steady>>

\* An update (or a deletion, for the lists that know it) takes a row out ...
RowLeaves(r) ==
    /\ r \in Matches /\ list \in Changing /\ walk.pc # "done"
    /\ listed' = [listed EXCEPT ![r].matches = FALSE]
    /\ upset' = IF Walking
                THEN upset \cup {"left"} \cup (IF walk.cursor = r THEN {"lost"} ELSE {})
                ELSE upset
    /\ steady' = steady \ {r}
    /\ UNCHANGED <<list, deleted, walk>>

\* ... and another brings it back.
RowReturns(r) ==
    /\ listed[r] # None /\ ~listed[r].matches /\ r \notin deleted /\ walk.pc # "done"
    /\ listed' = [listed EXCEPT ![r].matches = TRUE]
    /\ Upset("came")
    /\ UNCHANGED <<list, deleted, walk, steady>>

\* Its task or its agent is deleted, and the row with it, matching or not.
RowDeleted(r) ==
    /\ listed[r] # None /\ r \notin deleted /\ list \in Cascaded /\ walk.pc # "done"
    /\ listed' = [listed EXCEPT ![r].matches = FALSE]
    /\ deleted' = deleted \cup {r}
    /\ upset' = IF Walking
                THEN upset \cup {"left"} \cup (IF walk.cursor = r THEN {"lost", "deleted"} ELSE {})
                ELSE upset
    /\ steady' = steady \ {r}
    /\ UNCHANGED <<list, walk>>

StartWalk(n) ==
    /\ walk.pc = "idle"
    /\ walk' = [walk EXCEPT !.pc = "walking", !.limit = LimitOf(n)]
    /\ steady' = Matches
    /\ UNCHANGED <<list, listed, deleted, upset>>

Saw(data) == [r \in ListRows |-> IF r \in data /\ walk.seen[r] < 2 THEN walk.seen[r] + 1
                                                                   ELSE walk.seen[r]]

\* The next page by the cursor; the walk ends when the answer carries none.
NextByCursor ==
    LET page == CursorPage(walk.cursor, walk.limit) IN
    /\ Walking /\ list \in CursorLists
    /\ walk' = [walk EXCEPT !.cursor = page.next, !.seen = Saw(page.data),
                            !.pc = IF page.next = None THEN "done" ELSE "walking"]
    /\ UNCHANGED <<list, listed, deleted, steady, upset>>

\* The next page by its number; the walk ends with the number of pages.
NextByNumber(order) ==
    LET pages == (Cardinality(Matches) + walk.limit - 1) \div walk.limit IN
    /\ Walking /\ list \in OffsetLists
    /\ walk' = [walk EXCEPT !.page = @ + 1, !.seen = Saw(OffsetPage(order, walk.page, walk.limit)),
                            !.pc = IF walk.page >= pages THEN "done" ELSE "walking"]
    /\ UNCHANGED <<list, listed, deleted, steady, upset>>

ListNext ==
    \/ \E r \in ListRows :
          \/ \E at \in 0..Cardinality(ListRows) : InsertRow(r, at)
          \/ RowLeaves(r) \/ RowReturns(r) \/ RowDeleted(r)
    \/ \E n \in ListLimits : StartWalk(n)
    \/ NextByCursor
    \/ \E order \in TieOrders : NextByNumber(order)

ListSpec == ListInit /\ [][ListNext]_listVars

-----------------------------------------------------------------------------
\* Properties.

ListTypeOK ==
    /\ list \in CursorLists \cup OffsetLists
    /\ listed \in [ListRows -> {None} \cup ListRecords]
    /\ walk \in [pc : {"idle", "walking", "done"}, cursor : ListRows \cup {None},
                 page : Nat \ {0}, limit : Nat \ {0}, seen : [ListRows -> 0..2]]
    /\ steady \subseteq Matches
    /\ deleted \subseteq {r \in ListRows : listed[r] # None} \ Matches
    /\ upset \subseteq {"came"} \cup (IF list \in Changing \cup Cascaded THEN {"left", "lost"} ELSE {})
                             \cup (IF list \in Cascaded THEN {"deleted"} ELSE {})

Ties == \E r, s \in {q \in ListRows : listed[q] # None} : r # s /\ listed[r].at = listed[s].at

\* A complete walk shows every row that was on the list all the time.  By cursor
\* this holds whatever changes meanwhile, also when the row of the cursor goes;
\* by number a row can be missed when another one left the list, or when two
\* rows have the same creation time.
WalkSkipsNothing ==
    walk.pc = "done" =>
        \A r \in steady : walk.seen[r] > 0 \/ (list \in OffsetLists /\ (Ties \/ "left" \in upset))

\* A list that did not find the row of the cursor, and started from the first.
MayRestart ==
    \/ list = "memoryAgents" /\ "lost" \in upset
    \/ list \in Cascaded /\ "deleted" \in upset

\* A walk shows no row twice.  By cursor only two kinds of list can, when they start
\* again from the first row: memory's agents when the row of the cursor left the
\* filtered list, postgres's executions and deliverables when it was deleted.
\* By number a row comes twice when a row came to the list, or for a tie.
WalkRepeatsNothing ==
    \A r \in ListRows :
        walk.seen[r] > 1 =>
            \/ MayRestart
            \/ list \in OffsetLists /\ (Ties \/ "came" \in upset)

-----------------------------------------------------------------------------
\* The inductive invariant.

\* The number of matching rows before r.
Rank(r) == Cardinality({s \in Matches : RowBefore(s, r)})

\* What the client has seen are rows; before the walk it has seen nothing.
SeenInv ==
    /\ walk.cursor # None => listed[walk.cursor] # None
    /\ \A r \in ListRows : walk.seen[r] > 0 => listed[r] # None
    /\ walk.pc = "idle" => /\ walk.cursor = None /\ walk.page = 1
                           /\ \A r \in ListRows : walk.seen[r] = 0

\* The cursor divides the rows: those that stayed are seen or come after it, and
\* those seen do not come after it, unless the walk started again.
CursorInv ==
    list \in CursorLists /\ Walking =>
        IF walk.cursor = None
        THEN \A r \in ListRows : walk.seen[r] = 0
        ELSE /\ walk.cursor \notin Matches => "lost" \in upset
             /\ walk.cursor \in deleted => "deleted" \in upset
             /\ \A r \in steady : walk.seen[r] > 0 \/ RowBefore(walk.cursor, r)
             /\ \/ MayRestart
                \/ \A r \in ListRows : walk.seen[r] > 0 => ~RowBefore(walk.cursor, r)

\* The pages shown so far hold (page - 1) * limit rows: while no row leaves, a row
\* that stayed is seen or has its place after them; while none comes, a row seen
\* has its place among them.
NumberInv ==
    list \in OffsetLists /\ Walking /\ ~Ties =>
        /\ "left" \in upset \/ \A r \in steady :
               walk.seen[r] > 0 \/ Rank(r) >= (walk.page - 1) * walk.limit
        /\ "came" \in upset \/ \A r \in Matches :
               walk.seen[r] > 0 => Rank(r) < (walk.page - 1) * walk.limit

ListInv ==
    ListTypeOK /\ SeenInv /\ CursorInv /\ NumberInv /\ WalkSkipsNothing /\ WalkRepeatsNothing
=============================================================================
