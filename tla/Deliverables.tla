---------------------------- MODULE Deliverables ----------------------------
(***************************************************************************)
(* Deliverables and their version history over the memory store:           *)
(* handler/deliverable.go, service/deliverable.go and the deliverable      *)
(* parts of store/memory.go.  Rows are replaced, never written in place,   *)
(* and WithTx neither locks nor rolls back, so that the two store calls of *)
(* a create and of an update are two steps.  Title and content are one     *)
(* value; task and agent, which only decide whether a request is refused,  *)
(* are left out.                                                           *)
(***************************************************************************)
EXTENDS Naturals, Sequences, FiniteSets, Records

CONSTANTS
    DeliverableIds,
    Contents,           \* titles and contents
    Writers,            \* requests in flight
    MaxVersion          \* bound: version numbers

\* A row, in either table.
DeliverableRows == [version : 1..MaxVersion, content : Contents]

ASSUME DeliverablesAssumption ==
    /\ MaxVersion \in Nat \ {0}
    /\ None \notin DeliverableRows /\ None \notin DeliverableIds

VARIABLES
    deliverable,    \* per id None or the main row
    versionRows,    \* per id its version rows in the order of insertion
    writer          \* per request where it is

deliverableVars == <<deliverable, versionRows, writer>>

IdleWriter == [pc |-> "idle", id |-> None, row |-> None]
VersionRow(n, x) == [version |-> n, content |-> x]

DeliverablesInit ==
    /\ deliverable = [d \in DeliverableIds |-> None]
    /\ versionRows = [d \in DeliverableIds |-> <<>>]
    /\ writer = [w \in Writers |-> IdleWriter]

VersionNumbers(d) == {versionRows[d][i].version : i \in 1..Len(versionRows[d])}

\* Create and Update of the main row.
MemoryDeliverableCreate(d, row) == deliverable' = [deliverable EXCEPT ![d] = row]
MemoryDeliverableUpdate(d, row) == deliverable' = [deliverable EXCEPT ![d] = row]

\* Mistake: the key is looked up in the main row.
MemoryVersionTakenMain(d, n) == deliverable[d].version >= n

\* Insert of a version row: its key is the id and the number.
MemoryVersionTaken(d, n) == n \in VersionNumbers(d)
MemoryVersionInsert(d, row) == versionRows' = [versionRows EXCEPT ![d] = Append(@, row)]

\* ListVersions of the store, newest first.
ListVersions(d) ==
    CHOOSE s \in [1..Len(versionRows[d]) -> {versionRows[d][i] : i \in 1..Len(versionRows[d])}] :
        \A i, j \in 1..Len(versionRows[d]) : i < j => s[i].version > s[j].version

WriterAnswered(w) == writer' = [writer EXCEPT ![w] = IdleWriter]
WriterAt(w, pc) == writer[w].pc = pc

GetDeliverable(d) == deliverable[d]

\* CreateDeliverable: the checks passed, an id was drawn; the main row is written ...
CreateDeliverable(w, d, x) ==
    /\ GetDeliverable(d) = None
    /\ MemoryDeliverableCreate(d, VersionRow(1, x))
    /\ writer' = [writer EXCEPT ![w] = [pc |-> "first", id |-> d, row |-> VersionRow(1, x)]]
    /\ UNCHANGED versionRows

\* ... and then the first version row, which nobody else can have written.
CreateDeliverableVersion(w) ==
    LET d == writer[w].id IN
    /\ WriterAt(w, "first")
    /\ ~MemoryVersionTaken(d, 1)
    /\ MemoryVersionInsert(d, writer[w].row)
    /\ WriterAnswered(w)
    /\ UNCHANGED deliverable

\* UpdateDeliverable: the version after the one of the main row ...
UpdateDeliverable(w, d, x) ==
    /\ GetDeliverable(d) # None
    /\ GetDeliverable(d).version < MaxVersion
    /\ writer' = [writer EXCEPT ![w] =
          [pc |-> "insert", id |-> d, row |-> VersionRow(GetDeliverable(d).version + 1, x)]]
    /\ UNCHANGED <<deliverable, versionRows>>

\* ... is inserted, or refused with 409 when another update has it already ...
UpdateDeliverableInsert(w) ==
    LET d == writer[w].id IN
    /\ WriterAt(w, "insert")
    /\ \/ /\ MemoryVersionTaken(d, writer[w].row.version)
          /\ WriterAnswered(w)
          /\ UNCHANGED versionRows
       \/ /\ ~MemoryVersionTaken(d, writer[w].row.version)
          /\ MemoryVersionInsert(d, writer[w].row)
          /\ writer' = [writer EXCEPT ![w].pc = "main"]
    /\ UNCHANGED deliverable

\* ... and becomes the main row.
UpdateDeliverableMain(w) ==
    /\ WriterAt(w, "main")
    /\ MemoryDeliverableUpdate(writer[w].id, writer[w].row)
    /\ WriterAnswered(w)
    /\ UNCHANGED versionRows

\* The handlers: POST and PUT.
PostDeliverable(w, d, x) == WriterAt(w, "idle") /\ CreateDeliverable(w, d, x)
PutDeliverable(w, d, x) == WriterAt(w, "idle") /\ UpdateDeliverable(w, d, x)

DeliverablesNext ==
    \E w \in Writers :
        \/ \E d \in DeliverableIds, x \in Contents :
              PostDeliverable(w, d, x) \/ PutDeliverable(w, d, x)
        \/ CreateDeliverableVersion(w) \/ UpdateDeliverableInsert(w) \/ UpdateDeliverableMain(w)

DeliverablesSpec == DeliverablesInit /\ [][DeliverablesNext]_deliverableVars

-----------------------------------------------------------------------------
\* Properties.

DeliverablesTypeOK ==
    /\ deliverable \in [DeliverableIds -> DeliverableRows \cup {None}]
    /\ versionRows \in [DeliverableIds -> Seq(DeliverableRows)]
    /\ writer \in [Writers -> {IdleWriter} \cup
          [pc : {"first", "insert", "main"}, id : DeliverableIds, row : DeliverableRows]]

\* The requests that are about to make a write to d.
Busy(d, pc) == {w \in Writers : WriterAt(w, pc) /\ writer[w].id = d}

\* The history of a deliverable is complete at every moment, although nothing
\* makes the two writes of an update atomic: its versions are 1..n without a
\* gap or a repetition; the main row is the newest of them or, while its
\* writer is between the two calls, the one before; and what it shows is what
\* the history says of that version.
HistoryIsComplete ==
    \A d \in DeliverableIds :
        deliverable[d] # None =>
            LET newest == deliverable[d].version + Cardinality(Busy(d, "main"))
            IN  /\ Cardinality(Busy(d, "main")) <= 1
                /\ VersionNumbers(d) = (IF Busy(d, "first") = {} THEN 1 ELSE 2)..newest
                /\ Len(versionRows[d]) = Cardinality(VersionNumbers(d))
                /\ MemoryVersionTaken(d, deliverable[d].version) =>
                      \E i \in 1..Len(ListVersions(d)) : ListVersions(d)[i] = GetDeliverable(d)

\* What the rows of a deliverable are while its requests are between their
\* writes: the main row is never more than one version behind the history, the
\* request that will move it holds that version, and every other update holds
\* one that is taken or the next.
HistoryInv(d) ==
    LET main == deliverable[d]
        rows == versionRows[d]
    IN  /\ main = None =>
              rows = <<>> /\ \A pc \in {"first", "insert", "main"} : Busy(d, pc) = {}
        /\ main # None =>
              /\ VersionNumbers(d) = {n \in 1..(main.version + 1) :
                    /\ n = 1 => Busy(d, "first") = {}
                    /\ n = main.version + 1 => Busy(d, "main") # {}}
              /\ \A i, j \in 1..Len(rows) : rows[i].version = rows[j].version => i = j
              /\ main.version \in VersionNumbers(d) => \E i \in 1..Len(rows) : rows[i] = main
              /\ \A w \in Busy(d, "first") :
                    /\ writer[w].row.version = 1
                    /\ main.version = 1 => writer[w].row = main
              /\ \A w \in Busy(d, "insert") : writer[w].row.version \in 2..(main.version + 1)
              /\ \A w \in Busy(d, "main") :
                    /\ writer[w].row.version = main.version + 1
                    /\ \E i \in 1..Len(rows) : rows[i] = writer[w].row
              /\ \A pc \in {"first", "main"} : \A v, w \in Busy(d, pc) : v = w

DeliverablesInv == DeliverablesTypeOK /\ \A d \in DeliverableIds : HistoryInv(d)
=============================================================================
