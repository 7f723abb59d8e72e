---------------------------- MODULE AdminInquiry ----------------------------
(***************************************************************************)
(* Administrators change one row of the inquiries table with forms that    *)
(* were rendered earlier.  A form carries the revision it was rendered     *)
(* from; changeStatus, archive and restore read the row and then update it *)
(* in a READ COMMITTED transaction, in which another administrator may     *)
(* commit in between; addNote is a single UPDATE.  The UPDATE holds the    *)
(* row lock until the event is inserted and the transaction commits, so it *)
(* is one step.  An answer that changes nothing ("conflict" or "invalid"   *)
(* before the UPDATE) is a stuttering step and has no action.              *)
(***************************************************************************)
EXTENDS Integers, Sequences

CONSTANTS
    Admins,         \* administrators with the detail page open
    RevisionLimit   \* largest expectedRevision the repository accepts

ASSUME RevisionAssumption == RevisionLimit \in Nat

NoStatus == "null"
NoForm   == [revision |-> -1]

VARIABLES
    row,      \* [status, revision, preArchiveStatus] of the inquiry
    moves,    \* inquiry_events with a status: [type, from, to], in order
    notes,    \* number of admin_notes rows, each with its note_added event
    form,     \* the row each administrator's page was rendered from
    request,  \* the mutation whose transaction is open, or NoRequest
    seen      \* the row its SELECT returned

vars == <<row, moves, notes, form, request, seen>>

NoRequest == [op |-> "none", to |-> NoStatus]

\* What the inquiry is when archiving is left aside.
Standing == IF row.status = "archived" THEN row.preArchiveStatus ELSE row.status

Workflow == INSTANCE InquiryWorkflow WITH standing <- Standing

Statuses == Workflow!Active \union {"archived"}

Requests == [op : {"changeStatus"}, to : Statuses]
              \union {[op |-> "archive", to |-> "archived"]}
              \union {[op |-> "restore", to |-> NoStatus]}

-----------------------------------------------------------------------------
\* validCommonInput(): one more still fits the integer column.
Accepted(a) == form[a] # NoForm /\ form[a].revision <= RevisionLimit

\* Mutant: any other active status may be chosen.
PermittedAnyStatus(q, r) ==
    CASE q.op = "changeStatus" -> /\ r.status \in Workflow!Active \ {q.to}
                                  /\ q.to \in Workflow!Active
      [] q.op = "archive"      -> r.status \in Workflow!Active
      [] q.op = "restore"      -> /\ r.status = "archived"
                                  /\ r.preArchiveStatus \in Workflow!Active

\* The conditions between the SELECT, which returned r, and the UPDATE.
Permitted(q, r) ==
    CASE q.op = "changeStatus" -> q.to \in Workflow!transitionGraph[r.status]
      [] q.op = "archive"      -> r.status \in Workflow!Active
      [] q.op = "restore"      -> /\ r.status = "archived"
                                  /\ r.preArchiveStatus \in Workflow!Active

\* Mutant: restore does not clear the archive fields.
UpdatedKeepsArchive(q, s) ==
    [status           |-> IF q.op = "restore" THEN s.preArchiveStatus ELSE q.to,
     preArchiveStatus |-> IF q.op = "archive" THEN s.status ELSE row.preArchiveStatus,
     revision         |-> row.revision + 1]

\* The SET clause of each mutation: values from the row s that was read, the
\* revision from the row that is updated.
Updated(q, s) ==
    [status           |-> IF q.op = "restore" THEN s.preArchiveStatus ELSE q.to,
     preArchiveStatus |-> IF q.op = "archive" THEN s.status ELSE
                          IF q.op = "restore" THEN NoStatus ELSE row.preArchiveStatus,
     revision         |-> row.revision + 1]

\* The event with its metadata, also from the row that was read.
Event(q, s) ==
    [type |-> q.op,
     from |-> s.status,
     to   |-> IF q.op = "restore" THEN s.preArchiveStatus ELSE q.to]

\* Mutant: only the status is compared again.
UnchangedStatusOnly(a) == row.status = seen[a].status

\* The WHERE clause of the UPDATE.
Unchanged(a) == row.revision = form[a].revision /\ row.status = seen[a].status

-----------------------------------------------------------------------------
Init ==
    /\ row = [status |-> "received", revision |-> 0, preArchiveStatus |-> NoStatus]
    /\ moves = <<>>
    /\ notes = 0
    /\ form = [a \in Admins |-> NoForm]
    /\ request = [a \in Admins |-> NoRequest]
    /\ seen = [a \in Admins |-> NoForm]

\* The detail page is rendered, with the row's revision in its forms.
Render(a) ==
    /\ request[a] = NoRequest
    /\ form' = [form EXCEPT ![a] = row]
    /\ UNCHANGED <<row, moves, notes, request, seen>>

\* A transaction begins and its SELECT returns the committed row.
Read(a, q) ==
    /\ request[a] = NoRequest /\ Accepted(a)
    /\ row.revision = form[a].revision
    /\ Permitted(q, row)
    /\ request' = [request EXCEPT ![a] = q]
    /\ seen' = [seen EXCEPT ![a] = row]
    /\ UNCHANGED <<row, moves, notes, form>>

Finish(a) ==
    /\ request' = [request EXCEPT ![a] = NoRequest]
    /\ seen' = [seen EXCEPT ![a] = NoForm]
    /\ UNCHANGED <<notes, form>>

\* The UPDATE meets the row it expects: the event is inserted, COMMIT.
Update(a) ==
    /\ request[a] # NoRequest /\ Unchanged(a)
    /\ row' = Updated(request[a], seen[a])
    /\ moves' = Append(moves, Event(request[a], seen[a]))
    /\ Finish(a)

\* It does not ("conflict"), or the connection is lost: nothing is written.
Abandon(a) ==
    /\ request[a] # NoRequest
    /\ UNCHANGED <<row, moves>>
    /\ Finish(a)

\* addNote: UPDATE, note, event and COMMIT.
AddNote(a) ==
    /\ request[a] = NoRequest /\ Accepted(a)
    /\ row.revision = form[a].revision
    /\ row' = [row EXCEPT !.revision = @ + 1]
    /\ notes' = notes + 1
    /\ UNCHANGED <<moves, form, request, seen>>

Next ==
    \E a \in Admins :
        \/ Render(a)
        \/ \E q \in Requests : Read(a, q)
        \/ Update(a)
        \/ Abandon(a)
        \/ AddNote(a)

Spec == Init /\ [][Next]_vars

-----------------------------------------------------------------------------
(* Properties.                                                             *)

Row == [status : Statuses, revision : 0 .. RevisionLimit + 1,
        preArchiveStatus : Workflow!Active \union {NoStatus}]
Move == [type : {"changeStatus", "archive", "restore"}, from : Statuses, to : Statuses]

\* The row fits its columns (the revision its integer), and so do the copies of
\* it that pages and transactions hold.
TypeOK ==
    /\ row \in Row
    /\ moves \in Seq(Move)
    /\ notes \in Nat
    /\ form \in [Admins -> Row \union {NoForm}]
    /\ request \in [Admins -> Requests \union {NoRequest}]
    /\ seen \in [Admins -> Row \union {NoForm}]

\* The events are the history of the row: each one starts where the one before
\* it ended, a restore returns to where its archive came from, the last one
\* ends at the status of the row, and every revision has exactly one event
\* (the metadata of an event comes from a SELECT before the UPDATE).
EventsAreTheHistory ==
    /\ row.revision = Len(moves) + notes
    /\ \A i \in 1 .. Len(moves) :
          /\ moves[i].from = IF i = 1 THEN "received" ELSE moves[i-1].to
          /\ moves[i].type = "restore" => i > 1 /\ moves[i].to = moves[i-1].from
          /\ moves[i].type = "archive" <=> moves[i].to = "archived"
    /\ row.status = IF moves = <<>> THEN "received" ELSE moves[Len(moves)].to
    /\ row.preArchiveStatus = IF row.status = "archived" THEN moves[Len(moves)].from
                                                         ELSE NoStatus

\* "A stale compare-and-swap changes nothing": whoever changes the row has a
\* page that shows it exactly as it is, so that no administrator overwrites
\* activity the page did not show, also not between SELECT and UPDATE.
OnlyCurrentFormsWin == [][row' # row => \E a \in Admins : form[a] = row]_vars

\* Archiving and restoring aside, the inquiry only advances along the edges of
\* the workflow: a decision is final, and no interleaving of transactions
\* takes an edge the graph does not have.
KeepsWorkflow == Workflow!Spec

-----------------------------------------------------------------------------
(* The inductive invariant behind the properties.                          *)

\* A copy of the row is the row, unless the revision has moved on.
Copy(c) == c # NoForm => c.revision <= row.revision /\ (c.revision = row.revision => c = row)

CopiesInv ==
    \A a \in Admins :
        /\ Copy(form[a])
        /\ request[a] # NoRequest =>
              /\ form[a] # NoForm /\ form[a].revision <= RevisionLimit
              /\ seen[a] = form[a]
              /\ Permitted(request[a], seen[a])

IInv == TypeOK /\ CopiesInv /\ EventsAreTheHistory
=============================================================================
