-------------------------- MODULE InquiryWorkflow --------------------------
(***************************************************************************)
(* The workflow of an inquiry: the statuses and the edges between them,    *)
(* and, as a specification, an inquiry that advances along one edge at a   *)
(* time, without administrators, revisions or archiving.                   *)
(***************************************************************************)
Active == {"received", "in_review", "awaiting_scope", "proposal_sent", "approved",
           "completed", "declined"}

transitionGraph ==
    [received       |-> {"in_review", "declined"},
     in_review      |-> {"awaiting_scope", "declined"},
     awaiting_scope |-> {"proposal_sent", "declined"},
     proposal_sent  |-> {"approved", "declined"},
     approved       |-> {"completed"},
     completed      |-> {},
     declined       |-> {},
     archived       |-> {}]

VARIABLE standing   \* how far the inquiry is

Init == standing = "received"

Advance == standing' \in transitionGraph[standing]

Spec == Init /\ [][Advance]_standing
=============================================================================
