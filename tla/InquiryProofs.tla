--------------------------- MODULE InquiryProofs ---------------------------
(***************************************************************************)
(* Proofs about the two ways into the tables of inquiries.                 *)
(*                                                                         *)
(* The public flow that creates one, for any number of deliveries of any   *)
(* signed requests, given what the authority and the outbox promise.       *)
(*                                                                         *)
(* The mutations of one by any administrators, for any limit of the        *)
(* revision: a copy of the row with the row's revision is the row          *)
(* (CopiesInv), which makes the values an UPDATE takes from the earlier    *)
(* SELECT true at the time of the UPDATE.  They hold behind the access     *)
(* check, whose key cache is the last part.                                *)
(***************************************************************************)
EXTENDS PublicInquiry, AdminAccess, TLAPS

-----------------------------------------------------------------------------
(* The public flow.                                                        *)

\* Tables only grow and requests do not change: stored answers stay true.
LEMMA RedirectStep ==
  ASSUME RedirectMeansStored, StoredTogether,
         submission' = submission, inquiries \subseteq inquiries', StoredTogether',
         NEW e \in Handlers,
         inquiries' \subseteq Handlers,
         answer'[e] = answer[e]
           \/ answer'[e] # "redirect"
           \/ \E f \in inquiries' : Token(f) = Token(e) /\ Payload(f) = Payload(e)
  PROVE  answer'[e] = "redirect" =>
           \E f \in inquiries' : /\ Token(f)' = Token(e)' /\ Payload(f)' = Payload(e)'
                                 /\ f \in events' /\ fate'[f] # "absent"
<1>1. \A f \in inquiries' : f \in events' /\ fate'[f] # "absent"
  BY DEF StoredTogether
<1>2. \A f \in Handlers : Token(f)' = Token(f) /\ Payload(f)' = Payload(f)
  BY DEF Token, Payload
<1>3. answer'[e] = "redirect" =>
        \E f \in inquiries' : Token(f) = Token(e) /\ Payload(f) = Payload(e)
  BY DEF RedirectMeansStored
<1> QED
  BY <1>1, <1>2, <1>3

\* A delivery starts a handler that has no trace yet.
LEMMA DeliverStep ==
  ASSUME FlowInv, NEW s \in Signed, Deliver(s)
  PROVE  FlowInv'
<1> DEFINE e0 == arrived + 1
<1> USE DeliveriesAssumption DEF FlowInv
<1>a. /\ e0 \in Handlers /\ arrived' = e0
      /\ submission' = [submission EXCEPT ![e0] = s]
      /\ pc' = [pc EXCEPT ![e0] = "pre"]
      /\ wire' = [wire EXCEPT ![e0] = "pre"]
      /\ UNCHANGED <<answer, verified, admitted, authorised, open, inquiries, events,
                     fate, accepted>>
  BY DEF Deliver, Handlers, FlowTypes, authority, tables
<1>b. /\ pc[e0] = "idle" /\ answer[e0] = "none"
      /\ e0 \notin admitted \union authorised /\ e0 \notin open \union inquiries
  BY <1>a DEF ArrivalInv, FlowTypes
<1>c. \A e \in Handlers : e # e0 => (e > e0 <=> e > arrived)
  BY DEF Handlers, FlowTypes
<1> HIDE DEF e0
<1>d. \A e \in Handlers : e # e0 => /\ submission'[e] = submission[e]
                                    /\ Token(e)' = Token(e) /\ Payload(e)' = Payload(e)
  BY <1>a DEF FlowTypes, Token, Payload
<1>1. FlowTypes'
  <2>1. arrived' \in 0 .. Deliveries
    BY <1>a DEF Handlers
  <2> QED
    BY <1>a, <2>1 DEF FlowTypes, Stages
<1>2. ArrivalInv'
  <2> SUFFICES ASSUME NEW e \in Handlers
               PROVE  /\ pc'[e] = "idle" <=> e > e0
                      /\ pc'[e] = "idle" => /\ answer[e] = "none" /\ wire'[e] = "none"
                                            /\ e \notin admitted \union authorised
                                            /\ e \notin open \union inquiries
                      /\ pc'[e] # "idle" => submission'[e] \in Signed
    BY <1>a DEF ArrivalInv
  <2>1. CASE e = e0
    BY <1>a, <2>1 DEF FlowTypes, Handlers
  <2>2. CASE e # e0
    BY <1>a, <1>c, <2>2 DEF FlowTypes, ArrivalInv
  <2> QED
    BY <2>1, <2>2
<1>3. CallInv'
  BY <1>a, <1>b DEF CallInv, FlowTypes
<1>4. RowInv'
  BY <1>a, <1>b, <1>d DEF RowInv, FlowTypes
<1>5. OnlyAuthorisedCreate'
  BY <1>a, <1>b, <1>d DEF OnlyAuthorisedCreate, FlowTypes
<1>6. StoredTogether'
  BY <1>a DEF StoredTogether
<1>7. RedirectMeansStored'
  <2> SUFFICES ASSUME NEW e \in Handlers, answer[e] = "redirect"
               PROVE  \E f \in inquiries :
                        /\ Token(f)' = Token(e)' /\ Payload(f)' = Payload(e)'
                        /\ f \in events /\ fate[f] # "absent"
    BY <1>a DEF RedirectMeansStored
  <2>1. PICK f \in inquiries : /\ Token(f) = Token(e) /\ Payload(f) = Payload(e)
                               /\ f \in events /\ fate[f] # "absent"
    BY DEF RedirectMeansStored
  <2>2. e # e0 /\ f # e0 /\ f \in Handlers
    BY <1>b, <2>1 DEF FlowTypes
  <2> QED
    BY <1>d, <2>1, <2>2
<1> QED
  BY <1>1, <1>2, <1>3, <1>4, <1>5, <1>6, <1>7

\* The authority admits the nonce of a waiting call.
LEMMA ClaimPreStep ==
  ASSUME FlowInv, NEW e0 \in Handlers, ClaimPre(e0)
  PROVE  FlowInv'
<1> USE DEF FlowInv, ClaimPre, Heard, tables
<1>d. \A e \in Handlers : Token(e)' = Token(e) /\ Payload(e)' = Payload(e)
  BY DEF Token, Payload
<1>1. FlowTypes'
  BY DEF FlowTypes, Stages
<1>2. ArrivalInv'
  BY DEF ArrivalInv, FlowTypes
<1>3. CallInv'
  BY DEF CallInv, FlowTypes
<1>4. RowInv'
  BY <1>d DEF RowInv, FlowTypes
<1>5. OnlyAuthorisedCreate'
  BY DEF OnlyAuthorisedCreate, FlowTypes
<1>6. StoredTogether'
  BY DEF StoredTogether
<1>7. RedirectMeansStored'
  <2>1. UNCHANGED <<submission, answer, inquiries>> /\ inquiries \subseteq Handlers
    BY DEF FlowTypes
  <2> QED
    BY <1>6, <2>1, RedirectStep DEF RedirectMeansStored
<1> QED
  BY <1>1, <1>2, <1>3, <1>4, <1>5, <1>6, <1>7

\* The authority consumes a nonce, which no other handler has consumed.
LEMMA ConsumePostStep ==
  ASSUME FlowInv, NEW e0 \in Handlers, ConsumePost(e0)
  PROVE  FlowInv'
<1> USE DEF FlowInv, ConsumePost, Heard, tables
<1>d. \A e \in Handlers : Token(e)' = Token(e) /\ Payload(e)' = Payload(e)
  BY DEF Token, Payload
<1>1. FlowTypes'
  BY DEF FlowTypes, Stages
<1>2. ArrivalInv'
  BY DEF ArrivalInv, FlowTypes
<1>3. CallInv'
  BY DEF CallInv, FlowTypes
<1>4. RowInv'
  BY <1>d DEF RowInv, FlowTypes
<1>5. OnlyAuthorisedCreate'
  <2>1. ASSUME NEW e \in Handlers,
               \/ pc'[e] \in {"create", "inserted", "committing"}
               \/ e \in open' \union inquiries'
        PROVE  e \in verified' /\ e \in admitted' /\ e \in authorised'
    BY <2>1 DEF OnlyAuthorisedCreate, FlowTypes, CallInv
  <2>2. \A e \in authorised : submission[e] # submission[e0]
    <3> SUFFICES ASSUME NEW e \in authorised PROVE submission[e] # submission[e0]
      OBVIOUS
    <3>1. [nonce |-> submission[e], permit |-> e] \in uses
      BY DEF uses
    <3>2. \A u \in uses : u.nonce # submission[e0]
      BY DEF Authority!Consume
    <3> QED
      BY <3>1, <3>2
  <2>3. \A e, f \in authorised' : submission'[e] = submission'[f] => e = f
    BY <2>2 DEF OnlyAuthorisedCreate
  <2> QED
    BY <2>1, <2>3 DEF OnlyAuthorisedCreate
<1>6. StoredTogether'
  BY DEF StoredTogether
<1>7. RedirectMeansStored'
  <2>1. UNCHANGED <<submission, answer, inquiries>> /\ inquiries \subseteq Handlers
    BY DEF FlowTypes
  <2> QED
    BY <1>6, <2>1, RedirectStep DEF RedirectMeansStored
<1> QED
  BY <1>1, <1>2, <1>3, <1>4, <1>5, <1>6, <1>7

\* Steps that move one handler, end it without success, or send its next call,
\* and leave the authority and the tables alone.
LEMMA HandlerOnlyStep ==
  ASSUME FlowInv, NEW e0 \in Handlers,
         \/ Refuse(e0) \/ VerifyTurnstile(e0) \/ Timeout(e0) \/ SendCommit(e0)
         \/ LoseCommit(e0) \/ Crash(e0)
  PROVE  FlowInv'
<1> USE DEF FlowInv, Refuse, VerifyTurnstile, Timeout, SendCommit, LoseCommit, Crash,
            Return, authority, tables
<1>d. \A e \in Handlers : Token(e)' = Token(e) /\ Payload(e)' = Payload(e)
  BY DEF Token, Payload
<1>1. FlowTypes'
  BY DEF FlowTypes, Stages, Answers
<1>2. ArrivalInv'
  BY DEF ArrivalInv, FlowTypes
<1>3. CallInv'
  BY DEF CallInv, FlowTypes, RowInv
<1>4. RowInv'
  BY <1>d DEF RowInv, FlowTypes
<1>5. OnlyAuthorisedCreate'
  BY DEF OnlyAuthorisedCreate, FlowTypes
<1>6. StoredTogether'
  BY DEF StoredTogether
<1>7. RedirectMeansStored'
  <2>1. \A e \in Handlers : answer'[e] = answer[e] \/ answer'[e] # "redirect"
    BY DEF FlowTypes
  <2>2. submission' = submission /\ inquiries' = inquiries /\ inquiries \subseteq Handlers
    BY DEF FlowTypes
  <2> QED
    BY <1>6, <2>1, <2>2, RedirectStep DEF RedirectMeansStored
<1> QED
  BY <1>1, <1>2, <1>3, <1>4, <1>5, <1>6, <1>7

\* The insert opens a row of a token nobody holds, or finds the committed one.
LEMMA InsertStep ==
  ASSUME FlowInv, NEW e0 \in Handlers, Insert(e0)
  PROVE  FlowInv'
<1> USE DEF FlowInv, Insert, Found, Return, authority
<1>d. \A e \in Handlers : Token(e)' = Token(e) /\ Payload(e)' = Payload(e)
  BY DEF Token, Payload
<1>1. FlowTypes'
  BY DEF FlowTypes, Stages, Answers
<1>2. ArrivalInv'
  BY DEF ArrivalInv, FlowTypes
<1>3. CallInv'
  BY DEF CallInv, FlowTypes
<1>4. RowInv'
  BY <1>d DEF RowInv, FlowTypes, InsertMayProceed
<1>5. OnlyAuthorisedCreate'
  BY DEF OnlyAuthorisedCreate, FlowTypes
<1>6. StoredTogether'
  BY DEF StoredTogether
<1>7. RedirectMeansStored'
  <2>1. ASSUME NEW e \in Handlers
        PROVE  \/ answer'[e] = answer[e] \/ answer'[e] # "redirect"
               \/ \E f \in inquiries' : Token(f) = Token(e) /\ Payload(f) = Payload(e)
    BY DEF FlowTypes
  <2>2. submission' = submission /\ inquiries' = inquiries /\ inquiries \subseteq Handlers
    BY DEF FlowTypes
  <2> QED
    BY <1>6, <2>1, <2>2, RedirectStep DEF RedirectMeansStored
<1> QED
  BY <1>1, <1>2, <1>3, <1>4, <1>5, <1>6, <1>7

\* The commit makes the open row, its event and its outbox row permanent.
LEMMA CommitStep ==
  ASSUME FlowInv, NEW e0 \in Handlers, Commit(e0)
  PROVE  FlowInv'
<1> USE DEF FlowInv, Commit, HeardCommit, Return, authority, Notification!Queue
<1>d. \A e \in Handlers : Token(e)' = Token(e) /\ Payload(e)' = Payload(e)
  BY DEF Token, Payload
<1>e. e0 \in open /\ pc[e0] \in {"committing", "done"} /\ pc'[e0] = "done"
  BY DEF CallInv, FlowTypes
<1>1. FlowTypes'
  BY DEF FlowTypes, Stages, Answers
<1>2. ArrivalInv'
  BY <1>e DEF ArrivalInv, FlowTypes
<1>3. CallInv'
  BY <1>e DEF CallInv, FlowTypes
<1>4. RowInv'
  BY <1>d, <1>e DEF RowInv, FlowTypes
<1>5. OnlyAuthorisedCreate'
  BY <1>e DEF OnlyAuthorisedCreate, FlowTypes
<1>6. StoredTogether'
  BY DEF StoredTogether, FlowTypes
<1>7. RedirectMeansStored'
  <2>1. ASSUME NEW e \in Handlers
        PROVE  \/ answer'[e] = answer[e] \/ answer'[e] # "redirect"
               \/ \E f \in inquiries' : Token(f) = Token(e) /\ Payload(f) = Payload(e)
    BY DEF FlowTypes
  <2>2. submission' = submission /\ inquiries \subseteq inquiries' /\ inquiries' \subseteq Handlers
    BY DEF FlowTypes
  <2> QED
    BY <1>6, <2>1, <2>2, RedirectStep DEF RedirectMeansStored
<1> QED
  BY <1>1, <1>2, <1>3, <1>4, <1>5, <1>6, <1>7

\* A rollback, by the handler or by the database, gives up an open row.
LEMMA RollbackStep ==
  ASSUME FlowInv, NEW e0 \in Handlers, Fail(e0) \/ Rollback(e0)
  PROVE  FlowInv'
<1> USE DEF FlowInv, Fail, Rollback, Return, authority, handler
<1>d. \A e \in Handlers : Token(e)' = Token(e) /\ Payload(e)' = Payload(e)
  BY DEF Token, Payload
<1>1. FlowTypes'
  BY DEF FlowTypes, Stages, Answers
<1>2. ArrivalInv'
  BY DEF ArrivalInv, FlowTypes
<1>3. CallInv'
  BY DEF CallInv, FlowTypes
<1>4. RowInv'
  BY <1>d DEF RowInv, FlowTypes
<1>5. OnlyAuthorisedCreate'
  BY DEF OnlyAuthorisedCreate, FlowTypes
<1>6. StoredTogether'
  BY DEF StoredTogether
<1>7. RedirectMeansStored'
  <2>1. \A e \in Handlers : answer'[e] = answer[e] \/ answer'[e] # "redirect"
    BY DEF FlowTypes
  <2>2. submission' = submission /\ inquiries' = inquiries /\ inquiries \subseteq Handlers
    BY DEF FlowTypes
  <2> QED
    BY <1>6, <2>1, <2>2, RedirectStep DEF RedirectMeansStored
<1> QED
  BY <1>1, <1>2, <1>3, <1>4, <1>5, <1>6, <1>7

\* The outbox decides rows that exist, and makes none.
LEMMA NotifyStep ==
  ASSUME FlowInv, NEW e0 \in Handlers, Notify(e0)
  PROVE  FlowInv'
<1> USE DEF FlowInv, Notify, Notification!Accept, Notification!Decide, authority, handler
<1>d. \A e \in Handlers : Token(e)' = Token(e) /\ Payload(e)' = Payload(e)
  BY DEF Token, Payload
<1>1. FlowTypes'
  BY DEF FlowTypes
<1>2. ArrivalInv' /\ CallInv' /\ RowInv'
  BY <1>d DEF ArrivalInv, CallInv, RowInv, FlowTypes
<1>3. OnlyAuthorisedCreate'
  BY DEF OnlyAuthorisedCreate
<1>4. StoredTogether'
  BY DEF StoredTogether, FlowTypes
<1>5. RedirectMeansStored'
  <2>1. submission' = submission /\ inquiries' = inquiries /\ inquiries \subseteq Handlers
        /\ answer' = answer
    BY DEF FlowTypes
  <2> QED
    BY <1>4, <2>1, RedirectStep DEF RedirectMeansStored
<1> QED
  BY <1>1, <1>2, <1>3, <1>4, <1>5

-----------------------------------------------------------------------------
\* The inductive invariant of the flow (executeVerifiedPublicInquiry, create).
THEOREM FlowInvariance == FlowSpec => []FlowInv
<1>1. FlowInit => FlowInv
  BY DeliveriesAssumption
  DEF FlowInit, Notification!Init, FlowInv, FlowTypes, ArrivalInv, CallInv, RowInv, Stages, Answers,
      OnlyAuthorisedCreate, StoredTogether, RedirectMeansStored, Handlers
<1>2. FlowInv /\ [FlowNext]_flowVars => FlowInv'
  <2> SUFFICES ASSUME FlowInv, [FlowNext]_flowVars PROVE FlowInv'
    OBVIOUS
  <2>1. CASE FlowNext
    BY <2>1, DeliverStep, ClaimPreStep, ConsumePostStep, HandlerOnlyStep, InsertStep,
       CommitStep, RollbackStep, NotifyStep DEF FlowNext, Proceed
  <2>2. CASE UNCHANGED flowVars
    BY <2>2 DEF flowVars, handler, authority, tables, FlowInv, FlowTypes, ArrivalInv, CallInv,
       RowInv, OnlyAuthorisedCreate, StoredTogether, RedirectMeansStored, Token, Payload
  <2> QED
    BY <2>1, <2>2
<1> QED
  BY <1>1, <1>2, PTL DEF FlowSpec

\* Handlers, messages and tables keep their types (executeVerifiedPublicInquiry).
THEOREM FlowTypeCorrect == FlowSpec => []FlowTypes
<1>1. FlowInv => FlowTypes
  BY DEF FlowInv
<1> QED
  BY <1>1, FlowInvariance, PTL

\* A submission token leads to at most one inquiry, for any deliveries, losses,
\* deaths and late commits (create).
THEOREM TokensAreUsedOnce == FlowSpec => []OneInquiryPerToken
<1>1. FlowInv => OneInquiryPerToken
  BY DEF FlowInv, RowInv, OneInquiryPerToken
<1> QED
  BY <1>1, FlowInvariance, PTL

\* Only a handler that passed PRE, Turnstile and POST itself writes, and at most
\* one per signed request (executeVerifiedPublicInquiry).
THEOREM CreationIsAuthorised == FlowSpec => []OnlyAuthorisedCreate
<1>1. FlowInv => OnlyAuthorisedCreate
  BY DEF FlowInv
<1> QED
  BY <1>1, FlowInvariance, PTL

\* The thank-you page is shown only for a stored form with its notification.
THEOREM RedirectIsTrue == FlowSpec => []RedirectMeansStored
<1>1. FlowInv => RedirectMeansStored
  BY DEF FlowInv
<1> QED
  BY <1>1, FlowInvariance, PTL

\* Inquiry, event and notification are stored together (create).
THEOREM RowsAreStoredTogether == FlowSpec => []StoredTogether
<1>1. FlowInv => StoredTogether
  BY DEF FlowInv
<1> QED
  BY <1>1, FlowInvariance, PTL

\* What is stored was authorised, once for each token and as a whole, and who is
\* thanked finds the own payload stored, for any number of deliveries.
THEOREM CreationStaysSound == FlowSpec => []CreationIsSound
  BY TokensAreUsedOnce, CreationIsAuthorised, RedirectIsTrue, RowsAreStoredTogether, PTL DEF CreationIsSound

-----------------------------------------------------------------------------
(* The mutations, and the access check in front of them.                   *)

\* The first row is well-typed and nobody has a copy of it.
LEMMA InitInv == Init => IInv
<1> SUFFICES ASSUME Init PROVE IInv
  OBVIOUS
<1> USE RevisionAssumption DEF Init
<1>1. TypeOK
  BY DEF TypeOK, Row, Move, Statuses, Workflow!Active, NoStatus, NoForm, NoRequest
<1>2. CopiesInv
  BY DEF CopiesInv, Copy
<1>3. EventsAreTheHistory
  BY DEF EventsAreTheHistory, NoStatus
<1> QED
  BY <1>1, <1>2, <1>3 DEF IInv

\* A rendered page holds the row itself.
LEMMA RenderStep ==
  ASSUME IInv, NEW a0 \in Admins, Render(a0)
  PROVE  IInv'
<1> USE DEF IInv, Render
<1>1. TypeOK'
  BY DEF TypeOK
<1>2. CopiesInv'
  <2>1. row.revision \in Int
    BY DEF TypeOK, Row
  <2> QED
    BY <2>1 DEF CopiesInv, Copy, TypeOK
<1>3. EventsAreTheHistory'
  BY DEF EventsAreTheHistory
<1> QED
  BY <1>1, <1>2, <1>3

\* A SELECT that finds the form's revision finds the form's row.
LEMMA ReadStep ==
  ASSUME IInv, NEW a0 \in Admins, NEW q \in Requests, Read(a0, q)
  PROVE  IInv'
<1> USE DEF IInv, Read
<1>1. TypeOK'
  BY DEF TypeOK
<1>2. CopiesInv'
  <2> SUFFICES ASSUME NEW a \in Admins
               PROVE  /\ Copy(form[a])'
                      /\ request'[a] # NoRequest =>
                            /\ form[a] # NoForm /\ form[a].revision <= RevisionLimit
                            /\ seen'[a] = form[a]
                            /\ Permitted(request'[a], seen'[a])
    BY DEF CopiesInv
  <2>1. Copy(form[a])'
    BY DEF CopiesInv, Copy
  <2>2. CASE a = a0
    BY <2>1, <2>2 DEF CopiesInv, Copy, TypeOK, Accepted
  <2>3. CASE a # a0
    BY <2>1, <2>3 DEF CopiesInv, TypeOK
  <2> QED
    BY <2>2, <2>3
<1>3. EventsAreTheHistory'
  BY DEF EventsAreTheHistory
<1> QED
  BY <1>1, <1>2, <1>3

\* What the row is when an UPDATE meets it: the row that was read.
LEMMA UpdateReads ==
  ASSUME IInv, NEW a0 \in Admins, Update(a0)
  PROVE  /\ seen[a0] = row /\ form[a0] = row
         /\ request[a0] \in Requests
         /\ Permitted(request[a0], row)
         /\ row.revision <= RevisionLimit
  BY DEF IInv, CopiesInv, Copy, TypeOK, Update, Unchanged

\* The row an UPDATE writes and the event it appends, by mutation.
LEMMA UpdateWrites ==
  ASSUME IInv, NEW a0 \in Admins, Update(a0)
  PROVE  LET q == request[a0] IN
         /\ row'.revision = row.revision + 1
         /\ row' = Updated(q, row)
         /\ moves' = Append(moves, Event(q, row))
         /\ \/ /\ q.op = "changeStatus"
               /\ q.to \in Workflow!Active /\ row.status \in Workflow!Active
               /\ q.to \in Workflow!transitionGraph[row.status]
            \/ /\ q.op = "archive" /\ q.to = "archived"
               /\ row.status \in Workflow!Active
            \/ /\ q.op = "restore"
               /\ row.status = "archived"
               /\ row.preArchiveStatus \in Workflow!Active
<1>1. /\ seen[a0] = row /\ request[a0] \in Requests /\ Permitted(request[a0], row)
  BY UpdateReads
<1>2. row \in Row
  BY DEF IInv, TypeOK
<1>3. CASE request[a0].op = "changeStatus"
  <2>1. request[a0].to \in Workflow!transitionGraph[row.status]
    BY <1>1, <1>3 DEF Permitted
  <2>2. row.status \in Workflow!Active /\ request[a0].to \in Workflow!Active
    BY <2>1, <1>2 DEF Row, Statuses, Workflow!Active, Workflow!transitionGraph
  <2> QED
    BY <1>1, <1>3, <2>1, <2>2 DEF Update, Updated
<1>4. CASE request[a0].op = "archive"
  BY <1>1, <1>4 DEF Update, Updated, Permitted, Requests
<1>5. CASE request[a0].op = "restore"
  BY <1>1, <1>5 DEF Update, Updated, Permitted, Requests
<1> QED
  BY <1>1, <1>3, <1>4, <1>5 DEF Requests

\* An UPDATE extends the history by the event of the change it makes.
LEMMA UpdateStep ==
  ASSUME IInv, NEW a0 \in Admins, Update(a0)
  PROVE  IInv'
<1> DEFINE q == request[a0]
<1>1. row.revision \in 0 .. RevisionLimit /\ row \in Row
  BY UpdateReads, RevisionAssumption DEF IInv, TypeOK, Row
<1>2. /\ row'.revision = row.revision + 1
      /\ row' = Updated(q, row)
      /\ moves' = Append(moves, Event(q, row))
      /\ \/ /\ q.op = "changeStatus"
            /\ q.to \in Workflow!Active /\ row.status \in Workflow!Active
            /\ q.to \in Workflow!transitionGraph[row.status]
         \/ /\ q.op = "archive" /\ q.to = "archived"
            /\ row.status \in Workflow!Active
         \/ /\ q.op = "restore"
            /\ row.status = "archived"
            /\ row.preArchiveStatus \in Workflow!Active
  BY UpdateWrites
<1>3. /\ Event(q, row) \in Move /\ row' \in Row
      /\ Event(q, row).from = row.status
      /\ Event(q, row).to = row'.status
      /\ Event(q, row).type = q.op
  BY <1>1, <1>2, RevisionAssumption
  DEF Event, Updated, Move, Row, Statuses, Workflow!Active
<1>4. TypeOK'
  <2>1. moves' \in Seq(Move)
    BY <1>2, <1>3 DEF IInv, TypeOK
  <2> QED
    BY <2>1, <1>3 DEF IInv, TypeOK, Update, Finish
<1>5. CopiesInv'
  <2> SUFFICES ASSUME NEW a \in Admins
               PROVE  /\ Copy(form[a])'
                      /\ request'[a] # NoRequest =>
                            /\ form[a] # NoForm /\ form[a].revision <= RevisionLimit
                            /\ seen'[a] = form[a]
                            /\ Permitted(request'[a], seen'[a])
    BY DEF CopiesInv, Update, Finish
  <2>1. Copy(form[a])'
    <3>1. form[a] # NoForm => form[a].revision \in Nat /\ form[a].revision <= row.revision
      BY DEF IInv, CopiesInv, Copy, TypeOK, Row
    <3> QED
      BY <3>1, <1>1, <1>2 DEF Copy, Update, Finish
  <2>2. request'[a] # NoRequest => a # a0
    BY DEF IInv, TypeOK, Update, Finish
  <2> QED
    BY <2>1, <2>2 DEF IInv, CopiesInv, TypeOK, Update, Finish
<1>6. EventsAreTheHistory'
  <2> DEFINE n == Len(moves)  e == Event(q, row)
  <2>0. /\ moves \in Seq(Move) /\ n \in Nat /\ notes \in Nat
        /\ EventsAreTheHistory
    BY DEF IInv, TypeOK
  <2>1. /\ Len(moves') = n + 1
        /\ \A i \in 1 .. n : moves'[i] = moves[i]
        /\ moves'[n+1] = e
    BY <2>0, <1>2, <1>3
  <2>2. row'.revision = Len(moves') + notes'
    BY <2>0, <2>1, <1>2, <1>1 DEF EventsAreTheHistory, Update, Finish
  <2>3. row.status = IF n = 0 THEN "received" ELSE moves[n].to
    BY <2>0 DEF EventsAreTheHistory
  <2>4. moves'[n+1].from = IF n + 1 = 1 THEN "received" ELSE moves'[n+1-1].to
    BY <2>0, <2>1, <2>3, <1>3
  <2>5. moves'[n+1].type = "restore" => n + 1 > 1 /\ moves'[n+1].to = moves'[n+1-1].from
    <3> SUFFICES ASSUME q.op = "restore"
                 PROVE  n > 0 /\ e.to = moves[n].from
      BY <2>0, <2>1, <1>3
    <3>1. row.status = "archived" /\ e.to = row.preArchiveStatus
      BY <1>2 DEF Event
    <3>2. n > 0
      BY <3>1, <2>0, <2>3
    <3> QED
      BY <3>1, <3>2, <2>0 DEF EventsAreTheHistory
  <2>6. moves'[n+1].type = "archive" <=> moves'[n+1].to = "archived"
    BY <2>1, <1>2, <1>3 DEF Event, Workflow!Active
  <2>7. \A i \in 1 .. Len(moves') :
          /\ moves'[i].from = IF i = 1 THEN "received" ELSE moves'[i-1].to
          /\ moves'[i].type = "restore" => i > 1 /\ moves'[i].to = moves'[i-1].from
          /\ moves'[i].type = "archive" <=> moves'[i].to = "archived"
    <3> SUFFICES ASSUME NEW i \in 1 .. n + 1
                 PROVE  /\ moves'[i].from = IF i = 1 THEN "received" ELSE moves'[i-1].to
                        /\ moves'[i].type = "restore" => i > 1 /\ moves'[i].to = moves'[i-1].from
                        /\ moves'[i].type = "archive" <=> moves'[i].to = "archived"
      BY <2>1
    <3>1. CASE i = n + 1
      BY <3>1, <2>4, <2>5, <2>6
    <3>2. CASE i \in 1 .. n
      <4>1. moves'[i] = moves[i] /\ (i > 1 => moves'[i-1] = moves[i-1])
        BY <2>1, <2>0, <3>2
      <4> QED
        BY <4>1, <2>0, <3>2 DEF EventsAreTheHistory
    <3> QED
      BY <3>1, <3>2, <2>0
  <2>8. row'.status = IF moves' = <<>> THEN "received" ELSE moves'[Len(moves')].to
    BY <2>0, <2>1, <1>3
  <2>9. row'.preArchiveStatus = IF row'.status = "archived" THEN moves'[Len(moves')].from
                                                           ELSE NoStatus
    <3>1. row.preArchiveStatus = NoStatus \/ row.status = "archived"
      BY <2>0 DEF EventsAreTheHistory
    <3>2. row'.status = "archived" <=> q.op = "archive"
      BY <1>2 DEF Updated, Workflow!Active
    <3> QED
      BY <3>1, <3>2, <2>0, <2>1, <1>2, <1>3 DEF Updated, Workflow!Active
  <2> QED
    BY <2>2, <2>7, <2>8, <2>9 DEF EventsAreTheHistory
<1> QED
  BY <1>4, <1>5, <1>6 DEF IInv

\* A transaction that ends without a write only forgets its copy.
LEMMA AbandonStep ==
  ASSUME IInv, NEW a0 \in Admins, Abandon(a0)
  PROVE  IInv'
<1> USE DEF IInv, Abandon, Finish
<1>1. TypeOK'
  BY DEF TypeOK
<1>2. CopiesInv'
  BY DEF CopiesInv, Copy, TypeOK
<1>3. EventsAreTheHistory'
  BY DEF EventsAreTheHistory
<1> QED
  BY <1>1, <1>2, <1>3

\* A note moves the revision of the row and nothing else of it.
LEMMA AddNoteStep ==
  ASSUME IInv, NEW a0 \in Admins, AddNote(a0)
  PROVE  IInv'
<1> USE RevisionAssumption DEF IInv, AddNote
<1>1. /\ row.revision \in 0 .. RevisionLimit
      /\ row'.revision = row.revision + 1
      /\ row'.status = row.status
      /\ row'.preArchiveStatus = row.preArchiveStatus
      /\ row' \in Row
  BY DEF TypeOK, Accepted, Row
<1>2. TypeOK'
  BY <1>1 DEF TypeOK
<1>3. CopiesInv'
  <2>1. \A a \in Admins : form[a] # NoForm =>
            form[a].revision \in Nat /\ form[a].revision <= row.revision
    BY DEF CopiesInv, Copy, TypeOK, Row
  <2> QED
    BY <2>1, <1>1 DEF CopiesInv, Copy
<1>4. EventsAreTheHistory'
  <2>1. Len(moves) \in Nat /\ notes \in Nat /\ row.revision = Len(moves) + notes
    BY DEF TypeOK, EventsAreTheHistory
  <2>2. row'.revision = Len(moves') + notes'
    BY <2>1, <1>1
  <2> QED
    BY <2>2, <1>1 DEF EventsAreTheHistory
<1> QED
  BY <1>2, <1>3, <1>4

\* Every step of every administrator preserves the invariant.
LEMMA NextInv == IInv /\ [Next]_vars => IInv'
<1> SUFFICES ASSUME IInv, [Next]_vars PROVE IInv'
  OBVIOUS
<1>1. ASSUME NEW a \in Admins, Render(a) PROVE IInv'
  BY <1>1, RenderStep
<1>2. ASSUME NEW a \in Admins, NEW q \in Requests, Read(a, q) PROVE IInv'
  BY <1>2, ReadStep
<1>3. ASSUME NEW a \in Admins, Update(a) PROVE IInv'
  BY <1>3, UpdateStep
<1>4. ASSUME NEW a \in Admins, Abandon(a) PROVE IInv'
  BY <1>4, AbandonStep
<1>5. ASSUME NEW a \in Admins, AddNote(a) PROVE IInv'
  BY <1>5, AddNoteStep
<1>6. CASE UNCHANGED vars
  BY <1>6 DEF vars, IInv, TypeOK, CopiesInv, Copy, EventsAreTheHistory
<1> QED
  BY <1>1, <1>2, <1>3, <1>4, <1>5, <1>6 DEF Next

\* The invariant holds in every reachable state.
THEOREM Invariance == Spec => []IInv
  BY InitInv, NextInv, PTL DEF Spec

\* The row fits its columns: the check of the submitted revision keeps the
\* revision within its integer (validCommonInput).
THEOREM TypeCorrect == Spec => []TypeOK
<1>1. IInv => TypeOK
  BY DEF IInv
<1> QED
  BY <1>1, Invariance, PTL

\* The events of an inquiry are its history (changeStatus, archive, restore,
\* addNote).
THEOREM EventsTellTheHistory == Spec => []EventsAreTheHistory
<1>1. IInv => EventsAreTheHistory
  BY DEF IInv
<1> QED
  BY <1>1, Invariance, PTL

\* Only an administrator whose page shows the row as it is changes it.
THEOREM StaleFormsChangeNothing == Spec => OnlyCurrentFormsWin
<1>1. IInv /\ [Next]_vars => [row' # row => \E a \in Admins : form[a] = row]_vars
  <2> SUFFICES ASSUME IInv, Next, row' # row
               PROVE  \E a \in Admins : form[a] = row
    BY DEF vars
  <2>1. ASSUME NEW a \in Admins, Update(a) PROVE form[a] = row
    BY <2>1, UpdateReads
  <2>2. ASSUME NEW a \in Admins, AddNote(a) PROVE form[a] = row
    BY <2>2 DEF AddNote, Accepted, IInv, CopiesInv, Copy
  <2> QED
    BY <2>1, <2>2 DEF Next, Render, Read, Abandon
<1> QED
  BY <1>1, Invariance, PTL DEF Spec, OnlyCurrentFormsWin

\* The mutations implement the workflow: an archived inquiry stands where it
\* was archived.
THEOREM MutationsKeepWorkflow == Spec => KeepsWorkflow
<1>1. Init => Workflow!Init
  BY DEF Init, Workflow!Init, Standing
<1>2. IInv /\ [Next]_vars => [Workflow!Advance]_Standing
  <2> SUFFICES ASSUME IInv, [Next]_vars PROVE [Workflow!Advance]_Standing
    OBVIOUS
  <2>1. ASSUME NEW a \in Admins, Update(a) PROVE [Workflow!Advance]_Standing
    <3> DEFINE q == request[a]
    <3>1. /\ row' = Updated(q, row)
          /\ \/ /\ q.op = "changeStatus"
                /\ q.to \in Workflow!Active /\ row.status \in Workflow!Active
                /\ q.to \in Workflow!transitionGraph[row.status]
             \/ /\ q.op = "archive" /\ q.to = "archived"
                /\ row.status \in Workflow!Active
             \/ /\ q.op = "restore"
                /\ row.status = "archived"
                /\ row.preArchiveStatus \in Workflow!Active
      BY <2>1, UpdateWrites
    <3> QED
      BY <3>1 DEF Updated, Standing, Workflow!Advance, Workflow!Active
  <2>2. ASSUME NEW a \in Admins, AddNote(a) PROVE UNCHANGED Standing
    BY <2>2 DEF AddNote, Standing, IInv, TypeOK, Row
  <2>3. ASSUME row' = row PROVE UNCHANGED Standing
    BY <2>3 DEF Standing
  <2> QED
    BY <2>1, <2>2, <2>3 DEF Next, Render, Read, Abandon, vars
<1> QED
  BY <1>1, <1>2, Invariance, PTL DEF Spec, KeepsWorkflow, Workflow!Spec

-----------------------------------------------------------------------------
(* The key cache in front of the application.                              *)

LEMMA KeyNumbers ==
  ASSUME JwksTypes
  PROVE  /\ CacheLifetime \in Nat /\ StaleGrace \in Nat /\ FetchTimeout \in Nat
         /\ cache.age \in Nat /\ cache.keys \subseteq Keys
         /\ refresh.since \in Nat /\ refresh.keys \subseteq Keys
         /\ \A k \in Keys : goneFor[k] \in Nat
         /\ Expired = CacheLifetime + StaleGrace + 1
         /\ Lingers = CacheLifetime + StaleGrace + 2 * FetchTimeout
BY LimitsAssumption DEF JwksTypes, Refreshes, Expired, Lingers

\* A key that may be used was published no longer ago than its age and a fetch.
LEMMA GracedIsRecent ==
  ASSUME KeyInv, NEW k \in Keys, Graced(k)
  PROVE  goneFor[k] <= CacheLifetime + StaleGrace + FetchTimeout
<1>1. goneFor[k] <= cache.age + FetchTimeout /\ cache.age <= CacheLifetime + StaleGrace
  BY DEF KeyInv, CacheInv, Graced, Cached
<1> QED
  BY <1>1, KeyNumbers DEF KeyInv

\* What getKey() returns at once, or remembers while it waits.
LEMMA LookupStep ==
  ASSUME KeyInv, NEW c \in Callers, NEW k \in Keys, getKey(c, k)
  PROVE  /\ KeyInv'
         /\ \A d \in Callers : ask'[d] # ask[d] /\ ask'[d].st = "got" => goneFor[ask'[d].kid] <= Lingers
<1> USE DEF KeyInv
<1>t. /\ CacheLifetime \in Nat /\ StaleGrace \in Nat /\ FetchTimeout \in Nat
      /\ cache.age \in Nat /\ refresh.since \in Nat
      /\ \A l \in Keys : goneFor[l] \in Nat
      /\ Lingers = CacheLifetime + StaleGrace + 2 * FetchTimeout
  BY KeyNumbers
<1>u. UNCHANGED <<issued, goneFor, cache>> /\ ask[c] = Idle
  BY DEF getKey
<1>v. IssuedInv' /\ CacheInv'
  BY <1>u DEF IssuedInv, CacheInv
<1>a. ask \in [Callers -> Asks] /\ refresh \in Refreshes
  BY DEF JwksTypes
<1>1. Fresh(k) => Graced(k)
  BY <1>t DEF Fresh, Graced
<1>2. CASE ask' = [ask EXCEPT ![c] = Got(k)] /\ UNCHANGED <<refresh, sinceAttempt>> /\ Graced(k)
  <2>1. goneFor[k] <= Lingers
    BY <1>t, <1>2, GracedIsRecent
  <2>2. Got(k) \in Asks /\ Got(k).st = "got" /\ Got(k).kid = k
    BY DEF Asks, Got
  <2>3. ask'[c] = Got(k) /\ \A d \in Callers : d # c => ask'[d] = ask[d]
    BY <1>2, <1>a
  <2>4. \A d \in Callers : AskInv(d)'
    BY <1>u, <1>2, <2>2, <2>3 DEF AskInv
  <2>5. JwksTypes'
    BY <1>u, <1>2, <1>a, <2>2 DEF JwksTypes
  <2>6. RefreshInv'
    BY <1>u, <1>2 DEF RefreshInv
  <2> QED
    BY <1>v, <2>1, <2>2, <2>3, <2>4, <2>5, <2>6
<1>3. CASE ask' = [ask EXCEPT ![c] = Waiting(k, Graced(k))] /\ refreshCache
  <2> PICK w : w = Waiting(k, Graced(k))
    OBVIOUS
  <2>1. ask'[c] = w /\ \A d \in Callers : d # c => ask'[d] = ask[d]
    BY <1>3, <1>a
  <2>2. w \in Asks /\ w.st = "waiting" /\ w.kid = k /\ (w.graced => Graced(k))
    <3>1. Graced(k) \in BOOLEAN
      BY DEF Graced
    <3> QED
      BY <3>1 DEF Asks, Waiting
  <2>3. /\ refresh' # NoRefresh /\ refresh' \in Refreshes /\ refresh'.since \in Nat
        /\ refresh # NoRefresh => refresh' = refresh
        /\ refresh = NoRefresh => refresh'.keys = {} /\ refresh'.since = 0
    <3>1. CASE refresh = NoRefresh
      <4>1. refresh' = [NoRefresh EXCEPT !.st = "asked"]
        BY <1>3, <3>1 DEF refreshCache
      <4>2. refresh' = [st |-> "asked", keys |-> {}, form |-> "sound", since |-> 0]
        BY <4>1 DEF NoRefresh
      <4>3. refresh' # NoRefresh
        BY <4>2 DEF NoRefresh
      <4> QED
        BY <3>1, <4>2, <4>3 DEF Refreshes, Forms
    <3>2. CASE refresh # NoRefresh
      BY <1>3, <1>a, <1>t, <3>2 DEF refreshCache
    <3> QED
      BY <3>1, <3>2
  <2>4. AskInv(c)'
    <3>1. Graced(k) => goneFor[k] <= CacheLifetime + StaleGrace + FetchTimeout
      BY GracedIsRecent
    <3>2. Graced(k) => goneFor'[k] <= CacheLifetime + StaleGrace + FetchTimeout + refresh'.since
      BY <1>t, <1>u, <2>3, <3>1
    <3> QED
      BY <2>1, <2>2, <2>3, <3>2 DEF AskInv
  <2>5. ASSUME NEW d \in Callers, d # c PROVE AskInv(d)'
    BY <1>u, <2>1, <2>3, <2>5 DEF AskInv
  <2>6. RefreshInv'
    BY <1>u, <1>t, <2>3 DEF RefreshInv
  <2>7. JwksTypes'
    BY <1>u, <1>3, <1>a, <2>1, <2>2, <2>3 DEF JwksTypes
  <2>8. \A d \in Callers : AskInv(d)'
    BY <2>4, <2>5
  <2> QED
    BY <1>v, <2>1, <2>2, <2>6, <2>7, <2>8
<1> QED
  BY <1>1, <1>2, <1>3 DEF getKey

\* The end of a fetch: every waiting call goes on.
LEMMA ResumeStep ==
  ASSUME KeyInv, NEW keys \in SUBSET Keys, Resume(keys), \A k \in keys : goneFor[k] <= FetchTimeout,
         refresh' = NoRefresh, UNCHANGED <<issued, goneFor>>
  PROVE  /\ ask' \in [Callers -> Asks] /\ RefreshInv' /\ \A c \in Callers : AskInv(c)'
         /\ \A d \in Callers : ask'[d] # ask[d] /\ ask'[d].st = "got" => goneFor[ask'[d].kid] <= Lingers
<1> USE DEF KeyInv
<1>t. /\ CacheLifetime \in Nat /\ StaleGrace \in Nat /\ FetchTimeout \in Nat /\ refresh.since \in Nat
      /\ \A l \in Keys : goneFor[l] \in Nat
      /\ Lingers = CacheLifetime + StaleGrace + 2 * FetchTimeout
  BY KeyNumbers
<1>a. ask \in [Callers -> Asks]
  BY DEF JwksTypes
<1>1. ASSUME NEW c \in Callers
      PROVE  /\ ask'[c] \in Asks /\ ask'[c].st # "waiting"
             /\ ask'[c] # ask[c] /\ ask'[c].st = "got" => goneFor[ask'[c].kid] <= Lingers
  <2>1. ask'[c] = IF ask[c].st # "waiting" THEN ask[c]
                  ELSE IF ask[c].kid \in keys \/ ask[c].graced THEN Got(ask[c].kid) ELSE Idle
    BY DEF Resume
  <2>2. CASE ask[c].st # "waiting"
    BY <1>a, <2>1, <2>2
  <2>3. CASE ask[c].st = "waiting"
    <3>1. ask[c].kid \in Keys
      BY <1>a, <2>3 DEF Asks
    <3>2. CASE ask[c].kid \in keys \/ ask[c].graced
      <4>1. ask'[c] = Got(ask[c].kid)
        BY <2>1, <2>3, <3>2
      <4>2. ask'[c] \in Asks /\ ask'[c].st = "got" /\ ask'[c].kid = ask[c].kid
        BY <3>1, <4>1 DEF Got, Asks
      <4>3. CASE ask[c].graced
        <5>1. goneFor[ask[c].kid] <= CacheLifetime + StaleGrace + FetchTimeout + refresh.since
          BY <2>3, <4>3 DEF AskInv
        <5>2. refresh.since <= FetchTimeout
          BY DEF RefreshInv
        <5> QED
          BY <1>t, <3>1, <4>2, <5>1, <5>2
      <4>4. CASE ask[c].kid \in keys
        BY <1>t, <3>1, <4>2, <4>4
      <4> QED
        BY <3>2, <4>3, <4>4
    <3>3. CASE ~(ask[c].kid \in keys \/ ask[c].graced)
      <4>1. ask'[c] = Idle
        BY <2>1, <2>3, <3>3
      <4> QED
        BY <4>1 DEF Idle, Asks
    <3> QED
      BY <3>2, <3>3
  <2> QED
    BY <2>2, <2>3
<1>2. ask' = [c \in Callers |-> ask'[c]]
  BY DEF Resume
<1>3. ask' \in [Callers -> Asks]
  BY <1>1, <1>2
<1>4. RefreshInv'
  BY <1>t DEF RefreshInv, NoRefresh
<1>5. \A c \in Callers : AskInv(c)'
  BY <1>1 DEF AskInv
<1> QED
  BY <1>1, <1>3, <1>4, <1>5

LEMMA FetchStep ==
  ASSUME KeyInv, FetchSucceeds \/ FetchFails
  PROVE  /\ KeyInv'
         /\ \A d \in Callers : ask'[d] # ask[d] /\ ask'[d].st = "got" => goneFor[ask'[d].kid] <= Lingers
<1> USE DEF KeyInv
<1>t. /\ FetchTimeout \in Nat /\ refresh.since \in Nat /\ refresh.keys \subseteq Keys
      /\ \A l \in Keys : goneFor[l] \in Nat
  BY KeyNumbers
<1>r. refresh' = NoRefresh /\ UNCHANGED <<issued, goneFor>> /\ NoRefresh \in Refreshes
  BY DEF FetchSucceeds, FetchFails, NoRefresh, Refreshes, Forms
<1>k. \A k \in refresh.keys : goneFor[k] <= FetchTimeout
  BY <1>t DEF RefreshInv
<1>i. IssuedInv'
  BY <1>r DEF IssuedInv
<1>1. CASE FetchSucceeds
  <2>1. Resume(refresh.keys) /\ cache' = [keys |-> refresh.keys, age |-> 0]
    BY <1>1 DEF FetchSucceeds
  <2>2. CacheInv'
    BY <1>t, <1>k, <1>r, <2>1 DEF CacheInv
  <2>3. cache' \in [keys : SUBSET Keys, age : Nat]
    BY <1>t, <2>1
  <2>4. /\ ask' \in [Callers -> Asks] /\ RefreshInv' /\ \A c \in Callers : AskInv(c)'
        /\ \A d \in Callers : ask'[d] # ask[d] /\ ask'[d].st = "got" => goneFor[ask'[d].kid] <= Lingers
    BY <1>t, <1>k, <1>r, <2>1, ResumeStep
  <2>5. JwksTypes'
    BY <1>r, <2>3, <2>4 DEF JwksTypes
  <2> QED
    BY <1>i, <2>2, <2>4, <2>5
<1>2. CASE FetchFails
  <2>1. Resume({}) /\ cache' = cache
    BY <1>2 DEF FetchFails
  <2>2. CacheInv'
    BY <1>r, <2>1 DEF CacheInv
  <2>4. /\ ask' \in [Callers -> Asks] /\ RefreshInv' /\ \A c \in Callers : AskInv(c)'
        /\ \A d \in Callers : ask'[d] # ask[d] /\ ask'[d].st = "got" => goneFor[ask'[d].kid] <= Lingers
    BY <1>r, <2>1, ResumeStep
  <2>5. JwksTypes'
    BY <1>r, <2>1, <2>4 DEF JwksTypes
  <2> QED
    BY <1>i, <2>2, <2>4, <2>5
<1> QED
  BY <1>1, <1>2

\* The issuer answers with what it publishes, publishes and withdraws.
LEMMA IssuerStep ==
  ASSUME KeyInv, IssuerAnswers \/ \E k \in Keys : Publish(k) \/ Withdraw(k)
  PROVE  KeyInv' /\ ask' = ask
<1> USE DEF KeyInv
<1>t. /\ CacheLifetime \in Nat /\ StaleGrace \in Nat /\ FetchTimeout \in Nat
      /\ cache.age \in Nat /\ cache.keys \subseteq Keys
      /\ refresh.since \in Nat /\ refresh.keys \subseteq Keys
      /\ \A l \in Keys : goneFor[l] \in Nat
  BY KeyNumbers
<1>1. CASE IssuerAnswers
  <2>1. PICK f \in Forms : refresh' = [refresh EXCEPT !.st = "answered", !.keys = issued, !.form = f]
    BY <1>1, Zenon DEF IssuerAnswers
  <2>2. UNCHANGED <<issued, goneFor, cache, ask>> /\ refresh.st = "asked"
    BY <1>1, Zenon DEF IssuerAnswers
  <2>3. /\ refresh' \in Refreshes /\ refresh'.since = refresh.since /\ refresh'.keys = issued
        /\ refresh'.st = "answered"
    BY <2>1 DEF JwksTypes, Refreshes
  <2>4. refresh' # NoRefresh
    BY <2>3 DEF NoRefresh
  <2>5. JwksTypes' /\ IssuedInv' /\ CacheInv'
    BY <2>2, <2>3 DEF JwksTypes, IssuedInv, CacheInv
  <2>6. RefreshInv'
    BY <1>t, <2>2, <2>3 DEF RefreshInv, IssuedInv
  <2>7. \A c \in Callers : AskInv(c)'
    BY <2>2, <2>3, <2>4 DEF AskInv
  <2> QED
    BY <2>2, <2>5, <2>6, <2>7
<1>2. ASSUME goneFor' \in [Keys -> Nat], \A k \in Keys : goneFor'[k] <= goneFor[k],
             issued' \subseteq Keys, \A k \in issued' : goneFor'[k] = 0, UNCHANGED <<cache, refresh, ask>>
      PROVE  KeyInv' /\ ask' = ask
  <2>0. \A k \in Keys : goneFor'[k] \in Nat
    BY <1>2
  <2>1. JwksTypes' /\ IssuedInv'
    BY <1>2 DEF JwksTypes, IssuedInv
  <2>2. CacheInv'
    <3> SUFFICES ASSUME cache.age <= CacheLifetime + StaleGrace, NEW k \in cache.keys
                 PROVE  goneFor'[k] <= cache.age + FetchTimeout
      BY <1>2 DEF CacheInv
    <3>1. goneFor[k] <= cache.age + FetchTimeout /\ goneFor'[k] <= goneFor[k] /\ k \in Keys
      BY <1>2, <1>t DEF CacheInv
    <3> QED
      BY <1>t, <2>0, <3>1
  <2>3. RefreshInv'
    <3>1. ASSUME NEW k \in refresh.keys PROVE goneFor'[k] <= refresh.since
      <4>1. goneFor[k] <= refresh.since /\ goneFor'[k] <= goneFor[k] /\ k \in Keys
        BY <1>2, <1>t DEF RefreshInv
      <4> QED
        BY <1>t, <2>0, <4>1
    <3> QED
      BY <1>2, <3>1 DEF RefreshInv
  <2>4. ASSUME NEW c \in Callers PROVE AskInv(c)'
    <3> SUFFICES ASSUME ask[c].st = "waiting", ask[c].graced
                 PROVE  goneFor'[ask[c].kid] <= CacheLifetime + StaleGrace + FetchTimeout + refresh.since
      BY <1>2 DEF AskInv
    <3>1. ask[c].kid \in Keys
      BY DEF JwksTypes, Asks
    <3>2. /\ goneFor[ask[c].kid] <= CacheLifetime + StaleGrace + FetchTimeout + refresh.since
          /\ goneFor'[ask[c].kid] <= goneFor[ask[c].kid]
      BY <1>2, <3>1 DEF AskInv
    <3> QED
      BY <1>t, <2>0, <3>1, <3>2
  <2> QED
    BY <1>2, <2>1, <2>2, <2>3, <2>4
<1>3. ASSUME NEW k \in Keys, Publish(k) PROVE KeyInv' /\ ask' = ask
  <2>1. /\ issued' = issued \union {k} /\ goneFor' = [goneFor EXCEPT ![k] = 0]
        /\ UNCHANGED <<cache, refresh, ask>>
    BY <1>3 DEF Publish
  <2>2. goneFor \in [Keys -> Nat] /\ issued \subseteq Keys
    BY DEF JwksTypes
  <2>3. goneFor' \in [Keys -> Nat] /\ \A l \in Keys : goneFor'[l] = (IF l = k THEN 0 ELSE goneFor[l])
    BY <2>1, <2>2
  <2>4. \A l \in Keys : goneFor'[l] <= goneFor[l]
    BY <1>t, <2>3
  <2>5. \A l \in issued' : goneFor'[l] = 0
    BY <2>1, <2>2, <2>3 DEF IssuedInv
  <2> QED
    BY <1>2, <2>1, <2>2, <2>3, <2>4, <2>5
<1>4. ASSUME NEW k \in Keys, Withdraw(k) PROVE KeyInv' /\ ask' = ask
  <2>1. issued' = issued \ {k} /\ UNCHANGED <<goneFor, cache, refresh, ask>>
    BY <1>4 DEF Withdraw
  <2>2. goneFor \in [Keys -> Nat] /\ issued \subseteq Keys
    BY DEF JwksTypes
  <2>3. \A l \in issued' : goneFor'[l] = 0
    BY <2>1 DEF IssuedInv
  <2>4. \A l \in Keys : goneFor'[l] <= goneFor[l]
    BY <1>t, <2>1
  <2> QED
    BY <1>2, <2>1, <2>2, <2>3, <2>4
<1> QED
  BY <1>1, <1>3, <1>4

\* Time passes for the key set, its fetch and what is withdrawn alike.
LEMMA TickStep ==
  ASSUME KeyInv, Tick
  PROVE  KeyInv' /\ ask' = ask
<1> USE DEF KeyInv
<1>t. /\ CacheLifetime \in Nat /\ StaleGrace \in Nat /\ FetchTimeout \in Nat
      /\ cache.age \in Nat /\ cache.keys \subseteq Keys
      /\ refresh.since \in Nat /\ refresh.keys \subseteq Keys
      /\ \A l \in Keys : goneFor[l] \in Nat
      /\ Expired = CacheLifetime + StaleGrace + 1
  BY KeyNumbers
<1>u. issued' = issued /\ ask' = ask
  BY DEF Tick
<1>o. \A n \in Nat : \A l : Older(n, l) \in Nat /\ Older(n, l) <= n + 1
  BY DEF Older
<1>1. /\ goneFor' \in [Keys -> Nat] /\ \A k \in Keys : goneFor'[k] <= goneFor[k] + 1
      /\ \A k \in issued : goneFor'[k] = 0
  <2>1. goneFor' = [k \in Keys |-> IF k \in issued THEN 0 ELSE Older(goneFor[k], Lingers + 1)]
    BY DEF Tick
  <2>2. \A k \in Keys : goneFor'[k] \in Nat /\ goneFor'[k] <= goneFor[k] + 1
    BY <1>t, <1>o, <2>1
  <2>3. \A k \in issued : goneFor'[k] = 0
    BY <2>1 DEF JwksTypes
  <2> QED
    BY <2>1, <2>2, <2>3
<1>2. cache' \in [keys : SUBSET Keys, age : Nat] /\ cache'.keys = cache.keys /\ cache'.age = Older(cache.age, Expired)
  <2>1. cache' = [cache EXCEPT !.age = Older(@, Expired)]
    BY DEF Tick
  <2> QED
    BY <1>t, <1>o, <2>1 DEF JwksTypes
<1>3. /\ refresh' \in Refreshes /\ refresh'.keys = refresh.keys
      /\ refresh # NoRefresh => /\ refresh' # NoRefresh /\ refresh'.since = refresh.since + 1
                                /\ refresh.since < FetchTimeout
      /\ refresh = NoRefresh => refresh' = refresh /\ refresh.keys = {}
  <2>1. CASE refresh = NoRefresh
    BY <2>1 DEF Tick, JwksTypes, NoRefresh
  <2>2. CASE refresh # NoRefresh
    <3>1. refresh' = [refresh EXCEPT !.since = @ + 1] /\ refresh.since < FetchTimeout
      BY <2>2 DEF Tick
    <3>2. refresh' \in Refreshes /\ refresh'.keys = refresh.keys /\ refresh'.since = refresh.since + 1
      BY <1>t, <3>1 DEF JwksTypes, Refreshes
    <3>3. refresh' # NoRefresh
      BY <1>t, <3>2 DEF NoRefresh
    <3> QED
      BY <2>2, <3>1, <3>2, <3>3
  <2> QED
    BY <2>1, <2>2
<1>4. JwksTypes' /\ IssuedInv'
  BY <1>u, <1>1, <1>2, <1>3 DEF JwksTypes, IssuedInv
<1>g. \A k \in Keys : goneFor'[k] \in Nat
  BY <1>1
<1>5. CacheInv'
  <2> SUFFICES ASSUME cache'.age <= CacheLifetime + StaleGrace, NEW k \in cache.keys
               PROVE  goneFor'[k] <= cache'.age + FetchTimeout
    BY <1>2 DEF CacheInv
  <2>1. cache'.age = cache.age + 1 /\ cache.age <= CacheLifetime + StaleGrace
    BY <1>t, <1>2 DEF Older
  <2>2. goneFor[k] <= cache.age + FetchTimeout /\ k \in Keys
    BY <1>t, <2>1 DEF CacheInv
  <2>3. goneFor'[k] <= goneFor[k] + 1 /\ goneFor'[k] \in Nat /\ goneFor[k] \in Nat
    BY <1>t, <1>g, <1>1, <2>2
  <2> QED
    BY <1>t, <2>1, <2>2, <2>3
<1>6. RefreshInv'
  <2>1. CASE refresh = NoRefresh
    BY <1>3, <2>1 DEF RefreshInv
  <2>2. CASE refresh # NoRefresh
    <3>1. ASSUME NEW k \in refresh.keys PROVE goneFor'[k] <= refresh'.since
      <4>1. k \in Keys /\ goneFor[k] <= refresh.since
        BY <1>t DEF RefreshInv
      <4>2. goneFor'[k] <= goneFor[k] + 1 /\ goneFor'[k] \in Nat /\ goneFor[k] \in Nat
        BY <1>t, <1>g, <1>1, <4>1
      <4> QED
        BY <1>t, <1>3, <2>2, <4>1, <4>2
    <3> QED
      BY <1>t, <1>3, <2>2, <3>1 DEF RefreshInv
  <2> QED
    BY <2>1, <2>2
<1>7. ASSUME NEW c \in Callers PROVE AskInv(c)'
  <2> SUFFICES ASSUME ask[c].st = "waiting"
               PROVE  /\ refresh' # NoRefresh
                      /\ ask[c].graced => goneFor'[ask[c].kid]
                                            <= CacheLifetime + StaleGrace + FetchTimeout + refresh'.since
    BY <1>u DEF AskInv
  <2>1. refresh # NoRefresh
    BY DEF AskInv
  <2>2. ask[c].kid \in Keys
    BY DEF JwksTypes, Asks
  <2>3. ASSUME ask[c].graced
        PROVE  goneFor'[ask[c].kid] <= CacheLifetime + StaleGrace + FetchTimeout + refresh'.since
    <3>1. goneFor[ask[c].kid] <= CacheLifetime + StaleGrace + FetchTimeout + refresh.since
      BY <2>3 DEF AskInv
    <3>2. /\ goneFor'[ask[c].kid] <= goneFor[ask[c].kid] + 1
          /\ goneFor'[ask[c].kid] \in Nat /\ goneFor[ask[c].kid] \in Nat
      BY <1>t, <1>g, <1>1, <2>2
    <3> QED
      BY <1>t, <1>3, <2>1, <3>1, <3>2
  <2> QED
    BY <1>3, <2>1, <2>3
<1> QED
  BY <1>u, <1>4, <1>5, <1>6, <1>7

\* A call is done.
LEMMA AnsweredStep ==
  ASSUME KeyInv, NEW c \in Callers, Answered(c)
  PROVE  /\ KeyInv'
         /\ \A d \in Callers : ask'[d] # ask[d] => ask'[d].st = "idle"
<1>1. ask' = [ask EXCEPT ![c] = Idle] /\ UNCHANGED <<issued, goneFor, cache, refresh>>
  BY DEF Answered
<1>2. Idle \in Asks /\ Idle.st = "idle"
  BY DEF Idle, Asks
<1>3. ask \in [Callers -> Asks]
  BY DEF KeyInv, JwksTypes
<1>4. JwksTypes'
  BY <1>1, <1>2, <1>3 DEF KeyInv, JwksTypes
<1>5. IssuedInv' /\ CacheInv' /\ RefreshInv'
  BY <1>1 DEF KeyInv, IssuedInv, CacheInv, RefreshInv
<1>6. \A d \in Callers : AskInv(d)'
  BY <1>1, <1>2, <1>3 DEF KeyInv, AskInv
<1> QED
  BY <1>1, <1>2, <1>3, <1>4, <1>5, <1>6 DEF KeyInv

\* A step of the composition is a step of the mutations, and moves the key cache
\* by its own steps, by a lookup or by the end of a call.
LEMMA AccessStep ==
  ASSUME AccessNext
  PROVE  /\ [Next]_vars
         /\ \/ JwksStep \/ UNCHANGED jwksVars
            \/ \E c \in Admins, k \in Keys : getKey(c, k)
            \/ \E c \in Admins : Answered(c)
<1>1. ASSUME NEW a \in Admins, NEW t \in Assertions, Arrive(a, t)
      PROVE  UNCHANGED vars /\ \E k \in Keys : getKey(a, k)
  BY <1>1 DEF Arrive, Assertions
<1>2. ASSUME NEW a \in Admins, TurnedAway(a) PROVE UNCHANGED vars /\ Answered(a)
  BY <1>2 DEF TurnedAway
<1>3. ASSUME NEW a \in Admins, DetailPage(a) PROVE Next /\ Answered(a)
  BY <1>3 DEF DetailPage, requireAdmin, Next
<1>4. ASSUME NEW a \in Admins, NEW q \in Requests, Mutation(a, q) PROVE Next /\ Answered(a)
  BY <1>4 DEF Mutation, requireAdmin, Next
<1>5. ASSUME NEW a \in Admins, addInquiryNoteAction(a) PROVE Next /\ Answered(a)
  BY <1>5 DEF addInquiryNoteAction, requireAdmin, Next
<1>6. ASSUME NEW a \in Admins, Update(a) \/ Abandon(a) PROVE Next
  BY <1>6 DEF Next
<1>7. ASSUME NEW a \in Admins, changeInquiryStatusAction(a) \/ archiveInquiryAction(a) \/ restoreInquiryAction(a)
      PROVE  \E q \in Requests : Mutation(a, q)
  BY <1>7 DEF changeInquiryStatusAction, archiveInquiryAction, restoreInquiryAction, Requests
<1> QED
  BY <1>1, <1>2, <1>3, <1>4, <1>5, <1>6, <1>7 DEF AccessNext

-----------------------------------------------------------------------------
\* Through the gateway, the application runs its mutations and nothing else: what
\* is proved of them holds behind the access check (gateway handle, requireAdmin).
THEOREM AccessRunsMutations == AccessSafety => Spec
<1>1. AccessInit => Init
  BY DEF AccessInit
<1>2. [AccessNext]_accessVars => [Next]_vars
  <2>1. UNCHANGED accessVars => UNCHANGED vars
    BY DEF accessVars
  <2> QED
    BY <2>1, AccessStep
<1> QED
  BY <1>1, <1>2, PTL DEF AccessSafety, Spec

LEMMA KeyInvStep ==
  ASSUME KeyInv, [AccessNext]_accessVars
  PROVE  /\ KeyInv'
         /\ \A d \in Callers : ask'[d] # ask[d] /\ ask'[d].st = "got" => goneFor[ask'[d].kid] <= Lingers
<1>1. CASE JwksStep
  <2>1. ASSUME FetchSucceeds \/ FetchFails
        PROVE  /\ KeyInv'
               /\ \A d \in Callers : ask'[d] # ask[d] /\ ask'[d].st = "got" => goneFor[ask'[d].kid] <= Lingers
    BY <2>1, FetchStep
  <2>2. ASSUME IssuerAnswers \/ \E k \in Keys : Publish(k) \/ Withdraw(k)
        PROVE  KeyInv' /\ ask' = ask
    BY <2>2, IssuerStep
  <2>3. ASSUME Tick PROVE KeyInv' /\ ask' = ask
    BY <2>3, TickStep
  <2> QED
    BY <1>1, <2>1, <2>2, <2>3 DEF JwksStep
<1>2. CASE UNCHANGED jwksVars
  <2>1. KeyInv'
    BY <1>2 DEF jwksVars, KeyInv, JwksTypes, IssuedInv, CacheInv, RefreshInv, AskInv
  <2> QED
    BY <1>2, <2>1 DEF jwksVars
<1>3. ASSUME NEW c \in Admins, NEW k \in Keys, getKey(c, k)
      PROVE  /\ KeyInv'
             /\ \A d \in Callers : ask'[d] # ask[d] /\ ask'[d].st = "got" => goneFor[ask'[d].kid] <= Lingers
  BY <1>3, AdminsAssumption, LookupStep
<1>4. ASSUME NEW c \in Admins, Answered(c)
      PROVE  KeyInv' /\ \A d \in Callers : ask'[d] # ask[d] => ask'[d].st = "idle"
  BY <1>4, AdminsAssumption, AnsweredStep
<1>5. UNCHANGED accessVars => UNCHANGED jwksVars
  BY DEF accessVars
<1> QED
  BY <1>1, <1>2, <1>3, <1>4, <1>5, AccessStep

\* Rotation is effective, for any lifetimes, timeouts and callers: a key that the
\* issuer withdrew is accepted no longer than its lifetime, the grace and two
\* fetches (bounded-jwks.ts getKey, refreshCache).
THEOREM WithdrawnKeysExpire == AccessSafety => WithdrawnKeyExpires
<1>1. AccessInit => KeyInv
  <2> SUFFICES ASSUME AccessInit PROVE KeyInv
    OBVIOUS
  <2>1. /\ issued \subseteq Keys
        /\ goneFor = [k \in Keys |-> IF k \in issued THEN 0 ELSE Lingers + 1]
        /\ cache = NoCache /\ refresh = NoRefresh /\ ask = [c \in Callers |-> Idle]
    BY DEF AccessInit, JwksInit
  <2>2. /\ CacheLifetime \in Nat /\ StaleGrace \in Nat /\ FetchTimeout \in Nat
        /\ Expired = CacheLifetime + StaleGrace + 1
        /\ Lingers = CacheLifetime + StaleGrace + 2 * FetchTimeout
    BY LimitsAssumption DEF Expired, Lingers
  <2>3. goneFor \in [Keys -> Nat] /\ IssuedInv
    <3>1. Lingers + 1 \in Nat
      BY <2>2
    <3> QED
      BY <2>1, <3>1 DEF IssuedInv
  <2>4. cache \in [keys : SUBSET Keys, age : Nat] /\ CacheInv
    <3>1. cache.keys = {} /\ cache.age = Expired
      BY <2>1 DEF NoCache
    <3>2. cache \in [keys : SUBSET Keys, age : Nat]
      BY <2>1, <2>2 DEF NoCache
    <3> QED
      BY <3>1, <3>2 DEF CacheInv
  <2>5. refresh \in Refreshes /\ RefreshInv
    BY <2>1, <2>2 DEF NoRefresh, Refreshes, Forms, RefreshInv
  <2>6. ask \in [Callers -> Asks] /\ \A c \in Callers : AskInv(c)
    BY <2>1 DEF Idle, Asks, AskInv
  <2> QED
    BY <2>1, <2>3, <2>4, <2>5, <2>6 DEF KeyInv, JwksTypes
<1>2. KeyInv /\ [AccessNext]_accessVars => KeyInv'
  BY KeyInvStep
<1>3. KeyInv /\ [AccessNext]_accessVars =>
         [\A c \in Callers : ask'[c] # ask[c] /\ ask'[c].st = "got" => goneFor[ask'[c].kid] <= Lingers]_jwksVars
  BY KeyInvStep
<1> QED
  BY <1>1, <1>2, <1>3, PTL DEF AccessSafety, WithdrawnKeyExpires
=============================================================================
