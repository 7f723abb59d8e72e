--------------------------- MODULE PublicInquiry ---------------------------
(***************************************************************************)
(* The public inquiry flow: handlers that take a signed form through the   *)
(* admission authority (PRE), Turnstile, the authority again (POST) and    *)
(* into the database, where storing it also queues its notification.       *)
(*                                                                         *)
(* The k-th delivery of a signed request is handled by handler k, so that  *)
(* the same signed request can arrive twice and a form can be submitted    *)
(* again under the same submission token.  The authority and the outbox    *)
(* are their promises.  A call is a message that is executed at most once. *)
(* A caller that still waits hears the answer; one that gave up or died    *)
(* does not, and takes nothing back that it has sent.  (A lost answer is a *)
(* caller that gave up before the call was executed: nobody else can tell  *)
(* the two orders apart.)  A request that fails the handler's own checks,  *)
(* or a form its schema, is answered before any call and has no action.    *)
(***************************************************************************)
EXTENDS Integers

CONSTANTS
    Deliveries,   \* bound: number of deliveries
    Signed,       \* signed requests, each with a nonce of its own
    Form          \* submission token and payload of a signed request

Handlers == 1 .. Deliveries

ASSUME DeliveriesAssumption == Deliveries \in Nat

VARIABLES
    arrived,      \* deliveries so far
    submission,   \* the signed request of each handler, or NoSubmission
    pc,           \* where each handler is in executeVerifiedPublicInquiry
    wire,         \* the call it has sent that has not been executed
    answer,       \* what the browser shows: thanks, start over, or try again
    verified,     \* handlers whose Turnstile token was verified
    admitted,     \* handlers whose claimPre the authority allowed
    authorised,   \* handlers whose consumePost the authority allowed
    open,         \* handlers with an uncommitted row in table inquiries
    inquiries,    \* handlers whose row in table inquiries is committed
    events,       \* handlers whose inquiry_received event is committed
    fate,         \* the outbox row each handler committed
    accepted      \* outbox rows whose e-mail the provider has accepted

handler   == <<arrived, submission, pc, answer, verified>>
authority == <<admitted, authorised>>
tables    == <<open, inquiries, events, fate, accepted>>
flowVars  == <<handler, wire, authority, tables>>

NoSubmission == "no submission"
Stages    == {"idle", "pre", "turnstile", "post", "create", "inserted",
              "committing", "done"}
Answers   == {"none", "redirect", "conflict", "retry"}

Token(e)   == Form[submission[e]].token
Payload(e) == Form[submission[e]].payload

\* The authority's answers; the handler stands for the permit it was given.
grants == {[nonce |-> submission[e], permit |-> e] : e \in admitted}
uses   == {[nonce |-> submission[e], permit |-> e] : e \in authorised}

Authority    == INSTANCE AdmissionPromise WITH Nonces <- Signed
Notification == INSTANCE NotificationPromise WITH Rows <- Handlers

-----------------------------------------------------------------------------
FlowInit ==
    /\ arrived = 0
    /\ submission = [e \in Handlers |-> NoSubmission]
    /\ pc = [e \in Handlers |-> "idle"]
    /\ wire = [e \in Handlers |-> "none"]
    /\ answer = [e \in Handlers |-> "none"]
    /\ verified = {} /\ admitted = {} /\ authorised = {}
    /\ open = {} /\ inquiries = {} /\ events = {}
    /\ Notification!Init

\* The handler ends with answer a.  Every message that asks the visitor to try
\* again is one answer, the one the page shows when no answer comes included.
Return(e, a) ==
    /\ pc' = [pc EXCEPT ![e] = "done"]
    /\ answer' = [answer EXCEPT ![e] = a]

\* A signed request passes the checks of handlePublicInquiry; claimPre is sent.
Deliver(s) ==
    LET e == arrived + 1 IN
    /\ arrived < Deliveries
    /\ arrived' = e
    /\ submission' = [submission EXCEPT ![e] = s]
    /\ pc' = [pc EXCEPT ![e] = "pre"]
    /\ wire' = [wire EXCEPT ![e] = "pre"]
    /\ UNCHANGED <<answer, verified, authority, tables>>

\* The call of e was executed; e moves on if it still waits for it.
Heard(e, stage, next) ==
    /\ wire' = [wire EXCEPT ![e] = "none"]
    /\ pc' = IF pc[e] = stage THEN [pc EXCEPT ![e] = next] ELSE pc

\* The authority allows claimPre, and the flow goes on to Turnstile.
ClaimPre(e) ==
    /\ wire[e] = "pre"
    /\ admitted' = admitted \union {e}
    /\ UNCHANGED <<arrived, submission, answer, verified, authorised, tables>>
    /\ Authority!Claim(submission[e])
    /\ Heard(e, "pre", "turnstile")

\* The authority allows consumePost, and the flow goes on to the database.
ConsumePost(e) ==
    /\ wire[e] = "post"
    /\ authorised' = authorised \union {e}
    /\ UNCHANGED <<arrived, submission, answer, verified, admitted, tables>>
    /\ Authority!Consume(submission[e])
    /\ Heard(e, "post", "create")

\* The authority refuses either call: replay, limited or unavailable.
Refuse(e) ==
    /\ wire[e] \in {"pre", "post"}
    /\ wire' = [wire EXCEPT ![e] = "none"]
    /\ IF pc[e] = wire[e] THEN Return(e, "retry") ELSE UNCHANGED <<pc, answer>>
    /\ UNCHANGED <<arrived, submission, verified, authority, tables>>

\* Siteverify answers, or does not in time; then consumePost is sent.
VerifyTurnstile(e) ==
    /\ pc[e] = "turnstile"
    /\ \/ /\ verified' = verified \union {e}
          /\ pc' = [pc EXCEPT ![e] = "post"]
          /\ wire' = [wire EXCEPT ![e] = "post"]
          /\ UNCHANGED answer
       \/ /\ Return(e, "retry")
          /\ UNCHANGED <<wire, verified>>
    /\ UNCHANGED <<arrived, submission, authority, tables>>

\* The admission client gives up after two seconds, whether or not the call
\* was, or still will be, executed; it never calls again.
Timeout(e) ==
    /\ pc[e] \in {"pre", "post"}
    /\ Return(e, "retry")
    /\ UNCHANGED <<arrived, submission, wire, verified, authority, tables>>

-----------------------------------------------------------------------------
(* PostgresInquiryRepository.create.                                       *)

\* Mutant: the token is looked up before the insert, without waiting for an
\* uncommitted insert of the same token.
InsertWaitsForNobody(e) == TRUE

\* INSERT ... ON CONFLICT waits for an uncommitted row of the same token.
InsertMayProceed(e) == ~\E f \in open : Token(f) = Token(e)

\* The row was there: the SELECT that follows compares the fingerprints.
Found(e) ==
    /\ Return(e, IF \E f \in inquiries : Token(f) = Token(e) /\ Payload(f) = Payload(e)
                   THEN "redirect" ELSE "conflict")
    /\ UNCHANGED open

Insert(e) ==
    /\ pc[e] = "create" /\ InsertMayProceed(e)
    /\ IF \E f \in inquiries : Token(f) = Token(e)
         THEN Found(e)
         ELSE /\ open' = open \union {e}
              /\ pc' = [pc EXCEPT ![e] = "inserted"]
              /\ UNCHANGED answer
    /\ UNCHANGED <<arrived, submission, wire, verified, authority, inquiries,
                   events, fate, accepted>>

\* The event and the outbox row are written and COMMIT is sent.
SendCommit(e) ==
    /\ pc[e] = "inserted"
    /\ pc' = [pc EXCEPT ![e] = "committing"]
    /\ wire' = [wire EXCEPT ![e] = "commit"]
    /\ UNCHANGED <<arrived, submission, answer, verified, authority, tables>>

\* The commit was executed; e answers if it still waits for it.
HeardCommit(e) ==
    /\ wire' = [wire EXCEPT ![e] = "none"]
    /\ IF pc[e] = "committing" THEN Return(e, "redirect") ELSE UNCHANGED <<pc, answer>>

\* The database commits the three rows.
Commit(e) ==
    /\ wire[e] = "commit"
    /\ open' = open \ {e}
    /\ inquiries' = inquiries \union {e}
    /\ events' = events \union {e}
    /\ Notification!Queue(e)
    /\ HeardCommit(e)
    /\ UNCHANGED <<arrived, submission, verified, authority>>

\* A statement fails and the transaction is rolled back.
Fail(e) ==
    /\ pc[e] \in {"create", "inserted"}
    /\ open' = open \ {e}
    /\ Return(e, "retry")
    /\ UNCHANGED <<arrived, submission, wire, verified, authority, inquiries,
                   events, fate, accepted>>

\* The connection breaks after COMMIT was sent: the outcome is not known.
LoseCommit(e) ==
    /\ pc[e] = "committing"
    /\ Return(e, "retry")
    /\ UNCHANGED <<arrived, submission, wire, verified, authority, tables>>

\* Mutant: the database keeps the transaction of a lost connection.
RollbackNever(e) ==
    /\ e \in open /\ pc[e] = "done" /\ wire[e] = "commit"
    /\ open' = open \ {e}
    /\ wire' = [wire EXCEPT ![e] = "none"]
    /\ UNCHANGED <<handler, authority, inquiries, events, fate, accepted>>

\* The database notices that a client is gone and rolls its transaction back.
Rollback(e) ==
    /\ e \in open /\ pc[e] = "done"
    /\ open' = open \ {e}
    /\ wire' = [wire EXCEPT ![e] = "none"]
    /\ UNCHANGED <<handler, authority, inquiries, events, fate, accepted>>

\* The function instance dies; the page asks to try again.
Crash(e) ==
    /\ pc[e] \notin {"idle", "done"}
    /\ Return(e, "retry")
    /\ UNCHANGED <<arrived, submission, wire, verified, authority, tables>>

\* The outbox delivers and decides (see Outbox).
Notify(e) ==
    /\ Notification!Accept(e) \/ Notification!Decide(e)
    /\ UNCHANGED <<handler, wire, authority, open, inquiries, events>>

\* What a handler that is not killed does in the end.
Proceed(e) ==
    VerifyTurnstile(e) \/ Timeout(e) \/ Insert(e) \/ SendCommit(e)

FlowNext ==
    \/ \E s \in Signed : Deliver(s)
    \/ \E e \in Handlers :
          \/ Proceed(e)
          \/ Fail(e) \/ LoseCommit(e)
          \/ ClaimPre(e) \/ ConsumePost(e) \/ Refuse(e)
          \/ Commit(e) \/ Rollback(e)
          \/ Crash(e)
          \/ Notify(e)

FlowSpec == FlowInit /\ [][FlowNext]_flowVars

\* A handler goes on unless it is killed, and no statement has to fail for it;
\* the database executes what it was sent and ends the transactions of lost
\* clients; the outbox decides every row (EventuallyDecided of module Outbox).
\* Nothing is assumed of the authority.
FlowFairness ==
    \A e \in Handlers : /\ WF_flowVars(Proceed(e))
                        /\ WF_flowVars(Commit(e) \/ Rollback(e))
                        /\ WF_flowVars(Notification!Decide(e) /\ Notify(e))

-----------------------------------------------------------------------------
(* Properties.                                                             *)

\* Locals, messages and tables have their types.
FlowTypes ==
    /\ arrived \in 0 .. Deliveries
    /\ submission \in [Handlers -> Signed \union {NoSubmission}]
    /\ pc \in [Handlers -> Stages]
    /\ wire \in [Handlers -> {"none", "pre", "post", "commit"}]
    /\ answer \in [Handlers -> Answers]
    /\ verified \subseteq Handlers
    /\ admitted \subseteq Handlers /\ authorised \subseteq Handlers
    /\ open \subseteq Handlers /\ inquiries \subseteq Handlers
    /\ events \subseteq Handlers
    /\ fate \in [Handlers -> {"absent", "queued", "sent", "failed"}]
    /\ accepted \subseteq Handlers

\* A submission token leads to at most one inquiry, also when the same form is
\* delivered twice, submitted again after a lost answer, or committed by a
\* handler that is gone (unique index, ON CONFLICT DO NOTHING).
OneInquiryPerToken ==
    \A e, f \in inquiries : Token(e) = Token(f) => e = f

\* A row is only written by a handler that was itself verified by Turnstile
\* and admitted by both stages, and no two deliveries of one signed request
\* get that far: a lost or late answer never lets a handler pass.
OnlyAuthorisedCreate ==
    /\ \A e \in Handlers :
          \/ pc[e] \in {"create", "inserted", "committing"}
          \/ e \in open \union inquiries
          => e \in verified /\ e \in admitted /\ e \in authorised
    /\ \A e, f \in authorised : submission[e] = submission[f] => e = f

\* Whoever is sent to the thank-you page has its own payload stored under its
\* token, with the event and the notification of that inquiry.
RedirectMeansStored ==
    \A e \in Handlers : answer[e] = "redirect" =>
        \E f \in inquiries : /\ Token(f) = Token(e) /\ Payload(f) = Payload(e)
                             /\ f \in events /\ fate[f] # "absent"

\* Inquiry, event and notification exist together or not at all, whatever
\* happens to the handler between its statements and the commit.
StoredTogether ==
    /\ events = inquiries
    /\ \A e \in Handlers : fate[e] # "absent" <=> e \in inquiries

\* What is stored was authorised, once for each token and as a whole, and the
\* sender that is thanked finds its own payload stored (createInquiry action).
CreationIsSound == OneInquiryPerToken /\ OnlyAuthorisedCreate /\ RedirectMeansStored /\ StoredTogether

\* Every delivery of a form ends, nobody waits forever for the authority, for a
\* transaction of the same token or for the database, and the notification of
\* what was stored is decided, whatever became of its handler: as deliveries are
\* finite, all are settled for good in the end (createInquiry, the outbox).
EverythingIsSettled ==
    []<>(\A e \in Handlers :
            /\ pc[e] \in {"idle", "done"}
            /\ e \in inquiries => fate[e] \in {"sent", "failed"})

-----------------------------------------------------------------------------
(* The inductive invariant behind the safety properties.                   *)

\* Handlers that have not started have left no trace.
ArrivalInv ==
    \A e \in Handlers :
        /\ pc[e] = "idle" <=> e > arrived
        /\ pc[e] = "idle" => /\ answer[e] = "none" /\ wire[e] = "none"
                             /\ e \notin admitted \union authorised
                             /\ e \notin open \union inquiries
        /\ pc[e] # "idle" => submission[e] \in Signed

\* What is true while a call of a handler is under way, heard of or not.
CallInv ==
    \A e \in Handlers :
        /\ wire[e] = "pre" => pc[e] \in {"pre", "done"}
        /\ wire[e] = "post" => pc[e] \in {"post", "done"} /\ e \in verified
        /\ wire[e] = "commit" => pc[e] \in {"committing", "done"} /\ e \in open
        /\ pc[e] \in {"turnstile", "post"} \/ wire[e] = "post" => e \in admitted
        /\ pc[e] = "committing" => wire[e] = "commit"

\* Who has a row, and that no two rows, committed or not, share a token.
RowInv ==
    /\ \A e \in open : e \notin inquiries /\ pc[e] \in {"inserted", "committing", "done"}
    /\ \A e \in inquiries : pc[e] = "done"
    /\ \A e \in Handlers : pc[e] \in {"inserted", "committing"} => e \in open
    /\ \A e, f \in open \union inquiries : Token(e) = Token(f) => e = f

FlowInv ==
    /\ FlowTypes
    /\ ArrivalInv
    /\ CallInv
    /\ RowInv
    /\ OnlyAuthorisedCreate
    /\ StoredTogether
    /\ RedirectMeansStored
=============================================================================
