---------------------------- MODULE AdminAccess ----------------------------
(***************************************************************************)
(* The way of an administrator's request: the gateway worker verifies the  *)
(* Cloudflare Access assertion with its cached keys and forwards the       *)
(* request; the application verifies the assertion again and checks the    *)
(* allowlist in every page and every server action (requireAdmin); only    *)
(* then is a page rendered or a mutation begun (AdminInquiry).  A request  *)
(* that is turned away before a key is looked up changes nothing.          *)
(***************************************************************************)
EXTENDS AdminInquiry, BoundedJwks

CONSTANTS
    Emails,             \* mailboxes the Access policy lets in
    AllowedAdminEmail,  \* the one mailbox the gateway forwards
    AllowedEmails       \* ADMIN_ALLOWED_EMAILS of the application

\* The gateway looks a key up for every administrator's request.
ASSUME AdminsAssumption == Admins \subseteq Callers

accessVars == <<vars, jwksVars>>

AccessInit == Init /\ JwksInit

-----------------------------------------------------------------------------
\* An Access assertion: who it is for, the key it names, and whether it is a
\* compact JWT without ambiguity and with this issuer, audience and type.
Assertions == [kid : Keys, email : Emails, sound : BOOLEAN]

inspectCompactJwt(t) == t.sound

\* What the gateway compares before it looks up the key.
Inspected(t) == inspectCompactJwt(t) /\ t.email = AllowedAdminEmail

\* handle() up to the lookup of the key.
Arrive(a, t) ==
    /\ Inspected(t)
    /\ getKey(a, t.kid)
    /\ UNCHANGED vars

Answered(a) ==
    /\ ask[a].st = "got"
    /\ ask' = [ask EXCEPT ![a] = Idle]
    /\ UNCHANGED <<issued, goneFor, cache, refresh, sinceAttempt>>

\* The gateway answers itself: the signature, a date, the body or the answer of
\* the application is not acceptable, or the application takes too long.
TurnedAway(a) == Answered(a) /\ UNCHANGED vars

\* The application has a team domain, an audience and an allowlist.
getAdminAuthConfiguration == AllowedEmails # {}

\* The identity verifyCloudflareAccessToken() returns is that of the assertion
\* the gateway inspected.
authorizeAdmin(email) == email \in AllowedEmails

resolveAdminFromRequest == getAdminAuthConfiguration /\ authorizeAdmin(AllowedAdminEmail)

\* requireAdmin() lets the request pass; a failure of the application's own
\* verification is a notFound(), which the gateway passes on.
requireAdmin(a) == Answered(a) /\ resolveAdminFromRequest

\* getInquiryDetail() and the page with its forms.
DetailPage(a) == requireAdmin(a) /\ Render(a)

\* The fields of the form, before the repository checks them again.
parseMutationTarget(a) == form[a] # NoForm /\ form[a].revision <= RevisionLimit

\* The server actions: each verifies the administrator, parses the form and
\* runs its mutation.
Mutation(a, q) == requireAdmin(a) /\ parseMutationTarget(a) /\ Read(a, q)

changeInquiryStatusAction(a) ==
    \E to \in Statuses : Mutation(a, [op |-> "changeStatus", to |-> to])

archiveInquiryAction(a) == Mutation(a, [op |-> "archive", to |-> "archived"])

restoreInquiryAction(a) == Mutation(a, [op |-> "restore", to |-> NoStatus])

addInquiryNoteAction(a) == requireAdmin(a) /\ parseMutationTarget(a) /\ AddNote(a)

AccessNext ==
    \/ JwksStep /\ UNCHANGED vars
    \/ \E a \in Admins :
          \/ \E t \in Assertions : Arrive(a, t)
          \/ TurnedAway(a)
          \/ DetailPage(a)
          \/ changeInquiryStatusAction(a)
          \/ archiveInquiryAction(a)
          \/ restoreInquiryAction(a)
          \/ addInquiryNoteAction(a)
          \/ (Update(a) \/ Abandon(a)) /\ UNCHANGED jwksVars

AccessSafety == AccessInit /\ [][AccessNext]_accessVars

\* Requests keep coming under every key that may be signed with.
AccessFairness ==
    /\ JwksFairness
    /\ WF_accessVars(\E a \in Admins : TurnedAway(a))
    /\ \A k \in Keys :
          SF_accessVars(\E a \in Admins, t \in Assertions : t.kid = k /\ Arrive(a, t))
=============================================================================
