---------------------------- MODULE MCInquiries ----------------------------
(* The two systems that share the inquiries table and nothing else: the    *)
(* public form (PublicInquiry) and the administrators (AdminAccess), in    *)
(* one run.  A behaviour is one of the first or one of the second; values  *)
(* of the constants, and the part of the second that is explored: keys     *)
(* rotate and fetches fail while nobody has a page open; the pages are     *)
(* opened right after a first fetch, and the key set stands still from     *)
(* then on.                                                                *)
EXTENDS PublicInquiry, AdminAccess

CONSTANTS s1, s2, s3

\* A form submitted twice and once more with an edited payload, under one
\* submission token; any of the three signed requests may be delivered again.
MCSigned == {s1, s2, s3}
MCForm   == [s \in MCSigned |->
               [token |-> "t1", payload |-> IF s = s3 THEN "edited" ELSE "first"]]

PagesOpen == \E a \in Admins : form[a] # NoForm

FirstFetch == cache.age = 0 /\ \A k \in Keys \ issued : goneFor[k] > Lingers

OneSideMoves ==
    /\ PagesOpen => UNCHANGED <<issued, goneFor, cache, sinceAttempt>>
    /\ form' # form => FirstFetch

\* The requests s1 and s2 carry the same form: s1 is the one that is delivered first.
FirstFirst ==
    submission' # submission /\ (\E e \in Handlers : submission'[e] = s2)
        => \E e \in Handlers : submission[e] = s1

Explored == OneSideMoves /\ FirstFirst

\* Nothing has been delivered; no administrator, key or clock has moved.
FlowAtRest == arrived = 0
AccessAtRest == AccessInit

MCInit == FlowInit /\ AccessInit

MCNext ==
    \/ AccessAtRest /\ FlowNext /\ UNCHANGED accessVars
    \/ FlowAtRest /\ AccessNext /\ UNCHANGED flowVars

\* FlowFairness, and AccessFairness in the behaviours that are not about the form.
MCSpec ==
    /\ MCInit
    /\ [][MCNext]_<<flowVars, accessVars>>
    /\ FlowFairness
    /\ WF_jwksVars(FlowAtRest /\ Tick)
    /\ WF_jwksVars(FlowAtRest /\ FetchFails)
    /\ SF_jwksVars(FlowAtRest /\ IssuerAnswers /\ refresh'.form = "sound")
    /\ SF_jwksVars(FlowAtRest /\ FetchSucceeds)
    /\ WF_accessVars(FlowAtRest /\ \E a \in Admins : TurnedAway(a))
    /\ \A k \in Keys :
          SF_accessVars(FlowAtRest /\ \E a \in Admins, t \in Assertions : t.kid = k /\ Arrive(a, t))
=============================================================================
