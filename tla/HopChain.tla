------------------------------ MODULE HopChain ------------------------------
(***************************************************************************)
(* The authenticated hops behind the defense plane: the Origin Boundary    *)
(* (defense/boundary/boundary.ts), the Protected App with its own guard    *)
(* (origin/app-guard.ts, origin/synthetic-origin.ts), the admission both   *)
(* run (core/hop-admission.ts) and the single-use replay state each keeps  *)
(* in memory (core/replay-guard.ts).                                       *)
(*                                                                         *)
(* The plane signs a PB proof; the boundary admits it once, signs a BA     *)
(* proof for it and forwards both; the app admits the pair once and runs   *)
(* the request.  Anyone on the host may present a proof seen on the wire   *)
(* again, to either gate, whole or in a new combination.  Either process   *)
(* may die and start again with an empty replay set.                       *)
(*                                                                         *)
(* A presentation carries the envelope of an issued proof, as it was or    *)
(* altered, and headers of the presenter's choice (SemanticRequest).       *)
(* Both clocks of the host move together (the code only reports a step of  *)
(* the wall clock), and a process takes at least a tick to start.          *)
(***************************************************************************)
EXTENDS SemanticRequest

CONSTANTS
    Proofs,        \* the PB proofs the plane may issue
    Client,        \* the client request each would be issued for
    Tampered,      \* header lists a presenter may send instead of the signed ones
    AtBoundary,    \* presentations at the boundary; each issues at most one BA, named after it
    AtApp,         \* presentations at the app
    Lifetime,      \* per role, "pb" and "ba": exp - iat
    Skew,          \* HOP_SKEW_MS
    Margin,        \* the second added to a retention
    ReplayCapacity,\* entries of the boundary's replay set; the app has twice as many
    MaxActive,     \* maxConcurrent of the app
    Faults,        \* origin failures the harness may arm
    MaxTime,       \* bound on the clock
    MaxCrashes     \* bound on crashes

Gates == {"boundary", "app"}
None == 0
Never == -1

ASSUME ProofsAssumption == None \notin Proofs /\ DOMAIN Client = Proofs
ASSUME PresentationsAssumption ==
    AtBoundary \subseteq Nat \ {0} /\ AtApp \subseteq Nat \ {0} /\ IsFiniteSet(AtApp)
ASSUME TimesAssumption ==
    /\ Lifetime \in [{"pb", "ba"} -> Nat \ {0}]
    /\ Skew \in Nat /\ Margin \in Nat \ {0} /\ MaxTime \in Nat
ASSUME LimitsAssumption ==
    /\ ReplayCapacity \in Nat \ {0} /\ MaxActive \in Nat \ {0} /\ MaxCrashes \in Nat
    /\ Faults \subseteq {"reset", "hang", "delay"}

VARIABLES
    now,      \* the clock both gates and the plane read
    issued,   \* per PB proof: its iat, or Never
    gate,     \* per gate: whether its process runs, since when, its replay entries
    crashes,  \* how often a process died
    atB,      \* presentations at the boundary
    atA       \* presentations at the app

vars == <<now, issued, gate, crashes, atB, atA>>

-----------------------------------------------------------------------------
(* ReplayGuard                                                             *)

\* RETAIN_PB_MS and RETAIN_BA_MS: the longest a proof can be accepted, and a margin.
Retain(role) == Lifetime[role] + 2 * Skew + Margin

Capacity(g) == IF g = "boundary" THEN ReplayCapacity ELSE 2 * ReplayCapacity

\* Mutant: a purge that looks at the retention only.
PurgeAny(entries) == {e \in entries : e.until > now}

\* purge(): an entry goes when its retention is over, but never while it is reserved.
purge(entries) == {e \in entries : e.until > now \/ e.state = "RESERVED"}

Keys(entries) == {e.key : e \in entries}

\* reserve(): all keys or none, and a full set refuses.
reserve(g, wants, entries) ==
    CASE \E w \in wants : w.key \in Keys(entries) -> "replayed"
      [] Cardinality(entries) + Cardinality(wants) > Capacity(g) -> "full"
      [] OTHER -> "ok"

Reserved(wants) == {[key |-> w.key, state |-> "RESERVED", until |-> now + w.retain] : w \in wants}

\* What a reservation leaves of the set first: the scan runs every 250 ms, and always when the set is full.
Scanned(g, wants) ==
    {purge(gate[g].entries)}
       \union (IF Cardinality(gate[g].entries) + Cardinality(wants) > Capacity(g) THEN {}
               ELSE {gate[g].entries})

\* ReplayTicket.commit() and burn().
transition(g, keys, next) ==
    [gate EXCEPT ![g].entries =
        {IF e.key \in keys /\ e.state = "RESERVED" THEN [e EXCEPT !.state = next] ELSE e : e \in @}]

-----------------------------------------------------------------------------
(* Admission                                                               *)

\* Mutant: no verifier-start fence.
WindowWithoutFence(role, iat, g) ==
    /\ iat - Skew <= now
    /\ now <= iat + Lifetime[role] + Skew

\* checkProofWindow(): freshness, then the start fence.
checkProofWindow(role, iat, g) ==
    /\ iat - Skew <= now
    /\ now <= iat + Lifetime[role] + Skew
    /\ iat >= gate[g].fence

\* The request a proof binds; a PB is issued for what the plane approved, a BA for what its PB says.
Request(pb) == buildApprovedRequest(Client[pb])
Approved == {pb \in Proofs : Approvable(Client[pb])}
Posts == {pb \in Approved : Request(pb).bodyLen > 0}

\* What a hop sends under the name of proof pb.
Own(role, pb) == [envelope |-> encodeEnvelope(role, Request(pb)),
                  headers  |-> semanticWireHeaders(Request(pb))]

\* What anyone else may present under it: the same, or with one thing altered.
Presented(role, pb) ==
    LET own == Own(role, pb) IN
    {own, [own EXCEPT !.envelope.signed = FALSE],
     [own EXCEPT !.envelope.role = IF role = "pb" THEN "ba" ELSE "pb"]}
       \union {[own EXCEPT !.headers = t] : t \in Tampered}

\* admitHopRequest() before the window, and the signature after it.
Authentic(role, q) ==
    /\ scanHopHeaders(q.headers, q.envelope.request.method) = "none"
    /\ decodeProof(q.envelope, role)
    /\ WireMatches(q.headers, q.envelope.request)
    /\ verifyProofSignature(q.envelope)

\* The two answers may differ by what is presented; a hop's own request has one.
Judged  == [role \in {"pb", "ba"} |-> [pb \in Approved |-> {Authentic(role, q) : q \in Presented(role, pb)}]]
Genuine == [role \in {"pb", "ba"} |-> [pb \in Approved |-> Authentic(role, Own(role, pb))]]

PbKey(pb) == <<"pb", pb>>
BaKey(ba) == <<"ba", ba>>
LineageKey(pb) == <<"ln", pb>>

WantsPb(pb) == {[key |-> PbKey(pb), retain |-> Retain("pb")]}
WantsBa(ba, pb) == {[key |-> BaKey(ba), retain |-> Retain("ba")],
                    [key |-> LineageKey(pb), retain |-> Retain("pb")]}

KeysOf(wants) == {w.key : w \in wants}

\* The BA names the PB it was issued for, by id and by digest.
SameLineage(ba, pb) == atB[ba].pb = pb

\* A presented request as far as the reservation: the window and the lineage, and its form.
AcceptablePb(pb) == checkProofWindow("pb", issued[pb], "boundary")

AcceptableBa(ba, pb) ==
    /\ checkProofWindow("ba", atB[ba].iat, "app")
    /\ checkProofWindow("pb", issued[pb], "app")
    /\ SameLineage(ba, pb)

-----------------------------------------------------------------------------
(* The boundary's handler                                                  *)

Refuse(b) == [b EXCEPT !.pc = "answered"]

\* After the commit, in one go: the events, issueBa() and the start of forward().
IssueAndForward(b) ==
    [b EXCEPT !.pc = "forwarded", !.iat = now]

NewAtApp == [pc |-> "idle", ba |-> None, pb |-> None, from |-> None, open |-> FALSE,
             ticket |-> "none", admitted |-> FALSE, executed |-> FALSE]

\* The next free presentation at the app (identity never matters).
FreeAtApp == {x \in AtApp : atA[x].pc = "idle" /\ \A y \in AtApp : y < x => atA[y].pc # "idle"}

\* The boundary's request leaves for the app.
Sent(b, pb) ==
    \E x \in FreeAtApp :
       atA' = [atA EXCEPT ![x] = [NewAtApp EXCEPT !.pc = "sent", !.ba = b, !.pb = pb,
                                                  !.from = b, !.open = TRUE]]

\* A PB arrives: everything up to the reservation runs without an await; without a body, all of it.
PresentPb(b, pb, authentic) ==
    LET slot == [atB[b] EXCEPT !.pb = pb] IN
    /\ gate["boundary"].up /\ atB[b].pc = "idle" /\ issued[pb] # Never
    /\ \A c \in AtBoundary : c < b => atB[c].pc # "idle"
    /\ \/ /\ ~(AcceptablePb(pb) /\ authentic)
          /\ atB' = [atB EXCEPT ![b] = Refuse(atB[b])]
          /\ UNCHANGED <<gate, atA>>
       \/ /\ AcceptablePb(pb) /\ authentic
          /\ \E entries \in Scanned("boundary", WantsPb(pb)) :
               LET answer == reserve("boundary", WantsPb(pb), entries)
                   kept(state) == [gate EXCEPT !["boundary"].entries =
                                     entries \union {[e EXCEPT !.state = state] : e \in Reserved(WantsPb(pb))}] IN
               \/ /\ answer # "ok"
                  /\ gate' = [gate EXCEPT !["boundary"].entries = entries]
                  /\ atB' = [atB EXCEPT ![b] = Refuse(atB[b])]
                  /\ UNCHANGED atA
               \/ /\ answer = "ok" /\ pb \in Posts
                  /\ gate' = kept("RESERVED")
                  /\ atB' = [atB EXCEPT ![b] = [slot EXCEPT !.pc = "reading", !.ticket = "open"]]
                  /\ UNCHANGED atA
               \/ /\ answer = "ok" /\ pb \notin Posts
                  /\ gate' = kept("COMMITTED")
                  /\ atB' = [atB EXCEPT ![b] = IssueAndForward([slot EXCEPT !.ticket = "settled"])]
                  /\ Sent(b, pb)
    /\ UNCHANGED <<now, issued, crashes>>

\* The body is read and matches the digest.
BodyReadPb(b) ==
    /\ atB[b].pc = "reading"
    /\ gate' = transition("boundary", {PbKey(atB[b].pb)}, "COMMITTED")
    /\ atB' = [atB EXCEPT ![b] = IssueAndForward([@ EXCEPT !.ticket = "settled"])]
    /\ Sent(b, atB[b].pb)
    /\ UNCHANGED <<now, issued, crashes>>

\* The deadline, a lost sender, a wrong length or digest: the reservation is burned.
BodyFailsPb(b) ==
    /\ atB[b].pc = "reading"
    /\ gate' = transition("boundary", {PbKey(atB[b].pb)}, "BURNED")
    /\ atB' = [atB EXCEPT ![b] = Refuse([@ EXCEPT !.ticket = "settled"])]
    /\ UNCHANGED <<now, issued, atA, crashes>>

\* forward(): the app's answer arrived whole.
ForwardResponded(b) ==
    /\ atB[b].pc = "forwarded"
    /\ \E x \in AtApp : atA[x].from = b /\ atA[x].pc \in {"completed", "refused"} /\ atA[x].open
    /\ atB' = [atB EXCEPT ![b].pc = "answered"]
    /\ UNCHANGED <<now, issued, gate, atA, crashes>>

\* forward(): the timer fired, or the connection broke; either way the boundary lets go of it.
ForwardFailed(b) ==
    /\ atB[b].pc = "forwarded"
    /\ atB' = [atB EXCEPT ![b].pc = "answered"]
    /\ atA' = [x \in AtApp |-> IF atA[x].from = b THEN [atA[x] EXCEPT !.open = FALSE] ELSE atA[x]]
    /\ UNCHANGED <<now, issued, gate, crashes>>

\* The sender's connection closes, after the answer or without it.
SenderClosed(b) ==
    /\ atB[b].pc = "answered"
    /\ atB' = [atB EXCEPT ![b].pc = "done"]
    /\ UNCHANGED <<now, issued, gate, atA, crashes>>

-----------------------------------------------------------------------------
(* The app's handler                                                       *)

RefuseAtApp(a) == [a EXCEPT !.pc = "refused"]

active == Cardinality({x \in AtApp : atA[x].pc \in {"hung", "delayed", "answering"}})

\* handle(): over capacity nothing runs.
Runs(a, others) == [a EXCEPT !.pc = "answering", !.executed = others < MaxActive]

Aborts(a) == [a EXCEPT !.pc = "aborted", !.open = FALSE]

\* handleGuarded() from the admission on: a connection already gone, an armed fault, or handle().
Admitted(slot) ==
    LET a == [slot EXCEPT !.admitted = TRUE, !.ticket = "settled"] IN
    {Runs(a, active)}
       \union (IF a.open THEN {} ELSE {Aborts(a)})
       \union (IF "reset" \in Faults THEN {Aborts(a)} ELSE {})
       \union (IF "hang" \in Faults THEN {[a EXCEPT !.pc = "hung"]} ELSE {})
       \union (IF "delay" \in Faults THEN {[a EXCEPT !.pc = "delayed"]} ELSE {})

\* The guard, up to the reservation, and all of it without a body.
Admit(x, slot, authentic) ==
    LET wants == WantsBa(slot.ba, slot.pb) IN
    \/ /\ ~(AcceptableBa(slot.ba, slot.pb) /\ authentic)
       /\ atA' = [atA EXCEPT ![x] = RefuseAtApp([slot EXCEPT !.ba = None, !.pb = None])]
       /\ UNCHANGED gate
    \/ /\ AcceptableBa(slot.ba, slot.pb) /\ authentic
       /\ \E entries \in Scanned("app", wants) :
            LET answer == reserve("app", wants, entries)
                kept(state) == [gate EXCEPT !["app"].entries =
                                  entries \union {[e EXCEPT !.state = state] : e \in Reserved(wants)}] IN
            \/ /\ answer # "ok"
               /\ gate' = [gate EXCEPT !["app"].entries = entries]
               /\ atA' = [atA EXCEPT ![x] = RefuseAtApp([slot EXCEPT !.ba = None, !.pb = None])]
            \/ /\ answer = "ok" /\ slot.pb \in Posts
               /\ gate' = kept("RESERVED")
               /\ atA' = [atA EXCEPT ![x] = [slot EXCEPT !.pc = "reading", !.ticket = "open"]]
            \/ /\ answer = "ok" /\ slot.pb \notin Posts
               /\ gate' = kept("COMMITTED")
               /\ \E a \in Admitted(slot) : atA' = [atA EXCEPT ![x] = a]

\* What the boundary sent arrives, though the boundary may have let go of it meanwhile.
ArriveAtApp(x) ==
    /\ gate["app"].up /\ atA[x].pc = "sent"
    /\ Admit(x, atA[x], Genuine["ba"][atA[x].pb])
    /\ UNCHANGED <<now, issued, atB, crashes>>

\* Someone presents an issued BA with an issued PB, once more or in a new combination.
PresentBa(x, ba, pb, authentic) ==
    /\ gate["app"].up /\ x \in FreeAtApp
    /\ atB[ba].iat # Never /\ issued[pb] # Never
    /\ Admit(x, [NewAtApp EXCEPT !.ba = ba, !.pb = pb, !.open = TRUE], authentic)
    /\ UNCHANGED <<now, issued, atB, crashes>>

KeysAtApp(a) == KeysOf(WantsBa(a.ba, a.pb))

BodyReadBa(x) ==
    /\ atA[x].pc = "reading"
    /\ gate' = transition("app", KeysAtApp(atA[x]), "COMMITTED")
    /\ \E a \in Admitted(atA[x]) : atA' = [atA EXCEPT ![x] = a]
    /\ UNCHANGED <<now, issued, atB, crashes>>

BodyFailsBa(x) ==
    /\ atA[x].pc = "reading"
    /\ gate' = transition("app", KeysAtApp(atA[x]), "BURNED")
    /\ atA' = [atA EXCEPT ![x] = RefuseAtApp([@ EXCEPT !.ticket = "settled"])]
    /\ UNCHANGED <<now, issued, atB, crashes>>

\* A delayed fault responds when its timer fires, whatever became of the connection.
DelayEnds(x) ==
    /\ atA[x].pc = "delayed"
    /\ atA' = [atA EXCEPT ![x] = Runs(@, active - 1)]
    /\ UNCHANGED <<now, issued, gate, atB, crashes>>

\* The response is handed over: "finish".
AppCompletes(x) ==
    /\ atA[x].pc = "answering" /\ atA[x].open
    /\ atA' = [atA EXCEPT ![x].pc = "completed"]
    /\ UNCHANGED <<now, issued, gate, atB, crashes>>

\* The connection closes before that: the boundary let go of it, or the presenter did.
AppConnectionCloses(x) ==
    /\ atA[x].pc \in {"hung", "answering"}
    /\ ~atA[x].open \/ atA[x].from = None
    /\ atA' = [atA EXCEPT ![x] = Aborts(@)]
    /\ UNCHANGED <<now, issued, gate, atB, crashes>>

-----------------------------------------------------------------------------
(* The plane, the clock and the processes                                  *)

\* The plane approves the request and signs it.
IssuePb(pb) ==
    /\ issued[pb] = Never /\ pb \in Approved
    /\ issued' = [issued EXCEPT ![pb] = now]
    /\ UNCHANGED <<now, gate, atB, atA, crashes>>

Tick ==
    /\ now < MaxTime
    /\ now' = now + 1
    /\ UNCHANGED <<issued, gate, atB, atA, crashes>>

Ended == {"idle", "done", "refused", "completed", "aborted", "dead"}

Killed(slot) == IF slot.pc \in Ended THEN [slot EXCEPT !.ticket = "none"]
                ELSE [slot EXCEPT !.pc = "dead", !.ticket = "none"]

\* A process dies: its replay set is gone, its requests end where they are, its connections break.
Crash(g) ==
    /\ gate[g].up /\ crashes < MaxCrashes
    /\ crashes' = crashes + 1
    /\ gate' = [gate EXCEPT ![g].up = FALSE, ![g].entries = {}, ![g].fence = now]
    /\ IF g = "boundary"
       THEN /\ atB' = [b \in AtBoundary |-> Killed(atB[b])]
            /\ atA' = [x \in AtApp |-> IF atA[x].from # None THEN [atA[x] EXCEPT !.open = FALSE] ELSE atA[x]]
       ELSE /\ atA' = [x \in AtApp |-> IF atA[x].pc = "sent" THEN [atA[x] EXCEPT !.pc = "dead"]
                                       ELSE Killed(atA[x])]
            /\ UNCHANGED atB
    /\ UNCHANGED <<now, issued>>

\* It starts again with an empty set and a new fence.
Start(g) ==
    /\ ~gate[g].up /\ now > gate[g].fence
    /\ gate' = [gate EXCEPT ![g].up = TRUE, ![g].fence = now]
    /\ UNCHANGED <<now, issued, atB, atA, crashes>>

-----------------------------------------------------------------------------

Init ==
    /\ now = 0
    /\ issued = [pb \in Proofs |-> Never]
    /\ gate = [g \in Gates |-> [up |-> TRUE, fence |-> 0, entries |-> {}]]
    /\ crashes = 0
    /\ atB = [b \in AtBoundary |-> [pc |-> "idle", pb |-> None, iat |-> Never, ticket |-> "none"]]
    /\ atA = [x \in AtApp |-> NewAtApp]

BoundaryStep(b) ==
    \/ \E pb \in Approved : \E authentic \in Judged["pb"][pb] : PresentPb(b, pb, authentic)
    \/ BodyReadPb(b) \/ BodyFailsPb(b)
    \/ ForwardResponded(b) \/ ForwardFailed(b) \/ SenderClosed(b)

AppStep(x) ==
    \/ ArriveAtApp(x)
    \/ \E ba \in {b \in AtBoundary : atB[b].iat # Never}, pb \in Approved :
          \E authentic \in Judged["ba"][atB[ba].pb] : PresentBa(x, ba, pb, authentic)
    \/ BodyReadBa(x) \/ BodyFailsBa(x)
    \/ DelayEnds(x) \/ AppCompletes(x) \/ AppConnectionCloses(x)

Next ==
    \/ Tick
    \/ \E pb \in Proofs : IssuePb(pb)
    \/ \E b \in AtBoundary : BoundaryStep(b)
    \/ \E x \in AtApp : AppStep(x)
    \/ \E g \in Gates : Crash(g) \/ Start(g)

Spec == Init /\ [][Next]_vars

-----------------------------------------------------------------------------
(* Properties                                                              *)

\* protectedLineageComplete(): the plane issued the PB, the boundary admitted it, and the BA that it
\* issued for that admission is the one the app admitted.
protectedLineageComplete(a) ==
    /\ issued[a.pb] # Never
    /\ atB[a.ba].iat # Never /\ atB[a.ba].pb = a.pb

\* validateOriginLineage(): app_admit_without_lineage and app_execution_without_lineage.
WithoutLineage ==
    {x \in AtApp : \/ atA[x].admitted /\ ~protectedLineageComplete(atA[x])
                   \/ atA[x].executed /\ ~atA[x].admitted}

\* lineage.ts, validateOriginLineage(): what the application admits carries a BA that the
\* boundary issued when it admitted the very same PB; and no PB runs at the application twice,
\* nor passes either gate twice, under replays to both, purges, burned bodies and restarts.
AdmittedOnceWithLineage ==
    /\ WithoutLineage = {}
    /\ \A x, y \in AtApp : (x # y /\ atA[x].admitted /\ atA[y].admitted) => atA[x].pb # atA[y].pb
    /\ \A b, c \in AtBoundary :
          (b # c /\ atB[b].iat # Never /\ atB[c].iat # Never) => atB[b].pb # atB[c].pb

\* replay-guard.ts: a proof whose reservation was granted in the life of the process is still in
\* its set while the window check would accept it once more, committed or burned.
UsedIsRemembered ==
    /\ \A b \in AtBoundary :
          (atB[b].ticket # "none" /\ AcceptablePb(atB[b].pb)) =>
             PbKey(atB[b].pb) \in Keys(gate["boundary"].entries)
    /\ \A x \in AtApp :
          (atA[x].ticket # "none" /\ checkProofWindow("pb", issued[atA[x].pb], "app")) =>
             LineageKey(atA[x].pb) \in Keys(gate["app"].entries)

\* replay-guard.ts, stats(): an entry is RESERVED exactly while a request that holds its ticket is
\* reading its body, so that "open" is zero at finalization and no settling meets another state.
ReservedIsReading ==
    \A g \in Gates :
       {e.key : e \in {f \in gate[g].entries : f.state = "RESERVED"}} =
          IF g = "boundary" THEN {PbKey(atB[b].pb) : b \in {c \in AtBoundary : atB[c].ticket = "open"}}
          ELSE UNION {KeysAtApp(atA[x]) : x \in {y \in AtApp : atA[y].ticket = "open"}}

\* The replay guards remember what was used for as long as it could be used
\* again, and hold back exactly what is being read (replay-guard.ts).
GuardsAreExact == UsedIsRemembered /\ ReservedIsReading

-----------------------------------------------------------------------------
(* The inductive invariant behind both.                                     *)

Entry == [key   : ({"pb", "ln"} \X Proofs) \union ({"ba"} \X AtBoundary),
          state : {"RESERVED", "COMMITTED", "BURNED"}, until : Int]
Tickets == {"none", "open", "settled"}

\* Nothing is issued, and no process started, in the future.
TypeOK ==
    /\ now \in Nat
    /\ issued \in [Proofs -> Int] /\ \A pb \in Proofs : issued[pb] <= now
    /\ gate \in [Gates -> [up : BOOLEAN, fence : Nat, entries : SUBSET Entry]]
    /\ \A g \in Gates : gate[g].fence <= now
    /\ atB \in [AtBoundary -> [pc : {"idle", "reading", "forwarded", "answered", "done", "dead"},
                               pb : Proofs \union {None}, iat : Int, ticket : Tickets]]
    /\ atA \in [AtApp -> [pc : {"idle", "sent", "reading", "hung", "delayed", "answering", "completed",
                                "refused", "aborted", "dead"},
                          ba : AtBoundary \union {None}, pb : Proofs \union {None},
                          from : AtBoundary \union {None}, open : BOOLEAN, ticket : Tickets,
                          admitted : BOOLEAN, executed : BOOLEAN]]

\* A presentation that took its proof: in this life of the gate, or for good.
TookB(b) == atB[b].ticket # "none" \/ atB[b].iat # Never
TookA(x) == atA[x].ticket # "none" \/ atA[x].admitted

LastMoment(pb) == issued[pb] + Lifetime["pb"] + Skew

\* Why a gate takes a proof only once: the proof is older than the gate's
\* process, its window is over, or the gate remembers it for at least as long.
Spent(g, key, pb) ==
    \/ IF gate[g].up THEN issued[pb] < gate[g].fence ELSE issued[pb] <= gate[g].fence
    \/ now > LastMoment(pb)
    \/ \E e \in gate[g].entries : e.key = key /\ e.until > LastMoment(pb)

\* Where a handler is tells whether its reservation is open; who is dead has
\* none; and exactly what is open is reserved.
BoundaryInv ==
    /\ \A b \in AtBoundary :
          /\ atB[b].pc = "idle" => ~TookB(b)
          /\ atB[b].pc = "reading" => atB[b].ticket = "open" /\ atB[b].iat = Never
          /\ atB[b].ticket # "none" => gate["boundary"].up
          /\ TookB(b) => /\ atB[b].pb \in Proofs /\ issued[atB[b].pb] # Never
                         /\ Spent("boundary", PbKey(atB[b].pb), atB[b].pb)
          /\ atB[b].ticket = "open" =>
                \E e \in gate["boundary"].entries : e.state = "RESERVED" /\ e.key = PbKey(atB[b].pb)
    /\ \A e \in gate["boundary"].entries :
          e.state = "RESERVED" => \E b \in AtBoundary : atB[b].ticket = "open" /\ e.key = PbKey(atB[b].pb)
    /\ \A b, c \in AtBoundary : b # c /\ TookB(b) /\ TookB(c) => atB[b].pb # atB[c].pb

\* The same at the app, where a BA comes with its PB on every way to admission.
AppInv ==
    /\ \A x \in AtApp :
          /\ atA[x].pc \in {"idle", "sent"} => ~TookA(x)
          /\ atA[x].pc = "reading" => atA[x].ticket = "open"
          /\ atA[x].pc = "delayed" \/ atA[x].executed => atA[x].admitted
          /\ atA[x].ticket # "none" => gate["app"].up
          /\ atA[x].pc = "sent" \/ TookA(x) =>
                /\ atA[x].ba \in AtBoundary /\ atA[x].pb \in Proofs
                /\ protectedLineageComplete(atA[x])
          /\ TookA(x) => Spent("app", LineageKey(atA[x].pb), atA[x].pb)
          /\ atA[x].ticket = "open" =>
                \A k \in KeysAtApp(atA[x]) :
                    \E e \in gate["app"].entries : e.state = "RESERVED" /\ e.key = k
    /\ \A e \in gate["app"].entries :
          e.state = "RESERVED" => \E x \in AtApp : atA[x].ticket = "open" /\ e.key \in KeysAtApp(atA[x])
    /\ \A x, y \in AtApp : x # y /\ TookA(x) /\ TookA(y) => atA[x].pb # atA[y].pb

HopInv == TypeOK /\ BoundaryInv /\ AppInv
=============================================================================
