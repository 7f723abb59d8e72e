--------------------------- MODULE DefensePathProofs ---------------------------
(***************************************************************************)
(* Proofs about the path of a request through the defense.                 *)
(*                                                                         *)
(* First the authenticated hops, for any proofs, presentations, lifetimes  *)
(* and skew, any size of the replay sets, any faults and any number of     *)
(* crashes.  HopInv says what each gate has taken, why it takes none of it *)
(* again, and what it holds back; boundary and app are treated apart,      *)
(* since a step of one leaves what the other took as it is.                *)
(*                                                                         *)
(* Then the plane in front of them, for any requests and any bulkheads.    *)
(* PlaneInv says what a request has emitted at each point of its handler   *)
(* (StoryInv) and which evaluations the composers' counters stand for.     *)
(* The two models share no state, so neither proof cites the other.        *)
(***************************************************************************)
EXTENDS HopChain, DefensePlane, FiniteSetTheorems, SequenceTheorems, TLAPS

-----------------------------------------------------------------------------
(* What time, purges and settlements leave alone.                           *)

IssuedLast == \A pb \in Proofs : issued[pb] # Never => issued'[pb] = issued[pb]

\* A gate's set is as it was, but for entries whose retention is over.
GateStays(g) ==
  /\ gate'[g].up = gate[g].up /\ gate'[g].fence = gate[g].fence
  /\ gate'[g].entries \subseteq gate[g].entries
  /\ \A e \in gate[g].entries : e.until > now \/ e.state = "RESERVED" => e \in gate'[g].entries

\* A gate keeps what it remembers, in whatever state.
Remembers(g) ==
  /\ gate'[g].up = gate[g].up /\ gate'[g].fence = gate[g].fence
  /\ \A e \in gate[g].entries :
        e.until > now => \E f \in gate'[g].entries : f.key = e.key /\ f.until = e.until

LEMMA MomentIsInteger ==
  ASSUME TypeOK, NEW pb \in Proofs
  PROVE  LastMoment(pb) \in Int /\ issued[pb] \in Int /\ issued[pb] <= now /\ now \in Nat
BY TimesAssumption DEF TypeOK, LastMoment

\* An entry that is forgotten is one whose window is over.
LEMMA SpentLasts ==
  ASSUME TypeOK, NEW g \in Gates, NEW key, NEW pb \in Proofs, Spent(g, key, pb),
         issued'[pb] = issued[pb], now' \in Nat, now <= now', Remembers(g)
  PROVE  Spent(g, key, pb)'
<1>1. LastMoment(pb)' = LastMoment(pb) /\ LastMoment(pb) \in Int /\ now \in Nat
  BY MomentIsInteger DEF LastMoment
<1>2. CASE IF gate[g].up THEN issued[pb] < gate[g].fence ELSE issued[pb] <= gate[g].fence
  BY <1>2 DEF Spent, Remembers
<1>3. CASE now > LastMoment(pb)
  BY <1>1, <1>3 DEF Spent
<1>4. ASSUME NEW e \in gate[g].entries, e.key = key, e.until > LastMoment(pb)
      PROVE  Spent(g, key, pb)'
  <2>1. e.until \in Int
    BY DEF TypeOK, Entry
  <2>2. CASE e.until > now
    <3>1. PICK f \in gate'[g].entries : f.key = e.key /\ f.until = e.until
      BY <2>2 DEF Remembers
    <3> QED
      BY <1>1, <1>4, <3>1 DEF Spent
  <2>3. CASE ~(e.until > now)
    BY <1>1, <1>4, <2>1, <2>3 DEF Spent
  <2> QED
    BY <2>2, <2>3
<1> QED
  BY <1>2, <1>3, <1>4 DEF Spent

LEMMA StayingRemembers ==
  ASSUME NEW g \in Gates, GateStays(g)
  PROVE  Remembers(g)
BY DEF GateStays, Remembers

\* The scan before a reservation forgets nothing that is still needed.
LEMMA ScanKeeps ==
  ASSUME NEW g \in Gates, NEW wants, NEW entries \in Scanned(g, wants)
  PROVE  /\ entries \subseteq gate[g].entries
         /\ \A e \in gate[g].entries : e.until > now \/ e.state = "RESERVED" => e \in entries
BY DEF Scanned, purge

\* At a gate that is up, what it would still accept it remembers.
LEMMA AcceptableIsRemembered ==
  ASSUME TypeOK, NEW g \in Gates, NEW key, NEW pb \in Proofs, Spent(g, key, pb), gate[g].up,
         checkProofWindow("pb", issued[pb], g)
  PROVE  \E e \in gate[g].entries : e.key = key /\ e.until > now
<1>1. LastMoment(pb) \in Int /\ issued[pb] \in Int /\ now \in Nat /\ gate[g].fence \in Nat
  BY MomentIsInteger DEF TypeOK
<1>2. ~(issued[pb] < gate[g].fence) /\ ~(now > LastMoment(pb))
  BY <1>1 DEF checkProofWindow, LastMoment
<1>3. PICK e \in gate[g].entries : e.key = key /\ e.until > LastMoment(pb)
  BY <1>2 DEF Spent
<1>4. e.until \in Int
  BY DEF TypeOK, Entry
<1> QED
  BY <1>1, <1>2, <1>3, <1>4

LEMMA KeysAreTwo ==
  ASSUME NEW a
  PROVE  KeysAtApp(a) = {BaKey(a.ba), LineageKey(a.pb)}
BY DEF KeysAtApp, KeysOf, WantsBa

-----------------------------------------------------------------------------
(* The properties.                                                          *)

LEMMA HopInvImplies ==
  ASSUME HopInv
  PROVE  AdmittedOnceWithLineage /\ GuardsAreExact
<1> USE DEF HopInv
<1>1. AdmittedOnceWithLineage
  BY DEF AdmittedOnceWithLineage, WithoutLineage, AppInv, BoundaryInv, TookA, TookB
<1>2. ASSUME NEW b \in AtBoundary, atB[b].ticket # "none", AcceptablePb(atB[b].pb)
      PROVE  PbKey(atB[b].pb) \in Keys(gate["boundary"].entries)
  BY <1>2, AcceptableIsRemembered DEF BoundaryInv, TookB, AcceptablePb, Gates, Keys
<1>3. ASSUME NEW x \in AtApp, atA[x].ticket # "none", checkProofWindow("pb", issued[atA[x].pb], "app")
      PROVE  LineageKey(atA[x].pb) \in Keys(gate["app"].entries)
  BY <1>3, AcceptableIsRemembered DEF AppInv, TookA, Gates, Keys
<1>4. UsedIsRemembered
  BY <1>2, <1>3 DEF UsedIsRemembered
<1>5. {e.key : e \in {f \in gate["boundary"].entries : f.state = "RESERVED"}}
        = {PbKey(atB[b].pb) : b \in {c \in AtBoundary : atB[c].ticket = "open"}}
  BY DEF BoundaryInv
<1>6. {e.key : e \in {f \in gate["app"].entries : f.state = "RESERVED"}}
        = UNION {KeysAtApp(atA[x]) : x \in {y \in AtApp : atA[y].ticket = "open"}}
  BY DEF AppInv
<1> QED
  BY <1>1, <1>4, <1>5, <1>6 DEF GuardsAreExact, ReservedIsReading, Gates

-----------------------------------------------------------------------------
(* Reservations and settlements.                                            *)

\* What it means for a step that only replaces the entries of one gate.
LEMMA EntriesReplaced ==
  ASSUME TypeOK, NEW g \in Gates, NEW entries, gate' = [gate EXCEPT ![g].entries = entries]
  PROVE  /\ gate'[g].up = gate[g].up /\ gate'[g].fence = gate[g].fence /\ gate'[g].entries = entries
         /\ \A h \in Gates \ {g} : gate'[h] = gate[h]
         /\ entries \subseteq Entry => gate' \in [Gates -> [up : BOOLEAN, fence : Nat, entries : SUBSET Entry]]
BY DEF TypeOK

LEMMA ReserveOk ==
  ASSUME NEW g, NEW wants, NEW entries, reserve(g, wants, entries) = "ok"
  PROVE  \A w \in wants, e \in entries : e.key # w.key
BY DEF reserve, Keys

\* What a granted reservation adds, in the state it begins in.
Holding(wants, state) == {[e EXCEPT !.state = state] : e \in Reserved(wants)}
Held(w, state) == [key |-> w.key, state |-> state, until |-> now + w.retain]

LEMMA NewEntries ==
  ASSUME NEW wants, NEW state
  PROVE  Holding(wants, state) = {Held(w, state) : w \in wants}
<1>1. \A w : [Held(w, "RESERVED") EXCEPT !.state = state] = Held(w, state)
  BY DEF Held
<1>2. Reserved(wants) = {Held(w, "RESERVED") : w \in wants}
  BY DEF Reserved, Held
<1> QED
  BY <1>1, <1>2 DEF Holding

LEMMA EntriesOfPb ==
  ASSUME NEW pb, NEW state
  PROVE  Holding(WantsPb(pb), state)
            = {[key |-> PbKey(pb), state |-> state, until |-> now + Retain("pb")]}
<1>1. Holding(WantsPb(pb), state) = {Held(w, state) : w \in WantsPb(pb)}
  BY NewEntries
<1> QED
  BY <1>1 DEF WantsPb, Held

LEMMA EntriesOfBa ==
  ASSUME NEW ba, NEW pb, NEW state
  PROVE  Holding(WantsBa(ba, pb), state)
            = {[key |-> BaKey(ba), state |-> state, until |-> now + Retain("ba")],
               [key |-> LineageKey(pb), state |-> state, until |-> now + Retain("pb")]}
<1>1. Holding(WantsBa(ba, pb), state) = {Held(w, state) : w \in WantsBa(ba, pb)}
  BY NewEntries
<1> QED
  BY <1>1 DEF WantsBa, Held

LEMMA TakeAtBoundary ==
  ASSUME TypeOK, NEW pb \in Proofs, NEW state \in {"RESERVED", "COMMITTED"},
         NEW entries, entries \subseteq gate["boundary"].entries,
         gate' = [gate EXCEPT !["boundary"].entries =
                    entries \union Holding(WantsPb(pb), state)]
  PROVE  /\ gate'["boundary"].up = gate["boundary"].up /\ gate'["boundary"].fence = gate["boundary"].fence
         /\ gate'["boundary"].entries =
               entries \union {[key |-> PbKey(pb), state |-> state, until |-> now + Retain("pb")]}
         /\ gate'["app"] = gate["app"]
         /\ gate' \in [Gates -> [up : BOOLEAN, fence : Nat, entries : SUBSET Entry]]
<1> DEFINE new == [key |-> PbKey(pb), state |-> state, until |-> now + Retain("pb")]
<1>1. Holding(WantsPb(pb), state) = {new}
  BY EntriesOfPb
<1>2. gate' = [gate EXCEPT !["boundary"].entries = entries \union {new}]
  BY <1>1
<1>3. new \in Entry
  BY TimesAssumption DEF Entry, PbKey, Retain, TypeOK
<1> HIDE DEF new
<1>4. gate'["boundary"].entries = entries \union {new} /\ gate'["app"] = gate["app"]
      /\ gate'["boundary"].up = gate["boundary"].up /\ gate'["boundary"].fence = gate["boundary"].fence
  BY <1>2 DEF TypeOK, Gates
<1>5. gate' \in [Gates -> [up : BOOLEAN, fence : Nat, entries : SUBSET Entry]]
  BY <1>2, <1>3 DEF TypeOK, Gates
<1> QED
  BY <1>4, <1>5 DEF new

LEMMA TakenAreEntries ==
  ASSUME TypeOK, NEW ba \in AtBoundary, NEW pb \in Proofs, NEW state \in {"RESERVED", "COMMITTED"},
         NEW entries, entries \subseteq gate["app"].entries
  PROVE  entries \union Holding(WantsBa(ba, pb), state) \subseteq Entry
<1> DEFINE new1 == [key |-> BaKey(ba), state |-> state, until |-> now + Retain("ba")]
           new2 == [key |-> LineageKey(pb), state |-> state, until |-> now + Retain("pb")]
<1>1. Holding(WantsBa(ba, pb), state) = {new1, new2}
  BY EntriesOfBa
<1>2. new1 \in Entry /\ new2 \in Entry
  BY TimesAssumption DEF Entry, BaKey, LineageKey, Retain, TypeOK
<1>3. entries \subseteq Entry
  BY DEF TypeOK, Gates
<1> HIDE DEF new1, new2
<1> QED
  BY <1>1, <1>2, <1>3

\* A settlement takes the keys out of what is reserved and forgets nothing.
LEMMA Settlement ==
  ASSUME TypeOK, NEW g \in Gates, NEW keys, NEW next \in {"COMMITTED", "BURNED"},
         gate' = transition(g, keys, next)
  PROVE  /\ Remembers(g)
         /\ \A e \in gate[g].entries : e.state = "RESERVED" /\ e.key \notin keys => e \in gate'[g].entries
         /\ \A f \in gate'[g].entries : f.state = "RESERVED" => f \in gate[g].entries /\ f.key \notin keys
         /\ \A h \in Gates \ {g} : gate'[h] = gate[h]
         /\ gate' \in [Gates -> [up : BOOLEAN, fence : Nat, entries : SUBSET Entry]]
<1> DEFINE Settled(e) == IF e.key \in keys /\ e.state = "RESERVED" THEN [e EXCEPT !.state = next] ELSE e
<1>1. gate' = [gate EXCEPT ![g].entries = {Settled(e) : e \in @}]
  BY DEF transition
<1>2. \A e \in Entry : /\ Settled(e) \in Entry /\ Settled(e).key = e.key /\ Settled(e).until = e.until
                       /\ e.state = "RESERVED" /\ e.key \notin keys => Settled(e) = e
                       /\ Settled(e).state = "RESERVED" => Settled(e) = e /\ e.key \notin keys
  BY DEF Entry
<1> HIDE DEF Settled
<1>3. gate[g].entries \subseteq Entry
  BY DEF TypeOK
<1>4. /\ gate'[g].entries = {Settled(e) : e \in gate[g].entries}
      /\ gate'[g].up = gate[g].up /\ gate'[g].fence = gate[g].fence
      /\ \A h \in Gates \ {g} : gate'[h] = gate[h]
  BY <1>1 DEF TypeOK
<1>5. gate' \in [Gates -> [up : BOOLEAN, fence : Nat, entries : SUBSET Entry]]
  BY <1>1, <1>2, <1>3 DEF TypeOK
<1>6. Remembers(g)
  BY <1>2, <1>3, <1>4 DEF Remembers
<1> QED
  BY <1>2, <1>3, <1>4, <1>5, <1>6

-----------------------------------------------------------------------------
(* Steps that take and settle nothing.                                      *)

\* What the presentation at the boundary took is as it was.
LikeB(b) ==
  /\ atB'[b].pb = atB[b].pb /\ atB'[b].iat = atB[b].iat /\ atB'[b].ticket = atB[b].ticket
  /\ atB'[b].pc = atB[b].pc \/ atB'[b].pc \notin {"idle", "reading"}

LikeA(x) ==
  /\ atA'[x].ba = atA[x].ba /\ atA'[x].pb = atA[x].pb
  /\ atA'[x].ticket = atA[x].ticket /\ atA'[x].admitted = atA[x].admitted
  /\ atA'[x].pc = atA[x].pc \/ atA'[x].pc \notin {"idle", "sent", "reading", "delayed"}
  /\ atA'[x].executed => atA'[x].admitted

\* A presentation at the app that is on its way, or refused before it took anything.
AwayA(x) ==
  /\ ~TookA(x) /\ ~TookA(x)' /\ ~atA'[x].executed
  /\ atA'[x].pc \in {"sent", "refused"}
  /\ atA'[x].pc = "sent" => /\ atA'[x].ba \in AtBoundary /\ atA'[x].pb \in Proofs
                            /\ protectedLineageComplete(atA[x])'

TimePasses == now \in Nat /\ now' \in Nat /\ now <= now' /\ IssuedLast

\* A BA is issued once, for one PB.
LineagesLast ==
  \A b \in AtBoundary : atB[b].iat # Never => atB'[b].iat = atB[b].iat /\ atB'[b].pb = atB[b].pb

LEMMA BoundaryStays ==
  ASSUME HopInv, TimePasses, GateStays("boundary"), \A b \in AtBoundary : LikeB(b)
  PROVE  BoundaryInv'
<1> USE DEF HopInv
<1> DEFINE old == gate["boundary"].entries
           new == gate'["boundary"].entries
<1>1. "boundary" \in Gates /\ Remembers("boundary")
  BY StayingRemembers DEF Gates
<1>2. \A b \in AtBoundary : TookB(b)' <=> TookB(b)
  BY DEF LikeB, TookB
<1>3. ASSUME NEW b \in AtBoundary
      PROVE  /\ atB'[b].pc = "idle" => ~TookB(b)'
             /\ atB'[b].pc = "reading" => atB'[b].ticket = "open" /\ atB'[b].iat = Never
             /\ atB'[b].ticket # "none" => gate'["boundary"].up
             /\ TookB(b)' => /\ atB'[b].pb \in Proofs /\ issued'[atB'[b].pb] # Never
                             /\ Spent("boundary", PbKey(atB[b].pb), atB[b].pb)'
             /\ atB'[b].ticket = "open" =>
                   \E e \in new : e.state = "RESERVED" /\ e.key = PbKey(atB'[b].pb)
  <2>1. LikeB(b) /\ (TookB(b)' <=> TookB(b))
    BY <1>2
  <2>2. /\ atB'[b].pc = "idle" => ~TookB(b)'
        /\ atB'[b].pc = "reading" => atB'[b].ticket = "open" /\ atB'[b].iat = Never
        /\ atB'[b].ticket # "none" => gate'["boundary"].up
    BY <2>1 DEF BoundaryInv, LikeB, GateStays
  <2>3. ASSUME TookB(b)
        PROVE  /\ atB'[b].pb \in Proofs /\ issued'[atB'[b].pb] # Never
               /\ Spent("boundary", PbKey(atB[b].pb), atB[b].pb)'
    <3>1. PICK pb \in Proofs : pb = atB[b].pb
      BY <2>3 DEF BoundaryInv
    <3>2. atB'[b].pb = pb /\ issued[pb] # Never /\ issued'[pb] = issued[pb] /\ Spent("boundary", PbKey(pb), pb)
      BY <2>1, <2>3, <3>1 DEF BoundaryInv, LikeB, TimePasses, IssuedLast
    <3>3. Spent("boundary", PbKey(pb), pb)'
      BY <1>1, <3>2, SpentLasts DEF TimePasses
    <3> QED
      BY <3>2, <3>3 DEF PbKey
  <2>4. ASSUME atB[b].ticket = "open"
        PROVE  \E e \in new : e.state = "RESERVED" /\ e.key = PbKey(atB'[b].pb)
    BY <2>1, <2>4 DEF BoundaryInv, LikeB, GateStays
  <2> QED
    BY <2>1, <2>2, <2>3, <2>4 DEF LikeB
<1>4. ASSUME NEW e \in new, e.state = "RESERVED"
      PROVE  \E b \in AtBoundary : atB'[b].ticket = "open" /\ e.key = PbKey(atB'[b].pb)
  BY <1>4 DEF BoundaryInv, LikeB, GateStays
<1>5. \A b, c \in AtBoundary : b # c /\ TookB(b)' /\ TookB(c)' => atB'[b].pb # atB'[c].pb
  BY <1>2 DEF BoundaryInv, LikeB
<1> QED
  BY <1>3, <1>4, <1>5 DEF BoundaryInv

LEMMA AppStays ==
  ASSUME HopInv, TimePasses, LineagesLast, GateStays("app"), \A x \in AtApp : LikeA(x) \/ AwayA(x)
  PROVE  AppInv'
<1> USE DEF HopInv
<1> DEFINE old == gate["app"].entries
           new == gate'["app"].entries
<1>1. "app" \in Gates /\ Remembers("app")
  BY StayingRemembers DEF Gates
<1>2. \A x \in AtApp : TookA(x)' => TookA(x) /\ LikeA(x)
  BY DEF LikeA, AwayA, TookA
<1>3. ASSUME NEW x \in AtApp, LikeA(x), atA[x].pc = "sent" \/ TookA(x)
      PROVE  /\ atA'[x].ba \in AtBoundary /\ atA'[x].pb \in Proofs
             /\ protectedLineageComplete(atA[x])'
  <2>1. /\ atA'[x].ba = atA[x].ba /\ atA'[x].pb = atA[x].pb
        /\ atA[x].ba \in AtBoundary /\ atA[x].pb \in Proofs /\ issued[atA[x].pb] # Never
        /\ atB[atA[x].ba].iat # Never /\ atB[atA[x].ba].pb = atA[x].pb
    BY <1>3 DEF AppInv, LikeA, protectedLineageComplete
  <2> QED
    BY <2>1 DEF TimePasses, IssuedLast, LineagesLast, protectedLineageComplete
<1>4. ASSUME NEW x \in AtApp, LikeA(x), TookA(x)
      PROVE  Spent("app", LineageKey(atA[x].pb), atA[x].pb)'
  <2>1. PICK pb \in Proofs : pb = atA[x].pb
    BY <1>4 DEF AppInv
  <2>2. atA'[x].pb = pb /\ issued[pb] # Never /\ issued'[pb] = issued[pb] /\ Spent("app", LineageKey(pb), pb)
    BY <1>4, <2>1 DEF AppInv, LikeA, TimePasses, IssuedLast, protectedLineageComplete
  <2>3. Spent("app", LineageKey(pb), pb)'
    BY <1>1, <2>2, SpentLasts DEF TimePasses
  <2> QED
    BY <2>2, <2>3 DEF LineageKey
<1>5. \A x \in AtApp : LikeA(x) => KeysAtApp(atA[x])' = KeysAtApp(atA[x])
  BY KeysAreTwo DEF LikeA, KeysAtApp, KeysOf, WantsBa, Retain, BaKey, LineageKey
<1>6. ASSUME NEW x \in AtApp
      PROVE  /\ atA'[x].pc \in {"idle", "sent"} => ~TookA(x)'
             /\ atA'[x].pc = "reading" => atA'[x].ticket = "open"
             /\ atA'[x].pc = "delayed" \/ atA'[x].executed => atA'[x].admitted
             /\ atA'[x].ticket # "none" => gate'["app"].up
             /\ atA'[x].pc = "sent" \/ TookA(x)' =>
                   /\ atA'[x].ba \in AtBoundary /\ atA'[x].pb \in Proofs
                   /\ protectedLineageComplete(atA[x])'
             /\ TookA(x)' => Spent("app", LineageKey(atA[x].pb), atA[x].pb)'
             /\ atA'[x].ticket = "open" =>
                   \A k \in KeysAtApp(atA[x])' : \E e \in new : e.state = "RESERVED" /\ e.key = k
  <2>1. CASE LikeA(x)
    <3>1. TookA(x)' <=> TookA(x)
      BY <2>1 DEF LikeA, TookA
    <3>2. /\ atA'[x].pc \in {"idle", "sent"} => ~TookA(x)'
          /\ atA'[x].pc = "reading" => atA'[x].ticket = "open"
          /\ atA'[x].pc = "delayed" \/ atA'[x].executed => atA'[x].admitted
          /\ atA'[x].ticket # "none" => gate'["app"].up
          /\ atA'[x].pc = "sent" => atA[x].pc = "sent"
      BY <2>1, <3>1 DEF LikeA, AppInv, GateStays
    <3>3. atA'[x].ticket = "open" =>
             \A k \in KeysAtApp(atA[x])' : \E e \in new : e.state = "RESERVED" /\ e.key = k
      <4> SUFFICES ASSUME atA'[x].ticket = "open", NEW k \in KeysAtApp(atA[x])
                   PROVE  \E e \in new : e.state = "RESERVED" /\ e.key = k
        BY <1>5, <2>1
      <4>1. PICK e \in old : e.state = "RESERVED" /\ e.key = k
        BY <2>1 DEF LikeA, AppInv
      <4> QED
        BY <4>1 DEF GateStays
    <3> QED
      BY <1>3, <1>4, <2>1, <3>1, <3>2, <3>3
  <2>2. CASE AwayA(x)
    BY <2>2 DEF AwayA, TookA
  <2> QED
    BY <2>1, <2>2
<1>7. ASSUME NEW e \in new, e.state = "RESERVED"
      PROVE  \E x \in AtApp : atA'[x].ticket = "open" /\ e.key \in KeysAtApp(atA[x])'
  <2>1. PICK x \in AtApp : atA[x].ticket = "open" /\ e.key \in KeysAtApp(atA[x])
    BY <1>7 DEF GateStays, AppInv
  <2>2. LikeA(x)
    BY <2>1 DEF AwayA, TookA
  <2> QED
    BY <1>5, <2>1, <2>2 DEF LikeA
<1>8. \A x, y \in AtApp : x # y /\ TookA(x)' /\ TookA(y)' => atA'[x].pb # atA'[y].pb
  BY <1>2 DEF AppInv, LikeA
<1> QED
  BY <1>6, <1>7, <1>8 DEF AppInv

-----------------------------------------------------------------------------
(* The boundary takes and settles.                                          *)

\* Nobody took a PB that is free when it is acceptable, and now one did.
LEMMA BoundaryTakes ==
  ASSUME HopInv, NEW b \in AtBoundary, NEW pb \in Proofs, NEW state \in {"RESERVED", "COMMITTED"},
         NEW entries \in Scanned("boundary", WantsPb(pb)),
         gate["boundary"].up, atB[b].pc = "idle", issued[pb] # Never, AcceptablePb(pb),
         reserve("boundary", WantsPb(pb), entries) = "ok",
         gate' = [gate EXCEPT !["boundary"].entries = entries \union Holding(WantsPb(pb), state)],
         \A c \in AtBoundary \ {b} : LikeB(c),
         atB'[b].pb = pb,
         state = "RESERVED" => atB'[b].pc = "reading" /\ atB'[b].ticket = "open" /\ atB'[b].iat = Never,
         state = "COMMITTED" => atB'[b].pc = "forwarded" /\ atB'[b].ticket = "settled",
         UNCHANGED <<now, issued>>
  PROVE  BoundaryInv'
<1> USE DEF HopInv
<1> DEFINE e0  == [key |-> PbKey(pb), state |-> state, until |-> now + Retain("pb")]
           old == gate["boundary"].entries
           new == gate'["boundary"].entries
<1>0. "boundary" \in Gates
  BY DEF Gates
<1>1. /\ entries \subseteq old
      /\ \A e \in old : e.until > now \/ e.state = "RESERVED" => e \in entries
  BY <1>0, ScanKeeps
<1>2. /\ gate'["boundary"].up = gate["boundary"].up /\ gate'["boundary"].fence = gate["boundary"].fence
      /\ new = entries \union {e0}
  BY <1>1, TakeAtBoundary
<1>3. \A e \in entries : e.key # PbKey(pb)
  <2>1. \A w \in WantsPb(pb), e \in entries : e.key # w.key
    BY ReserveOk
  <2> QED
    BY <2>1 DEF WantsPb
<1>4. \A c \in AtBoundary : TookB(c) => atB[c].pb # pb
  <2> SUFFICES ASSUME NEW c \in AtBoundary, TookB(c), atB[c].pb = pb
               PROVE  FALSE
    OBVIOUS
  <2>1. Spent("boundary", PbKey(pb), pb)
    BY DEF BoundaryInv
  <2>2. PICK e \in old : e.key = PbKey(pb) /\ e.until > now
    BY <1>0, <2>1, AcceptableIsRemembered DEF AcceptablePb
  <2> QED
    BY <1>1, <1>3, <2>2
<1>5. Remembers("boundary")
  BY <1>1, <1>2 DEF Remembers
<1>6. ~TookB(b) /\ TookB(b)' /\ \A c \in AtBoundary \ {b} : TookB(c)' <=> TookB(c)
  BY DEF BoundaryInv, TookB, LikeB
<1>7. Spent("boundary", PbKey(pb), pb)'
  <2>1. LastMoment(pb)' = LastMoment(pb) /\ LastMoment(pb) \in Int /\ issued[pb] <= now /\ now \in Nat
    BY MomentIsInteger DEF LastMoment
  <2>2. e0.key = PbKey(pb) /\ e0.until > LastMoment(pb)
    <3>1. Lifetime["pb"] \in Nat /\ Skew \in Nat /\ Margin \in Nat \ {0}
      BY TimesAssumption
    <3>2. LastMoment(pb) = issued[pb] + Lifetime["pb"] + Skew /\ issued[pb] \in Int
      BY MomentIsInteger DEF LastMoment
    <3>3. now + (Lifetime["pb"] + 2 * Skew + Margin) > LastMoment(pb)
      BY <2>1, <3>1, <3>2
    <3> QED
      BY <3>3 DEF Retain
  <2> HIDE DEF e0
  <2> QED
    BY <1>2, <2>1, <2>2 DEF Spent
<1>8. ASSUME NEW c \in AtBoundary \ {b}
      PROVE  /\ atB'[c].pc = "idle" => ~TookB(c)'
             /\ atB'[c].pc = "reading" => atB'[c].ticket = "open" /\ atB'[c].iat = Never
             /\ atB'[c].ticket # "none" => gate'["boundary"].up
             /\ TookB(c)' => /\ atB'[c].pb \in Proofs /\ issued'[atB'[c].pb] # Never
                             /\ Spent("boundary", PbKey(atB[c].pb), atB[c].pb)'
             /\ atB'[c].ticket = "open" =>
                   \E e \in new : e.state = "RESERVED" /\ e.key = PbKey(atB'[c].pb)
  <2>1. LikeB(c) /\ (TookB(c)' <=> TookB(c))
    BY <1>6
  <2>2. /\ atB'[c].pc = "idle" => ~TookB(c)'
        /\ atB'[c].pc = "reading" => atB'[c].ticket = "open" /\ atB'[c].iat = Never
        /\ atB'[c].ticket # "none" => gate'["boundary"].up
    BY <1>2, <2>1 DEF BoundaryInv, LikeB
  <2>3. ASSUME TookB(c)
        PROVE  /\ atB'[c].pb \in Proofs /\ issued'[atB'[c].pb] # Never
               /\ Spent("boundary", PbKey(atB[c].pb), atB[c].pb)'
    <3>1. PICK p \in Proofs : p = atB[c].pb
      BY <2>3 DEF BoundaryInv
    <3>2. atB'[c].pb = p /\ issued[p] # Never /\ issued'[p] = issued[p] /\ Spent("boundary", PbKey(p), p)
      BY <2>1, <2>3, <3>1 DEF BoundaryInv, LikeB
    <3>3. Spent("boundary", PbKey(p), p)'
      BY <1>0, <1>5, <3>2, SpentLasts DEF TypeOK
    <3> QED
      BY <3>2, <3>3 DEF PbKey
  <2>4. ASSUME atB[c].ticket = "open"
        PROVE  \E e \in new : e.state = "RESERVED" /\ e.key = PbKey(atB'[c].pb)
    BY <1>1, <1>2, <2>1, <2>4 DEF BoundaryInv, LikeB
  <2> QED
    BY <2>1, <2>2, <2>3, <2>4 DEF LikeB
<1>9. /\ atB'[b].pc # "idle" /\ (atB'[b].pc = "reading" => atB'[b].ticket = "open" /\ atB'[b].iat = Never)
      /\ gate'["boundary"].up /\ issued'[pb] # Never
      /\ atB'[b].ticket = "open" => \E e \in new : e.state = "RESERVED" /\ e.key = PbKey(pb)
  <2>1. e0 \in new /\ e0.key = PbKey(pb) /\ e0.state = state
    BY <1>2
  <2> HIDE DEF e0
  <2> QED
    BY <1>2, <2>1
<1>10. ASSUME NEW e \in new, e.state = "RESERVED"
       PROVE  \E c \in AtBoundary : atB'[c].ticket = "open" /\ e.key = PbKey(atB'[c].pb)
  <2>1. CASE e = e0
    BY <1>10, <2>1
  <2>2. CASE e \in entries
    <3>1. PICK c \in AtBoundary : atB[c].ticket = "open" /\ e.key = PbKey(atB[c].pb)
      BY <1>1, <1>10, <2>2 DEF BoundaryInv
    <3>2. c # b
      BY <1>6, <3>1 DEF TookB
    <3> QED
      BY <3>1, <3>2 DEF LikeB
  <2> QED
    BY <1>2, <2>1, <2>2
<1>11. \A c, d \in AtBoundary : c # d /\ TookB(c)' /\ TookB(d)' => atB'[c].pb # atB'[d].pb
  BY <1>4, <1>6 DEF BoundaryInv, LikeB
<1> HIDE DEF e0
<1> QED
  BY <1>6, <1>7, <1>8, <1>9, <1>10, <1>11 DEF BoundaryInv

\* A reservation whose body was read, or failed, is committed or burned, and
\* nobody else's is touched: nobody else has this PB.
LEMMA BoundarySettles ==
  ASSUME HopInv, NEW b \in AtBoundary, NEW next \in {"COMMITTED", "BURNED"}, atB[b].pc = "reading",
         gate' = transition("boundary", {PbKey(atB[b].pb)}, next),
         \A c \in AtBoundary \ {b} : LikeB(c),
         atB'[b].pb = atB[b].pb, atB'[b].ticket = "settled", atB'[b].pc \notin {"idle", "reading"},
         UNCHANGED <<now, issued>>
  PROVE  BoundaryInv'
<1> USE DEF HopInv
<1> DEFINE old == gate["boundary"].entries
           new == gate'["boundary"].entries
<1>0. "boundary" \in Gates
  BY DEF Gates
<1>1. /\ Remembers("boundary")
      /\ \A e \in old : e.state = "RESERVED" /\ e.key # PbKey(atB[b].pb) => e \in new
      /\ \A e \in new : e.state = "RESERVED" => e \in old /\ e.key # PbKey(atB[b].pb)
  <2> DEFINE keys == {PbKey(atB[b].pb)}
  <2>1. gate' = transition("boundary", keys, next) /\ \A k : k \in keys <=> k = PbKey(atB[b].pb)
    OBVIOUS
  <2> HIDE DEF keys
  <2>2. /\ Remembers("boundary")
        /\ \A e \in old : e.state = "RESERVED" /\ e.key \notin keys => e \in new
        /\ \A e \in new : e.state = "RESERVED" => e \in old /\ e.key \notin keys
    BY <1>0, <2>1, Settlement
  <2> QED
    BY <2>1, <2>2
<1>2. TookB(b) /\ TookB(b)' /\ gate["boundary"].up
  BY DEF BoundaryInv, TookB
<1>3. \A c \in AtBoundary \ {b} : (TookB(c)' <=> TookB(c)) /\ (TookB(c) => PbKey(atB[c].pb) # PbKey(atB[b].pb))
  BY <1>2 DEF BoundaryInv, TookB, LikeB, PbKey
<1>4. \A c \in AtBoundary : atB'[c].pb = atB[c].pb
  BY DEF LikeB
<1>5. ASSUME NEW c \in AtBoundary, TookB(c)
      PROVE  /\ atB'[c].pb \in Proofs /\ issued'[atB'[c].pb] # Never
             /\ Spent("boundary", PbKey(atB[c].pb), atB[c].pb)'
  <2>1. PICK p \in Proofs : p = atB[c].pb
    BY <1>5 DEF BoundaryInv
  <2>2. atB'[c].pb = p /\ issued[p] # Never /\ issued'[p] = issued[p] /\ Spent("boundary", PbKey(p), p)
    BY <1>4, <1>5, <2>1 DEF BoundaryInv
  <2>3. Spent("boundary", PbKey(p), p)'
    BY <1>0, <1>1, <2>2, SpentLasts DEF TypeOK
  <2> QED
    BY <2>2, <2>3 DEF PbKey
<1>6. ASSUME NEW c \in AtBoundary \ {b}
      PROVE  /\ atB'[c].pc = "idle" => ~TookB(c)'
             /\ atB'[c].pc = "reading" => atB'[c].ticket = "open" /\ atB'[c].iat = Never
             /\ atB'[c].ticket # "none" => gate'["boundary"].up
             /\ atB'[c].ticket = "open" =>
                   \E e \in new : e.state = "RESERVED" /\ e.key = PbKey(atB'[c].pb)
  <2>1. atB[c].ticket = "open" =>
           \E e \in old : e.state = "RESERVED" /\ e.key = PbKey(atB[c].pb) /\ TookB(c)
    BY DEF BoundaryInv, TookB
  <2>2. atB'[c].ticket = "open" => \E e \in new : e.state = "RESERVED" /\ e.key = PbKey(atB'[c].pb)
    BY <1>1, <1>3, <2>1 DEF LikeB
  <2>3. atB'[c].pc = "idle" => ~TookB(c)'
    BY <1>3 DEF BoundaryInv, LikeB
  <2>4. atB'[c].pc = "reading" => atB'[c].ticket = "open" /\ atB'[c].iat = Never
    BY DEF BoundaryInv, LikeB
  <2>5. atB'[c].ticket # "none" => gate'["boundary"].up
    BY <1>1 DEF BoundaryInv, LikeB, Remembers
  <2> QED
    BY <2>2, <2>3, <2>4, <2>5
<1>7. ASSUME NEW e \in new, e.state = "RESERVED"
      PROVE  \E c \in AtBoundary : atB'[c].ticket = "open" /\ e.key = PbKey(atB'[c].pb)
  <2>1. PICK c \in AtBoundary : atB[c].ticket = "open" /\ e.key = PbKey(atB[c].pb)
    BY <1>1, <1>7 DEF BoundaryInv
  <2>2. c # b
    BY <1>1, <1>7, <2>1
  <2> QED
    BY <2>1, <2>2 DEF LikeB
<1>8. \A c, d \in AtBoundary : c # d /\ TookB(c)' /\ TookB(d)' => atB'[c].pb # atB'[d].pb
  BY <1>2, <1>3, <1>4 DEF BoundaryInv
<1>9. atB'[b].ticket # "none" => gate'["boundary"].up
  BY <1>1, <1>2 DEF Remembers
<1>10. \A c \in AtBoundary : TookB(c)' => TookB(c)
  BY <1>2, <1>3
<1> QED
  BY <1>5, <1>6, <1>7, <1>8, <1>9, <1>10 DEF BoundaryInv

-----------------------------------------------------------------------------
(* The app takes and settles.                                               *)

LEMMA KeysLast ==
  ASSUME NEW x, LikeA(x)
  PROVE  KeysAtApp(atA[x])' = KeysAtApp(atA[x])
BY DEF LikeA, KeysAtApp, KeysOf, WantsBa, Retain, BaKey, LineageKey

\* A presentation at the app that the step is not about, when its reservation
\* stays and the gate forgets nothing.
LEMMA OtherAtApp ==
  ASSUME HopInv, NEW y \in AtApp, LikeA(y), Remembers("app"), UNCHANGED <<now, issued, atB>>,
         TookA(y) => \A e \in gate["app"].entries :
            e.state = "RESERVED" /\ e.key \in KeysAtApp(atA[y]) => e \in gate'["app"].entries
  PROVE  /\ atA'[y].pc \in {"idle", "sent"} => ~TookA(y)'
         /\ atA'[y].pc = "reading" => atA'[y].ticket = "open"
         /\ atA'[y].pc = "delayed" \/ atA'[y].executed => atA'[y].admitted
         /\ atA'[y].ticket # "none" => gate'["app"].up
         /\ atA'[y].pc = "sent" \/ TookA(y)' =>
               /\ atA'[y].ba \in AtBoundary /\ atA'[y].pb \in Proofs
               /\ protectedLineageComplete(atA[y])'
         /\ TookA(y)' => Spent("app", LineageKey(atA[y].pb), atA[y].pb)'
         /\ atA'[y].ticket = "open" =>
               \A k \in KeysAtApp(atA[y])' :
                   \E e \in gate'["app"].entries : e.state = "RESERVED" /\ e.key = k
<1> USE DEF HopInv
<1>1. TookA(y)' <=> TookA(y)
  BY DEF LikeA, TookA
<1>2. /\ atA'[y].pc \in {"idle", "sent"} => ~TookA(y)'
      /\ atA'[y].pc = "reading" => atA'[y].ticket = "open"
      /\ atA'[y].pc = "delayed" \/ atA'[y].executed => atA'[y].admitted
      /\ atA'[y].ticket # "none" => gate'["app"].up
      /\ atA'[y].pc = "sent" => atA[y].pc = "sent"
  BY <1>1 DEF LikeA, AppInv, Remembers
<1>3. atA[y].pc = "sent" \/ TookA(y) =>
         /\ atA'[y].ba \in AtBoundary /\ atA'[y].pb \in Proofs
         /\ protectedLineageComplete(atA[y])'
  BY DEF LikeA, AppInv, protectedLineageComplete
<1>4. ASSUME TookA(y)
      PROVE  Spent("app", LineageKey(atA[y].pb), atA[y].pb)'
  <2>1. PICK p \in Proofs : p = atA[y].pb
    BY <1>4 DEF AppInv
  <2>2. atA'[y].pb = p /\ Spent("app", LineageKey(p), p) /\ issued'[p] = issued[p]
    BY <1>4, <2>1 DEF AppInv, LikeA
  <2>3. Spent("app", LineageKey(p), p)'
    BY <2>2, SpentLasts DEF TypeOK, Gates
  <2> QED
    BY <2>2, <2>3 DEF LineageKey
<1>5. ASSUME atA'[y].ticket = "open", NEW k \in KeysAtApp(atA[y])
      PROVE  \E e \in gate'["app"].entries : e.state = "RESERVED" /\ e.key = k
  <2>1. atA[y].ticket = "open" /\ TookA(y)
    BY <1>5 DEF LikeA, TookA
  <2>2. PICK e \in gate["app"].entries : e.state = "RESERVED" /\ e.key = k
    BY <2>1 DEF AppInv
  <2> QED
    BY <2>1, <2>2
<1> QED
  BY <1>1, <1>2, <1>3, <1>4, <1>5, KeysLast

\* Whoever took one PB has neither another's PB nor another's BA.
LEMMA KeysApart ==
  ASSUME HopInv, NEW x \in AtApp, NEW y \in AtApp, TookA(x), TookA(y), x # y
  PROVE  \A k \in KeysAtApp(atA[x]) : k \notin KeysAtApp(atA[y])
<1>1. atA[x].pb # atA[y].pb /\ atA[x].ba # atA[y].ba
  BY DEF HopInv, AppInv, protectedLineageComplete
<1> QED
  BY <1>1, KeysAreTwo DEF BaKey, LineageKey

LEMMA AppTakes ==
  ASSUME HopInv, NEW x \in AtApp, NEW ba \in AtBoundary, NEW pb \in Proofs,
         NEW state \in {"RESERVED", "COMMITTED"}, NEW entries \in Scanned("app", WantsBa(ba, pb)),
         gate["app"].up, ~TookA(x), issued[pb] # Never, atB[ba].iat # Never, AcceptableBa(ba, pb),
         reserve("app", WantsBa(ba, pb), entries) = "ok",
         gate' = [gate EXCEPT !["app"].entries = entries \union Holding(WantsBa(ba, pb), state)],
         \A y \in AtApp \ {x} : LikeA(y),
         atA'[x].ba = ba, atA'[x].pb = pb,
         state = "RESERVED" => atA'[x].pc = "reading" /\ atA'[x].ticket = "open" /\ ~atA'[x].executed,
         state = "COMMITTED" => /\ atA'[x].pc \notin {"idle", "sent", "reading"}
                                /\ atA'[x].ticket = "settled" /\ atA'[x].admitted,
         UNCHANGED <<now, issued, atB>>
  PROVE  AppInv'
<1> USE DEF HopInv
<1> DEFINE e1  == [key |-> BaKey(ba), state |-> state, until |-> now + Retain("ba")]
           e2  == [key |-> LineageKey(pb), state |-> state, until |-> now + Retain("pb")]
           old == gate["app"].entries
           new == gate'["app"].entries
<1>0. "app" \in Gates
  BY DEF Gates
<1>1. /\ entries \subseteq old
      /\ \A e \in old : e.until > now \/ e.state = "RESERVED" => e \in entries
  BY <1>0, ScanKeeps
<1>2. /\ gate'["app"].up = gate["app"].up /\ gate'["app"].fence = gate["app"].fence
      /\ new = entries \union {e1, e2}
  <2>1. Holding(WantsBa(ba, pb), state) = {e1, e2}
    BY EntriesOfBa
  <2>2. gate' = [gate EXCEPT !["app"].entries = entries \union {e1, e2}]
    BY <2>1
  <2>3. PICK all : all = entries \union {e1, e2}
    OBVIOUS
  <2>4. gate' = [gate EXCEPT !["app"].entries = all]
    BY <2>2, <2>3
  <2> HIDE DEF e1, e2
  <2> QED
    BY <1>0, <2>3, <2>4, EntriesReplaced
<1>3. \A e \in entries : e.key # LineageKey(pb)
  <2>1. \A w \in WantsBa(ba, pb), e \in entries : e.key # w.key
    BY ReserveOk
  <2> QED
    BY <2>1 DEF WantsBa
<1>4. \A y \in AtApp : TookA(y) => atA[y].pb # pb
  <2> SUFFICES ASSUME NEW y \in AtApp, TookA(y), atA[y].pb = pb
               PROVE  FALSE
    OBVIOUS
  <2>1. Spent("app", LineageKey(pb), pb)
    BY DEF AppInv
  <2>2. PICK e \in old : e.key = LineageKey(pb) /\ e.until > now
    BY <1>0, <2>1, AcceptableIsRemembered DEF AcceptableBa
  <2> QED
    BY <1>1, <1>3, <2>2
<1>5. Remembers("app")
  BY <1>1, <1>2 DEF Remembers
<1>6. TookA(x)' /\ \A y \in AtApp \ {x} : TookA(y)' <=> TookA(y)
  BY DEF TookA, LikeA
<1>7. Spent("app", LineageKey(pb), pb)'
  <2>1. LastMoment(pb)' = LastMoment(pb) /\ LastMoment(pb) \in Int /\ issued[pb] <= now /\ now \in Nat
    BY MomentIsInteger DEF LastMoment
  <2>2. e2.key = LineageKey(pb) /\ e2.until > LastMoment(pb)
    <3>1. Lifetime["pb"] \in Nat /\ Skew \in Nat /\ Margin \in Nat \ {0}
      BY TimesAssumption
    <3>2. LastMoment(pb) = issued[pb] + Lifetime["pb"] + Skew /\ issued[pb] \in Int
      BY MomentIsInteger DEF LastMoment
    <3>3. now + (Lifetime["pb"] + 2 * Skew + Margin) > LastMoment(pb)
      BY <2>1, <3>1, <3>2
    <3> QED
      BY <3>3 DEF Retain
  <2> HIDE DEF e1, e2
  <2> QED
    BY <1>2, <2>1, <2>2 DEF Spent
<1>8. ASSUME NEW y \in AtApp \ {x}
      PROVE  /\ atA'[y].pc \in {"idle", "sent"} => ~TookA(y)'
             /\ atA'[y].pc = "reading" => atA'[y].ticket = "open"
             /\ atA'[y].pc = "delayed" \/ atA'[y].executed => atA'[y].admitted
             /\ atA'[y].ticket # "none" => gate'["app"].up
             /\ atA'[y].pc = "sent" \/ TookA(y)' =>
                   /\ atA'[y].ba \in AtBoundary /\ atA'[y].pb \in Proofs
                   /\ protectedLineageComplete(atA[y])'
             /\ TookA(y)' => Spent("app", LineageKey(atA[y].pb), atA[y].pb)'
             /\ atA'[y].ticket = "open" =>
                   \A k \in KeysAtApp(atA[y])' : \E e \in new : e.state = "RESERVED" /\ e.key = k
  BY <1>0, <1>1, <1>2, <1>5, <1>6, OtherAtApp
<1>9. KeysAtApp(atA[x])' = {BaKey(ba), LineageKey(pb)}
  BY KeysAreTwo DEF KeysAtApp, KeysOf, WantsBa, BaKey, LineageKey
<1>10. /\ e1 \in new /\ e1.key = BaKey(ba) /\ e1.state = state
       /\ e2 \in new /\ e2.key = LineageKey(pb) /\ e2.state = state
  BY <1>2
<1>11. atA'[x].ticket = "open" =>
         \A k \in KeysAtApp(atA[x])' : \E e \in new : e.state = "RESERVED" /\ e.key = k
  <2> HIDE DEF e1, e2
  <2> QED
    BY <1>9, <1>10
<1>12. protectedLineageComplete(atA[x])'
  BY DEF protectedLineageComplete, AcceptableBa, SameLineage
<1>13. ASSUME NEW e \in new, e.state = "RESERVED"
       PROVE  \E y \in AtApp : atA'[y].ticket = "open" /\ e.key \in KeysAtApp(atA[y])'
  <2>1. CASE e = e1 \/ e = e2
    BY <1>9, <1>10, <1>13, <2>1
  <2>2. CASE e \in entries
    <3>1. PICK y \in AtApp : atA[y].ticket = "open" /\ e.key \in KeysAtApp(atA[y])
      BY <1>1, <1>13, <2>2 DEF AppInv
    <3>2. LikeA(y)
      BY <3>1 DEF TookA
    <3> QED
      BY <3>1, <3>2, KeysLast DEF LikeA
  <2> QED
    BY <1>2, <2>1, <2>2
<1>14. \A y, z \in AtApp : y # z /\ TookA(y)' /\ TookA(z)' => atA'[y].pb # atA'[z].pb
  BY <1>4, <1>6 DEF AppInv, LikeA
<1>15. gate'["app"].up
  BY <1>2
<1>16. /\ atA'[x].pc \notin {"idle", "sent"} /\ (atA'[x].pc = "reading" => atA'[x].ticket = "open")
       /\ atA'[x].pc = "delayed" \/ atA'[x].executed => atA'[x].admitted
  OBVIOUS
<1> HIDE DEF e1, e2
<1> QED
  BY <1>6, <1>7, <1>8, <1>11, <1>12, <1>13, <1>14, <1>15, <1>16 DEF AppInv

\* A body that was read, or that failed: its two reservations are settled.
LEMMA AppSettles ==
  ASSUME HopInv, NEW x \in AtApp, NEW next \in {"COMMITTED", "BURNED"}, atA[x].pc = "reading",
         gate' = transition("app", KeysAtApp(atA[x]), next),
         \A y \in AtApp \ {x} : LikeA(y),
         atA'[x].ba = atA[x].ba, atA'[x].pb = atA[x].pb, atA'[x].ticket = "settled",
         atA'[x].pc \notin {"idle", "sent", "reading"},
         atA'[x].pc = "delayed" \/ atA'[x].executed => atA'[x].admitted,
         UNCHANGED <<now, issued, atB>>
  PROVE  AppInv'
<1> USE DEF HopInv
<1> DEFINE old == gate["app"].entries
           new == gate'["app"].entries
<1>0. "app" \in Gates
  BY DEF Gates
<1>1. /\ Remembers("app")
      /\ \A e \in old : e.state = "RESERVED" /\ e.key \notin KeysAtApp(atA[x]) => e \in new
      /\ \A e \in new : e.state = "RESERVED" => e \in old /\ e.key \notin KeysAtApp(atA[x])
  <2>1. PICK keys : keys = KeysAtApp(atA[x])
    OBVIOUS
  <2>2. gate' = transition("app", keys, next)
    BY <2>1
  <2>3. /\ Remembers("app")
        /\ \A e \in old : e.state = "RESERVED" /\ e.key \notin keys => e \in new
        /\ \A e \in new : e.state = "RESERVED" => e \in old /\ e.key \notin keys
    BY <1>0, <2>2, Settlement
  <2> QED
    BY <2>1, <2>3
<1>2. TookA(x) /\ TookA(x)' /\ gate["app"].up
  BY DEF AppInv, TookA
<1>3. \A y \in AtApp \ {x} : TookA(y)' <=> TookA(y)
  BY DEF TookA, LikeA
<1>4. ASSUME NEW y \in AtApp \ {x}
      PROVE  /\ atA'[y].pc \in {"idle", "sent"} => ~TookA(y)'
             /\ atA'[y].pc = "reading" => atA'[y].ticket = "open"
             /\ atA'[y].pc = "delayed" \/ atA'[y].executed => atA'[y].admitted
             /\ atA'[y].ticket # "none" => gate'["app"].up
             /\ atA'[y].pc = "sent" \/ TookA(y)' =>
                   /\ atA'[y].ba \in AtBoundary /\ atA'[y].pb \in Proofs
                   /\ protectedLineageComplete(atA[y])'
             /\ TookA(y)' => Spent("app", LineageKey(atA[y].pb), atA[y].pb)'
             /\ atA'[y].ticket = "open" =>
                   \A k \in KeysAtApp(atA[y])' : \E e \in new : e.state = "RESERVED" /\ e.key = k
  <2>1. TookA(y) => \A e \in old :
           e.state = "RESERVED" /\ e.key \in KeysAtApp(atA[y]) => e \in new
    BY <1>1, <1>2, KeysApart
  <2> QED
    BY <1>1, <2>1, OtherAtApp
<1>5. PICK p \in Proofs : p = atA[x].pb
  BY <1>2 DEF AppInv
<1>6. Spent("app", LineageKey(atA[x].pb), atA[x].pb)'
  <2>1. atA'[x].pb = p /\ Spent("app", LineageKey(p), p) /\ issued'[p] = issued[p]
    BY <1>2, <1>5 DEF AppInv
  <2>2. Spent("app", LineageKey(p), p)'
    BY <1>0, <1>1, <2>1, SpentLasts DEF TypeOK
  <2> QED
    BY <2>1, <2>2 DEF LineageKey
<1>7. atA'[x].ba \in AtBoundary /\ atA'[x].pb \in Proofs /\ protectedLineageComplete(atA[x])'
  BY <1>2 DEF AppInv, protectedLineageComplete
<1>8. ASSUME NEW e \in new, e.state = "RESERVED"
      PROVE  \E y \in AtApp : atA'[y].ticket = "open" /\ e.key \in KeysAtApp(atA[y])'
  <2>1. PICK y \in AtApp : atA[y].ticket = "open" /\ e.key \in KeysAtApp(atA[y])
    BY <1>1, <1>8 DEF AppInv
  <2>2. y # x
    BY <1>1, <1>8, <2>1
  <2> QED
    BY <2>1, <2>2, KeysLast DEF LikeA
<1>9. \A y, z \in AtApp : y # z /\ TookA(y)' /\ TookA(z)' => atA'[y].pb # atA'[z].pb
  BY <1>2, <1>3 DEF AppInv, LikeA
<1>10. gate'["app"].up
  BY <1>1, <1>2 DEF Remembers
<1> QED
  BY <1>2, <1>3, <1>4, <1>6, <1>7, <1>8, <1>9, <1>10 DEF AppInv

-----------------------------------------------------------------------------
(* Types, and what steps of one slot or one gate leave alone.               *)

BoundarySlot == [pc : {"idle", "reading", "forwarded", "answered", "done", "dead"},
                 pb : Proofs \union {None}, iat : Int, ticket : Tickets]
AppSlot == [pc : {"idle", "sent", "reading", "hung", "delayed", "answering", "completed",
                  "refused", "aborted", "dead"},
            ba : AtBoundary \union {None}, pb : Proofs \union {None},
            from : AtBoundary \union {None}, open : BOOLEAN, ticket : Tickets,
            admitted : BOOLEAN, executed : BOOLEAN]
GateState == [up : BOOLEAN, fence : Nat, entries : SUBSET Entry]

SlotsOK == atB \in [AtBoundary -> BoundarySlot] /\ atA \in [AtApp -> AppSlot]

LEMMA TypeParts ==
  TypeOK <=> /\ now \in Nat
             /\ issued \in [Proofs -> Int] /\ \A pb \in Proofs : issued[pb] <= now
             /\ gate \in [Gates -> GateState] /\ \A g \in Gates : gate[g].fence <= now
             /\ SlotsOK
BY DEF TypeOK, SlotsOK, BoundarySlot, AppSlot, GateState

\* A handler's step: time stands still and no process starts.
LEMMA HandlerType ==
  ASSUME TypeOK, UNCHANGED <<now, issued>>, gate' \in [Gates -> GateState],
         \A g \in Gates : gate'[g].fence = gate[g].fence, SlotsOK'
  PROVE  TypeOK' /\ TimePasses
<1>1. TypeOK'
  BY TypeParts DEF TypeOK, SlotsOK, BoundarySlot, AppSlot, GateState, Gates, Entry, Tickets
<1> QED
  BY <1>1 DEF TypeOK, TimePasses, IssuedLast

LEMMA SameIsLikeB ==
  ASSUME NEW b, atB'[b] = atB[b]
  PROVE  LikeB(b)
BY DEF LikeB

LEMMA SameIsLikeA ==
  ASSUME HopInv, NEW x \in AtApp, atA'[x] = atA[x]
  PROVE  LikeA(x)
BY DEF LikeA, HopInv, AppInv

LEMMA SameGateStays ==
  ASSUME NEW g, gate'[g] = gate[g]
  PROVE  GateStays(g)
BY DEF GateStays

LEMMA ScanStays ==
  ASSUME TypeOK, NEW g \in Gates, NEW wants, NEW entries \in Scanned(g, wants),
         gate' = [gate EXCEPT ![g].entries = entries]
  PROVE  /\ GateStays(g) /\ gate' \in [Gates -> GateState]
         /\ \A h \in Gates \ {g} : gate'[h] = gate[h]
<1>1. /\ entries \subseteq gate[g].entries
      /\ \A e \in gate[g].entries : e.until > now \/ e.state = "RESERVED" => e \in entries
  BY ScanKeeps
<1>2. entries \subseteq Entry
  BY <1>1 DEF TypeOK
<1>3. /\ gate'[g].up = gate[g].up /\ gate'[g].fence = gate[g].fence /\ gate'[g].entries = entries
      /\ \A h \in Gates \ {g} : gate'[h] = gate[h]
      /\ gate' \in [Gates -> GateState]
  BY <1>2, EntriesReplaced DEF GateState
<1> QED
  BY <1>1, <1>3 DEF GateStays

\* Steps of one presentation at the boundary.
LEMMA SlotOfB ==
  ASSUME TypeOK, NEW b \in AtBoundary, NEW slot \in BoundarySlot, atB' = [atB EXCEPT ![b] = slot]
  PROVE  /\ atB' \in [AtBoundary -> BoundarySlot] /\ atB'[b] = slot
         /\ \A c \in AtBoundary \ {b} : LikeB(c)
<1>1. atB \in [AtBoundary -> BoundarySlot]
  BY TypeParts DEF SlotsOK
<1> QED
  BY <1>1, SameIsLikeB

LEMMA SlotOfA ==
  ASSUME HopInv, NEW x \in AtApp, NEW slot \in AppSlot, atA' = [atA EXCEPT ![x] = slot]
  PROVE  /\ atA' \in [AtApp -> AppSlot] /\ atA'[x] = slot
         /\ \A y \in AtApp \ {x} : LikeA(y)
<1>1. atA \in [AtApp -> AppSlot]
  BY TypeParts DEF SlotsOK, HopInv
<1> QED
  BY <1>1, SameIsLikeA

LEMMA NobodyAtAppMoves ==
  ASSUME HopInv, UNCHANGED atA
  PROVE  atA' \in [AtApp -> AppSlot] /\ \A x \in AtApp : LikeA(x)
BY TypeParts, SameIsLikeA DEF HopInv, SlotsOK

LEMMA NobodyAtBoundaryMoves ==
  ASSUME HopInv, UNCHANGED atB
  PROVE  /\ atB' \in [AtBoundary -> BoundarySlot] /\ LineagesLast
         /\ \A b \in AtBoundary : LikeB(b)
BY TypeParts, SameIsLikeB DEF HopInv, SlotsOK, LineagesLast

\* What leaves the boundary for the app took nothing there yet.
LEMMA SentIsAway ==
  ASSUME HopInv, NEW b \in AtBoundary, NEW pb \in Proofs, Sent(b, pb),
         issued'[pb] # Never, atB'[b].iat # Never, atB'[b].pb = pb
  PROVE  atA' \in [AtApp -> AppSlot] /\ \A x \in AtApp : LikeA(x) \/ AwayA(x)
<1>1. PICK x \in FreeAtApp : atA' = [atA EXCEPT ![x] = [NewAtApp EXCEPT !.pc = "sent", !.ba = b, !.pb = pb,
                                                                        !.from = b, !.open = TRUE]]
  BY DEF Sent
<1>2. x \in AtApp /\ atA[x].pc = "idle"
  BY DEF FreeAtApp
<1>3. PICK slot : slot = [NewAtApp EXCEPT !.pc = "sent", !.ba = b, !.pb = pb, !.from = b, !.open = TRUE]
  OBVIOUS
<1>4. /\ slot \in AppSlot /\ slot.pc = "sent" /\ slot.ba = b /\ slot.pb = pb
      /\ slot.ticket = "none" /\ ~slot.admitted /\ ~slot.executed
  BY <1>3 DEF NewAtApp, AppSlot, Tickets
<1>5. /\ atA' \in [AtApp -> AppSlot] /\ atA'[x] = slot
      /\ \A y \in AtApp \ {x} : LikeA(y)
  BY <1>1, <1>2, <1>3, <1>4, SlotOfA
<1>6. ~TookA(x)
  BY <1>2 DEF HopInv, AppInv
<1>7. AwayA(x)
  BY <1>4, <1>5, <1>6 DEF AwayA, TookA, protectedLineageComplete
<1> QED
  BY <1>5, <1>7

\* Handlers: what is left to show of a step that stands still.
LEMMA HandlerAtBoundary ==
  ASSUME HopInv, UNCHANGED <<now, issued>>, BoundaryInv', LineagesLast,
         atB' \in [AtBoundary -> BoundarySlot],
         gate' \in [Gates -> GateState], gate'["app"] = gate["app"],
         gate'["boundary"].fence = gate["boundary"].fence,
         atA' \in [AtApp -> AppSlot], \A x \in AtApp : LikeA(x) \/ AwayA(x)
  PROVE  HopInv'
<1>1. TypeOK' /\ TimePasses
  BY HandlerType DEF HopInv, SlotsOK, Gates
<1>2. AppInv'
  BY <1>1, SameGateStays, AppStays
<1> QED
  BY <1>1, <1>2 DEF HopInv

LEMMA HandlerAtApp ==
  ASSUME HopInv, UNCHANGED <<now, issued, atB>>, AppInv',
         gate' \in [Gates -> GateState], gate'["boundary"] = gate["boundary"],
         gate'["app"].fence = gate["app"].fence,
         atA' \in [AtApp -> AppSlot]
  PROVE  HopInv'
<1>1. atB' \in [AtBoundary -> BoundarySlot] /\ \A b \in AtBoundary : LikeB(b)
  BY NobodyAtBoundaryMoves
<1>2. TypeOK' /\ TimePasses
  BY <1>1, HandlerType DEF HopInv, SlotsOK, Gates
<1>3. BoundaryInv'
  BY <1>1, <1>2, SameGateStays, BoundaryStays
<1> QED
  BY <1>2, <1>3 DEF HopInv

-----------------------------------------------------------------------------
(* The boundary's handler.                                                  *)

LEMMA ApprovedAreProofs == Approved \subseteq Proofs
BY DEF Approved

\* A step that takes and settles nothing at the boundary.
LEMMA BoundaryRests ==
  ASSUME HopInv, UNCHANGED <<now, issued>>, GateStays("boundary"), \A b \in AtBoundary : LikeB(b)
  PROVE  BoundaryInv' /\ LineagesLast
<1>1. TimePasses
  BY DEF HopInv, TypeOK, TimePasses, IssuedLast
<1>2. LineagesLast
  BY DEF LineagesLast, LikeB
<1> QED
  BY <1>1, <1>2, BoundaryStays

LEMMA SettledSlot ==
  ASSUME NEW slot \in BoundarySlot
  PROVE  /\ [slot EXCEPT !.ticket = "settled"] \in BoundarySlot
         /\ [slot EXCEPT !.ticket = "settled"].pb = slot.pb
         /\ [slot EXCEPT !.ticket = "settled"].iat = slot.iat
         /\ [slot EXCEPT !.ticket = "settled"].ticket = "settled"
BY DEF BoundarySlot, Tickets

LEMMA RefusedSlot ==
  ASSUME NEW slot \in BoundarySlot
  PROVE  /\ Refuse(slot) \in BoundarySlot /\ Refuse(slot).pc = "answered" /\ Refuse(slot).pb = slot.pb
         /\ Refuse(slot).iat = slot.iat /\ Refuse(slot).ticket = slot.ticket
BY DEF BoundarySlot, Refuse

LEMMA ForwardedSlot ==
  ASSUME now \in Nat, NEW slot \in BoundarySlot
  PROVE  /\ IssueAndForward(slot) \in BoundarySlot /\ IssueAndForward(slot).pc = "forwarded"
         /\ IssueAndForward(slot).pb = slot.pb /\ IssueAndForward(slot).ticket = slot.ticket
         /\ IssueAndForward(slot).iat = now
<1>1. PICK t \in Int : t = now
  OBVIOUS
<1>2. IssueAndForward(slot) = [slot EXCEPT !.pc = "forwarded", !.iat = t]
  BY <1>1 DEF IssueAndForward
<1> QED
  BY <1>1, <1>2 DEF BoundarySlot

LEMMA RefuseAtBoundary ==
  ASSUME HopInv, NEW b \in AtBoundary, atB' = [atB EXCEPT ![b] = Refuse(atB[b])]
  PROVE  atB' \in [AtBoundary -> BoundarySlot] /\ \A c \in AtBoundary : LikeB(c)
<1>1. PICK slot : slot = Refuse(atB[b])
  OBVIOUS
<1>2. /\ slot \in BoundarySlot /\ slot.pc = "answered"
      /\ slot.pb = atB[b].pb /\ slot.iat = atB[b].iat /\ slot.ticket = atB[b].ticket
  BY <1>1 DEF Refuse, HopInv, TypeOK, BoundarySlot
<1>3. /\ atB' \in [AtBoundary -> BoundarySlot] /\ atB'[b] = slot
      /\ \A c \in AtBoundary \ {b} : LikeB(c)
  BY <1>1, <1>2, SlotOfB DEF HopInv
<1>4. LikeB(b)
  BY <1>2, <1>3 DEF LikeB
<1> QED
  BY <1>3, <1>4

LEMMA PresentPbStep ==
  ASSUME HopInv, NEW b \in AtBoundary, NEW pb \in Approved, NEW authentic, PresentPb(b, pb, authentic)
  PROVE  HopInv'
<1>0. /\ pb \in Proofs /\ "boundary" \in Gates /\ "app" \in Gates \ {"boundary"} /\ TypeOK
      /\ UNCHANGED <<now, issued>>
      /\ gate["boundary"].up /\ atB[b].pc = "idle" /\ issued[pb] # Never
  BY ApprovedAreProofs DEF Gates, HopInv, PresentPb
<1>1. CASE /\ atB' = [atB EXCEPT ![b] = Refuse(atB[b])]
           /\ UNCHANGED <<gate, atA>>
  <2>1. atB' \in [AtBoundary -> BoundarySlot] /\ \A c \in AtBoundary : LikeB(c)
    BY <1>1, RefuseAtBoundary
  <2>2. BoundaryInv' /\ LineagesLast
    BY <1>0, <1>1, <2>1, SameGateStays, BoundaryRests
  <2> QED
    BY <1>0, <1>1, <2>1, <2>2, NobodyAtAppMoves, TypeParts, HandlerAtBoundary
<1>2. ASSUME NEW entries \in Scanned("boundary", WantsPb(pb)),
             gate' = [gate EXCEPT !["boundary"].entries = entries],
             atB' = [atB EXCEPT ![b] = Refuse(atB[b])], UNCHANGED atA
      PROVE  HopInv'
  <2>1. atB' \in [AtBoundary -> BoundarySlot] /\ \A c \in AtBoundary : LikeB(c)
    BY <1>2, RefuseAtBoundary
  <2>2. /\ GateStays("boundary") /\ gate' \in [Gates -> GateState] /\ gate'["app"] = gate["app"]
    BY <1>0, <1>2, ScanStays
  <2>3. BoundaryInv' /\ LineagesLast
    BY <1>0, <2>1, <2>2, BoundaryRests
  <2> QED
    BY <1>0, <1>2, <2>1, <2>2, <2>3, NobodyAtAppMoves, HandlerAtBoundary DEF GateStays
<1>3. ASSUME AcceptablePb(pb), NEW entries \in Scanned("boundary", WantsPb(pb)),
             reserve("boundary", WantsPb(pb), entries) = "ok",
             NEW state \in {"RESERVED", "COMMITTED"},
             gate' = [gate EXCEPT !["boundary"].entries = entries \union Holding(WantsPb(pb), state)],
             NEW slot \in BoundarySlot, atB' = [atB EXCEPT ![b] = slot], slot.pb = pb,
             state = "RESERVED" => slot.pc = "reading" /\ slot.ticket = "open" /\ slot.iat = Never,
             state = "COMMITTED" => slot.pc = "forwarded" /\ slot.ticket = "settled" /\ slot.iat = now,
             (state = "RESERVED" /\ UNCHANGED atA) \/ (state = "COMMITTED" /\ Sent(b, pb))
      PROVE  HopInv'
  <2>1. /\ atB' \in [AtBoundary -> BoundarySlot] /\ atB'[b] = slot
        /\ \A c \in AtBoundary \ {b} : LikeB(c)
    BY <1>0, <1>3, SlotOfB
  <2>2. entries \subseteq gate["boundary"].entries
    BY <1>0, <1>3, ScanKeeps
  <2>3. /\ gate'["boundary"].fence = gate["boundary"].fence /\ gate'["app"] = gate["app"]
        /\ gate' \in [Gates -> GateState]
    BY <1>0, <1>3, <2>2, TakeAtBoundary DEF GateState
  <2>4. BoundaryInv'
    BY <1>0, <1>3, <2>1, BoundaryTakes
  <2>5. LineagesLast
    <3>1. atB[b].iat = Never
      BY <1>0 DEF HopInv, BoundaryInv, TookB
    <3> QED
      BY <2>1, <3>1 DEF LineagesLast, LikeB
  <2>6. atA' \in [AtApp -> AppSlot] /\ \A x \in AtApp : LikeA(x) \/ AwayA(x)
    <3>1. CASE UNCHANGED atA
      BY <3>1, NobodyAtAppMoves
    <3>2. CASE state = "COMMITTED" /\ Sent(b, pb)
      <4>1. now # Never
        BY DEF HopInv, TypeOK, Never
      <4> QED
        BY <1>0, <1>3, <2>1, <3>2, <4>1, SentIsAway
    <3> QED
      BY <1>3, <3>1, <3>2
  <2> QED
    BY <1>0, <2>1, <2>3, <2>4, <2>5, <2>6, HandlerAtBoundary
<1>4. ASSUME AcceptablePb(pb), NEW entries \in Scanned("boundary", WantsPb(pb)),
             reserve("boundary", WantsPb(pb), entries) = "ok",
             gate' = [gate EXCEPT !["boundary"].entries = entries \union Holding(WantsPb(pb), "RESERVED")],
             atB' = [atB EXCEPT ![b] = [[atB[b] EXCEPT !.pb = pb] EXCEPT !.pc = "reading", !.ticket = "open"]],
             UNCHANGED atA
      PROVE  HopInv'
  <2>1. PICK slot : slot = [[atB[b] EXCEPT !.pb = pb] EXCEPT !.pc = "reading", !.ticket = "open"]
    OBVIOUS
  <2>2. slot \in BoundarySlot /\ slot.pb = pb /\ slot.pc = "reading" /\ slot.ticket = "open"
        /\ slot.iat = atB[b].iat
    BY <1>0, <2>1 DEF TypeOK, BoundarySlot, Tickets
  <2>3. atB[b].iat = Never
    BY <1>0 DEF HopInv, BoundaryInv, TookB
  <2> QED
    BY <1>3, <1>4, <2>1, <2>2, <2>3
<1>5. ASSUME AcceptablePb(pb), NEW entries \in Scanned("boundary", WantsPb(pb)),
             reserve("boundary", WantsPb(pb), entries) = "ok",
             gate' = [gate EXCEPT !["boundary"].entries = entries \union Holding(WantsPb(pb), "COMMITTED")],
             atB' = [atB EXCEPT ![b] = IssueAndForward([[atB[b] EXCEPT !.pb = pb] EXCEPT !.ticket = "settled"])],
             Sent(b, pb)
      PROVE  HopInv'
  <2>1. PICK old : old = [atB[b] EXCEPT !.pb = pb]
    OBVIOUS
  <2>2. old \in BoundarySlot /\ old.pb = pb /\ now \in Nat
    BY <1>0, <2>1 DEF TypeOK, BoundarySlot
  <2>3. PICK slot : slot = IssueAndForward([old EXCEPT !.ticket = "settled"])
    OBVIOUS
  <2>4. slot \in BoundarySlot /\ slot.pb = pb /\ slot.pc = "forwarded" /\ slot.ticket = "settled"
        /\ slot.iat = now
    BY <2>2, <2>3, SettledSlot, ForwardedSlot
  <2> QED
    BY <1>3, <1>5, <2>1, <2>3, <2>4
<1> QED
  BY <1>1, <1>2, <1>4, <1>5 DEF PresentPb, Holding

\* A body that was read, or failed, whether the request then leaves or is refused.
LEMMA BodyAtBoundary ==
  ASSUME HopInv, NEW b \in AtBoundary, NEW next \in {"COMMITTED", "BURNED"}, atB[b].pc = "reading",
         gate' = transition("boundary", {PbKey(atB[b].pb)}, next),
         NEW slot \in BoundarySlot, atB' = [atB EXCEPT ![b] = slot],
         slot.pb = atB[b].pb, slot.ticket = "settled", slot.pc \notin {"idle", "reading"},
         UNCHANGED atA \/ (slot.iat = now /\ Sent(b, atB[b].pb)),
         UNCHANGED <<now, issued>>
  PROVE  HopInv'
<1>0. "boundary" \in Gates /\ "app" \in Gates \ {"boundary"} /\ TypeOK
  BY DEF Gates, HopInv
<1>1. /\ atB' \in [AtBoundary -> BoundarySlot] /\ atB'[b] = slot
      /\ \A c \in AtBoundary \ {b} : LikeB(c)
  BY <1>0, SlotOfB
<1>2. BoundaryInv'
  BY <1>1, BoundarySettles
<1>3. /\ gate' \in [Gates -> GateState] /\ gate'["app"] = gate["app"]
      /\ gate'["boundary"].fence = gate["boundary"].fence
  <2>1. PICK keys : keys = {PbKey(atB[b].pb)}
    OBVIOUS
  <2>2. gate' = transition("boundary", keys, next)
    BY <2>1
  <2>3. QED
    <3>1. /\ Remembers("boundary") /\ \A h \in Gates \ {"boundary"} : gate'[h] = gate[h]
          /\ gate' \in [Gates -> [up : BOOLEAN, fence : Nat, entries : SUBSET Entry]]
      BY <1>0, <2>2, Settlement
    <3> QED
      BY <1>0, <3>1 DEF Remembers, GateState
<1>4. atB[b].iat = Never /\ atB[b].pb \in Proofs /\ issued[atB[b].pb] # Never
  BY DEF HopInv, BoundaryInv, TookB
<1>5. LineagesLast
  BY <1>1, <1>4 DEF LineagesLast, LikeB
<1>6. atA' \in [AtApp -> AppSlot] /\ \A x \in AtApp : LikeA(x) \/ AwayA(x)
  <2>1. CASE UNCHANGED atA
    BY <2>1, NobodyAtAppMoves
  <2>2. CASE slot.iat = now /\ Sent(b, atB[b].pb)
    <3>1. now # Never
      BY <1>0 DEF TypeOK, Never
    <3>2. PICK pb \in Proofs : pb = atB[b].pb
      BY <1>4
    <3>3. Sent(b, pb) /\ issued'[pb] # Never /\ atB'[b].iat # Never /\ atB'[b].pb = pb
      BY <1>1, <1>4, <2>2, <3>1, <3>2
    <3> QED
      BY <3>3, SentIsAway
  <2> QED
    BY <2>1, <2>2
<1> QED
  BY <1>1, <1>2, <1>3, <1>5, <1>6, HandlerAtBoundary

LEMMA BodyReadPbStep ==
  ASSUME HopInv, NEW b \in AtBoundary, BodyReadPb(b)
  PROVE  HopInv'
<1>1. PICK slot : slot = IssueAndForward([atB[b] EXCEPT !.ticket = "settled"])
  OBVIOUS
<1>2. /\ slot \in BoundarySlot /\ slot.pb = atB[b].pb /\ slot.pc = "forwarded"
      /\ slot.ticket = "settled" /\ slot.iat = now
  <2>1. atB[b] \in BoundarySlot /\ now \in Nat
    BY TypeParts DEF HopInv, SlotsOK
  <2>2. PICK settled \in BoundarySlot : /\ settled = [atB[b] EXCEPT !.ticket = "settled"]
                                        /\ settled.pb = atB[b].pb /\ settled.ticket = "settled"
    BY <2>1, SettledSlot
  <2> QED
    BY <1>1, <2>1, <2>2, ForwardedSlot
<1>3. atB' = [atB EXCEPT ![b] = slot]
  BY <1>1 DEF BodyReadPb, HopInv, TypeOK
<1> QED
  BY <1>2, <1>3, BodyAtBoundary DEF BodyReadPb

LEMMA BodyFailsPbStep ==
  ASSUME HopInv, NEW b \in AtBoundary, BodyFailsPb(b)
  PROVE  HopInv'
<1>1. PICK slot : slot = Refuse([atB[b] EXCEPT !.ticket = "settled"])
  OBVIOUS
<1>2. /\ slot \in BoundarySlot /\ slot.pb = atB[b].pb /\ slot.pc = "answered" /\ slot.ticket = "settled"
  <2>1. atB[b] \in BoundarySlot
    BY TypeParts DEF HopInv, SlotsOK
  <2>2. PICK settled \in BoundarySlot : /\ settled = [atB[b] EXCEPT !.ticket = "settled"]
                                        /\ settled.pb = atB[b].pb /\ settled.ticket = "settled"
    BY <2>1, SettledSlot
  <2> QED
    BY <1>1, <2>1, <2>2, RefusedSlot
<1>3. atB' = [atB EXCEPT ![b] = slot]
  BY <1>1 DEF BodyFailsPb, HopInv, TypeOK
<1> QED
  BY <1>2, <1>3, BodyAtBoundary DEF BodyFailsPb

\* What remains of a presentation after its forward only moves it on.
LEMMA BoundaryMovesOn ==
  ASSUME HopInv, NEW b \in AtBoundary, NEW pc \in {"answered", "done"},
         atB' = [atB EXCEPT ![b].pc = pc],
         UNCHANGED <<now, issued, gate>>, atA' \in [AtApp -> AppSlot], \A x \in AtApp : LikeA(x)
  PROVE  HopInv'
<1>1. PICK slot : slot = [atB[b] EXCEPT !.pc = pc]
  OBVIOUS
<1>2. /\ slot \in BoundarySlot /\ slot.pc = pc
      /\ slot.pb = atB[b].pb /\ slot.iat = atB[b].iat /\ slot.ticket = atB[b].ticket
  BY <1>1 DEF HopInv, TypeOK, BoundarySlot
<1>3. atB' = [atB EXCEPT ![b] = slot]
  BY <1>1 DEF HopInv, TypeOK
<1>4. /\ atB' \in [AtBoundary -> BoundarySlot] /\ atB'[b] = slot
      /\ \A c \in AtBoundary \ {b} : LikeB(c)
  BY <1>2, <1>3, SlotOfB DEF HopInv
<1>5. \A c \in AtBoundary : LikeB(c)
  BY <1>2, <1>4 DEF LikeB
<1>6. BoundaryInv' /\ LineagesLast
  BY <1>5, SameGateStays, BoundaryRests
<1>7. gate' \in [Gates -> GateState]
  BY TypeParts DEF HopInv
<1> QED
  BY <1>4, <1>6, <1>7, HandlerAtBoundary

LEMMA ForwardRespondedStep ==
  ASSUME HopInv, NEW b \in AtBoundary, ForwardResponded(b)
  PROVE  HopInv'
BY NobodyAtAppMoves, BoundaryMovesOn DEF ForwardResponded

LEMMA SenderClosedStep ==
  ASSUME HopInv, NEW b \in AtBoundary, SenderClosed(b)
  PROVE  HopInv'
BY NobodyAtAppMoves, BoundaryMovesOn DEF SenderClosed

\* Connections of the app that break change nothing that was taken.
LEMMA ConnectionsBreak ==
  ASSUME HopInv, NEW broken,
         atA' = [x \in AtApp |-> IF x \in broken THEN [atA[x] EXCEPT !.open = FALSE] ELSE atA[x]]
  PROVE  atA' \in [AtApp -> AppSlot] /\ \A x \in AtApp : LikeA(x)
<1>1. ASSUME NEW x \in AtApp
      PROVE  atA'[x] \in AppSlot /\ LikeA(x)
  <2>1. atA[x] \in AppSlot
    BY TypeParts DEF HopInv, SlotsOK
  <2>2. CASE x \in broken
    <3>1. atA'[x] = [atA[x] EXCEPT !.open = FALSE]
      BY <2>2
    <3>2. atA[x].executed => atA[x].admitted
      BY DEF HopInv, AppInv
    <3> QED
      BY <2>1, <3>1, <3>2 DEF AppSlot, LikeA
  <2>3. CASE x \notin broken
    BY <2>1, <2>3, SameIsLikeA
  <2> QED
    BY <2>2, <2>3
<1> QED
  BY <1>1

LEMMA ForwardFailedStep ==
  ASSUME HopInv, NEW b \in AtBoundary, ForwardFailed(b)
  PROVE  HopInv'
<1>1. PICK broken : broken = {x \in AtApp : atA[x].from = b}
  OBVIOUS
<1>2. atA' = [x \in AtApp |-> IF x \in broken THEN [atA[x] EXCEPT !.open = FALSE] ELSE atA[x]]
  BY <1>1 DEF ForwardFailed
<1> QED
  BY <1>2, ConnectionsBreak, BoundaryMovesOn DEF ForwardFailed

LEMMA BoundaryStepKeeps ==
  ASSUME HopInv, NEW b \in AtBoundary, BoundaryStep(b)
  PROVE  HopInv'
BY PresentPbStep, BodyReadPbStep, BodyFailsPbStep, ForwardRespondedStep, ForwardFailedStep, SenderClosedStep
   DEF BoundaryStep

-----------------------------------------------------------------------------
(* The app's handler.                                                       *)

\* A step that takes and settles nothing at the app.
LEMMA AppRests ==
  ASSUME HopInv, UNCHANGED <<now, issued, atB>>, GateStays("app"), \A x \in AtApp : LikeA(x) \/ AwayA(x)
  PROVE  AppInv'
<1>1. TimePasses
  BY DEF HopInv, TypeOK, TimePasses, IssuedLast
<1> QED
  BY <1>1, NobodyAtBoundaryMoves, AppStays

\* A slot an admission is about: it took nothing yet, and what it carries belongs together.
Fresh(slot) ==
  /\ slot \in AppSlot /\ slot.ticket = "none" /\ ~slot.admitted /\ ~slot.executed
  /\ slot.ba \in AtBoundary /\ slot.pb \in Proofs
  /\ issued[slot.pb] # Never /\ atB[slot.ba].iat # Never

\* How many requests run is a number, however it is compared with the limit.
LEMMA ActiveIsNumber == active \in Nat /\ MaxActive \in Nat
<1>1. IsFiniteSet({x \in AtApp : atA[x].pc \in {"hung", "delayed", "answering"}})
  BY PresentationsAssumption, FS_Subset
<1> QED
  BY <1>1, FS_CardinalityType, LimitsAssumption DEF active

\* However a request ends up that the app admitted, it is admitted and its ticket settled.
LEMMA AdmittedSlots ==
  ASSUME NEW slot \in AppSlot, NEW a \in Admitted(slot)
  PROVE  /\ a \in AppSlot /\ a.ba = slot.ba /\ a.pb = slot.pb /\ a.ticket = "settled" /\ a.admitted
         /\ a.pc \in {"answering", "aborted", "hung", "delayed"}
<1>1. PICK s : s = [slot EXCEPT !.admitted = TRUE, !.ticket = "settled"]
  OBVIOUS
<1>2. s \in AppSlot /\ s.ba = slot.ba /\ s.pb = slot.pb /\ s.ticket = "settled" /\ s.admitted = TRUE
  BY <1>1 DEF AppSlot, Tickets
<1>3. \/ a = Runs(s, active) \/ a = Aborts(s)
      \/ a = [s EXCEPT !.pc = "hung"] \/ a = [s EXCEPT !.pc = "delayed"]
  BY <1>1 DEF Admitted
<1>4. CASE a = Runs(s, active)
  <2>1. (active < MaxActive) \in BOOLEAN
    <3>1. PICK n \in Nat, m \in Nat : n = active /\ m = MaxActive
      BY ActiveIsNumber
    <3>2. (n < m) \in BOOLEAN
      OBVIOUS
    <3> QED
      BY <3>1, <3>2
  <2>2. a = [s EXCEPT !.pc = "answering", !.executed = active < MaxActive]
    BY <1>4 DEF Runs
  <2> QED
    BY <1>2, <2>1, <2>2 DEF AppSlot
<1>5. CASE a = Aborts(s)
  BY <1>2, <1>5 DEF AppSlot, Aborts
<1>6. CASE a = [s EXCEPT !.pc = "hung"]
  BY <1>2, <1>6 DEF AppSlot
<1>7. CASE a = [s EXCEPT !.pc = "delayed"]
  BY <1>2, <1>7 DEF AppSlot
<1> QED
  BY <1>3, <1>4, <1>5, <1>6, <1>7

Turned(slot) == RefuseAtApp([slot EXCEPT !.ba = None, !.pb = None])

LEMMA RefusedAtApp ==
  ASSUME HopInv, NEW x \in AtApp, atA[x].pc \in {"idle", "sent"}, NEW slot, Fresh(slot),
         atA' = [atA EXCEPT ![x] = Turned(slot)]
  PROVE  atA' \in [AtApp -> AppSlot] /\ \A y \in AtApp : LikeA(y) \/ AwayA(y)
<1>1. PICK s : s = Turned(slot)
  OBVIOUS
<1>2. s \in AppSlot /\ s.pc = "refused" /\ s.ticket = "none" /\ ~s.admitted /\ ~s.executed
  BY <1>1 DEF Turned, RefuseAtApp, Fresh, AppSlot
<1>3. /\ atA' \in [AtApp -> AppSlot] /\ atA'[x] = s
      /\ \A y \in AtApp \ {x} : LikeA(y)
  BY <1>1, <1>2, SlotOfA
<1>4. ~TookA(x)
  BY DEF HopInv, AppInv
<1>5. AwayA(x)
  BY <1>2, <1>3, <1>4 DEF AwayA, TookA
<1> QED
  BY <1>3, <1>5

\* An admission that is granted, and how far it gets in this step.
LEMMA GrantedAtApp ==
  ASSUME HopInv, NEW x \in AtApp, gate["app"].up, atA[x].pc \in {"idle", "sent"}, NEW slot, Fresh(slot),
         AcceptableBa(slot.ba, slot.pb), NEW entries \in Scanned("app", WantsBa(slot.ba, slot.pb)),
         reserve("app", WantsBa(slot.ba, slot.pb), entries) = "ok",
         NEW state \in {"RESERVED", "COMMITTED"},
         gate' = [gate EXCEPT !["app"].entries = entries \union Holding(WantsBa(slot.ba, slot.pb), state)],
         NEW a \in AppSlot, atA' = [atA EXCEPT ![x] = a], a.ba = slot.ba, a.pb = slot.pb,
         state = "RESERVED" => a.pc = "reading" /\ a.ticket = "open" /\ ~a.executed,
         state = "COMMITTED" => a.pc \notin {"idle", "sent", "reading"} /\ a.ticket = "settled" /\ a.admitted,
         UNCHANGED <<now, issued, atB>>
  PROVE  HopInv'
<1>0. "app" \in Gates /\ "boundary" \in Gates \ {"app"} /\ TypeOK
  BY DEF Gates, HopInv
<1>1. PICK ba \in AtBoundary, pb \in Proofs : ba = slot.ba /\ pb = slot.pb
  BY DEF Fresh
<1>2. /\ atA' \in [AtApp -> AppSlot] /\ atA'[x] = a
      /\ \A y \in AtApp \ {x} : LikeA(y)
  BY SlotOfA
<1>3. gate' = [gate EXCEPT !["app"].entries = entries \union Holding(WantsBa(ba, pb), state)]
  BY <1>1
<1>4. entries \subseteq gate["app"].entries
  BY <1>0, ScanKeeps
<1>5. /\ gate'["app"].fence = gate["app"].fence /\ gate'["boundary"] = gate["boundary"]
      /\ gate' \in [Gates -> GateState]
  <2>1. PICK all : all = entries \union Holding(WantsBa(ba, pb), state)
    OBVIOUS
  <2>2. all \subseteq Entry
    BY <1>0, <1>4, <2>1, TakenAreEntries
  <2>3. gate' = [gate EXCEPT !["app"].entries = all]
    BY <1>3, <2>1
  <2> QED
    BY <1>0, <2>2, <2>3, EntriesReplaced DEF GateState
<1>6. ~TookA(x)
  BY DEF HopInv, AppInv
<1>7. issued[pb] # Never /\ atB[ba].iat # Never
  BY <1>1 DEF Fresh
<1>8. AppInv'
  <2>1. /\ entries \in Scanned("app", WantsBa(ba, pb)) /\ AcceptableBa(ba, pb)
        /\ reserve("app", WantsBa(ba, pb), entries) = "ok"
    BY <1>1
  <2>2. /\ atA'[x].ba = ba /\ atA'[x].pb = pb
        /\ state = "RESERVED" => atA'[x].pc = "reading" /\ atA'[x].ticket = "open" /\ ~atA'[x].executed
        /\ state = "COMMITTED" => /\ atA'[x].pc \notin {"idle", "sent", "reading"}
                                  /\ atA'[x].ticket = "settled" /\ atA'[x].admitted
    BY <1>1, <1>2
  <2> QED
    BY ONLY HopInv, x \in AtApp, ba \in AtBoundary, pb \in Proofs, state \in {"RESERVED", "COMMITTED"},
            gate["app"].up, UNCHANGED <<now, issued, atB>>,
            <1>2, <1>3, <1>6, <1>7, <2>1, <2>2, AppTakes
<1> QED
  BY <1>2, <1>5, <1>8, HandlerAtApp

LEMMA AdmitStep ==
  ASSUME HopInv, NEW x \in AtApp, gate["app"].up, atA[x].pc \in {"idle", "sent"}, NEW slot, Fresh(slot),
         NEW authentic, Admit(x, slot, authentic), UNCHANGED <<now, issued, atB>>
  PROVE  HopInv'
<1>0. "app" \in Gates /\ "boundary" \in Gates \ {"app"} /\ TypeOK
  BY DEF Gates, HopInv
<1>1. CASE /\ atA' = [atA EXCEPT ![x] = Turned(slot)]
           /\ UNCHANGED gate
  <2>1. atA' \in [AtApp -> AppSlot] /\ \A y \in AtApp : LikeA(y) \/ AwayA(y)
    BY <1>1, RefusedAtApp
  <2>2. AppInv'
    BY <1>1, <2>1, SameGateStays, AppRests
  <2>3. gate' \in [Gates -> GateState]
    BY <1>0, <1>1, TypeParts
  <2> QED
    BY <1>1, <2>1, <2>2, <2>3, HandlerAtApp
<1>2. ASSUME NEW entries \in Scanned("app", WantsBa(slot.ba, slot.pb)),
             gate' = [gate EXCEPT !["app"].entries = entries],
             atA' = [atA EXCEPT ![x] = Turned(slot)]
      PROVE  HopInv'
  <2>1. atA' \in [AtApp -> AppSlot] /\ \A y \in AtApp : LikeA(y) \/ AwayA(y)
    BY <1>2, RefusedAtApp
  <2>2. /\ GateStays("app") /\ gate' \in [Gates -> GateState] /\ gate'["boundary"] = gate["boundary"]
    BY <1>0, <1>2, ScanStays
  <2>3. AppInv'
    BY <2>1, <2>2, AppRests
  <2> QED
    BY <2>1, <2>2, <2>3, HandlerAtApp DEF GateStays
<1>3. ASSUME AcceptableBa(slot.ba, slot.pb), NEW entries \in Scanned("app", WantsBa(slot.ba, slot.pb)),
             reserve("app", WantsBa(slot.ba, slot.pb), entries) = "ok",
             gate' = [gate EXCEPT !["app"].entries = entries \union Holding(WantsBa(slot.ba, slot.pb), "RESERVED")],
             atA' = [atA EXCEPT ![x] = [slot EXCEPT !.pc = "reading", !.ticket = "open"]]
      PROVE  HopInv'
  <2>1. PICK a : a = [slot EXCEPT !.pc = "reading", !.ticket = "open"]
    OBVIOUS
  <2>2. /\ a \in AppSlot /\ a.ba = slot.ba /\ a.pb = slot.pb
        /\ a.pc = "reading" /\ a.ticket = "open" /\ ~a.executed
    BY <2>1 DEF Fresh, AppSlot, Tickets
  <2> QED
    BY <1>3, <2>1, <2>2, GrantedAtApp
<1>4. ASSUME AcceptableBa(slot.ba, slot.pb), NEW entries \in Scanned("app", WantsBa(slot.ba, slot.pb)),
             reserve("app", WantsBa(slot.ba, slot.pb), entries) = "ok",
             gate' = [gate EXCEPT !["app"].entries = entries \union Holding(WantsBa(slot.ba, slot.pb), "COMMITTED")],
             NEW a \in Admitted(slot), atA' = [atA EXCEPT ![x] = a]
      PROVE  HopInv'
  <2>1. slot \in AppSlot
    BY DEF Fresh
  <2>2. /\ a \in AppSlot /\ a.ba = slot.ba /\ a.pb = slot.pb /\ a.ticket = "settled" /\ a.admitted
        /\ a.pc \notin {"idle", "sent", "reading"}
    BY <2>1, AdmittedSlots
  <2> QED
    BY <1>4, <2>2, GrantedAtApp
<1> QED
  BY <1>1, <1>2, <1>3, <1>4 DEF Admit, Holding, Turned

LEMMA ArriveAtAppStep ==
  ASSUME HopInv, NEW x \in AtApp, ArriveAtApp(x)
  PROVE  HopInv'
<1>1. PICK slot : slot = atA[x]
  OBVIOUS
<1>2. Fresh(slot)
  <2>1. atA[x] \in AppSlot /\ atA[x].pc = "sent"
    BY TypeParts DEF HopInv, SlotsOK, ArriveAtApp
  <2> QED
    BY <1>1, <2>1 DEF HopInv, AppInv, TookA, Fresh, protectedLineageComplete, AppSlot
<1> QED
  BY <1>1, <1>2, AdmitStep DEF ArriveAtApp

LEMMA PresentBaStep ==
  ASSUME HopInv, NEW x \in AtApp, NEW ba \in AtBoundary, NEW pb \in Proofs, NEW authentic,
         PresentBa(x, ba, pb, authentic)
  PROVE  HopInv'
<1>1. PICK slot : slot = [NewAtApp EXCEPT !.ba = ba, !.pb = pb, !.open = TRUE]
  OBVIOUS
<1>2. Fresh(slot)
  BY <1>1 DEF Fresh, NewAtApp, AppSlot, Tickets, PresentBa
<1>3. atA[x].pc = "idle" /\ gate["app"].up /\ Admit(x, slot, authentic) /\ UNCHANGED <<now, issued, atB>>
  BY <1>1 DEF PresentBa, FreeAtApp
<1> QED
  BY <1>2, <1>3, AdmitStep

\* A body that was read, or failed, whether the request then runs or is refused.
LEMMA BodyAtApp ==
  ASSUME HopInv, NEW x \in AtApp, NEW next \in {"COMMITTED", "BURNED"}, atA[x].pc = "reading",
         gate' = transition("app", KeysAtApp(atA[x]), next),
         NEW a \in AppSlot, atA' = [atA EXCEPT ![x] = a],
         a.ba = atA[x].ba, a.pb = atA[x].pb, a.ticket = "settled",
         a.pc \notin {"idle", "sent", "reading"}, a.pc = "delayed" \/ a.executed => a.admitted,
         UNCHANGED <<now, issued, atB>>
  PROVE  HopInv'
<1>0. "app" \in Gates /\ "boundary" \in Gates \ {"app"} /\ TypeOK
  BY DEF Gates, HopInv
<1>1. /\ atA' \in [AtApp -> AppSlot] /\ atA'[x] = a
      /\ \A y \in AtApp \ {x} : LikeA(y)
  BY SlotOfA
<1>2. AppInv'
  BY <1>1, AppSettles
<1>3. /\ gate' \in [Gates -> GateState] /\ gate'["boundary"] = gate["boundary"]
      /\ gate'["app"].fence = gate["app"].fence
  <2>1. PICK keys : keys = KeysAtApp(atA[x])
    OBVIOUS
  <2>2. gate' = transition("app", keys, next)
    BY <2>1
  <2>3. /\ Remembers("app") /\ \A h \in Gates \ {"app"} : gate'[h] = gate[h]
        /\ gate' \in [Gates -> [up : BOOLEAN, fence : Nat, entries : SUBSET Entry]]
    BY <1>0, <2>2, Settlement
  <2> QED
    BY <1>0, <2>3 DEF Remembers, GateState
<1> QED
  BY <1>1, <1>2, <1>3, HandlerAtApp

LEMMA BodyReadBaStep ==
  ASSUME HopInv, NEW x \in AtApp, BodyReadBa(x)
  PROVE  HopInv'
<1>1. PICK slot : slot = atA[x]
  OBVIOUS
<1>2. slot \in AppSlot
  BY <1>1, TypeParts DEF HopInv, SlotsOK
<1>3. PICK a \in Admitted(slot) : atA' = [atA EXCEPT ![x] = a]
  BY <1>1 DEF BodyReadBa
<1>4. /\ a \in AppSlot /\ a.ba = slot.ba /\ a.pb = slot.pb /\ a.ticket = "settled" /\ a.admitted
      /\ a.pc \notin {"idle", "sent", "reading"}
  BY <1>2, AdmittedSlots
<1> QED
  BY <1>1, <1>3, <1>4, BodyAtApp DEF BodyReadBa

LEMMA BodyFailsBaStep ==
  ASSUME HopInv, NEW x \in AtApp, BodyFailsBa(x)
  PROVE  HopInv'
<1>1. PICK a : a = RefuseAtApp([atA[x] EXCEPT !.ticket = "settled"])
  OBVIOUS
<1>2. PICK slot \in AppSlot : slot = atA[x]
  BY TypeParts DEF HopInv, SlotsOK
<1>3. /\ a \in AppSlot /\ a.ba = slot.ba /\ a.pb = slot.pb /\ a.ticket = "settled"
      /\ a.pc = "refused" /\ a.executed = slot.executed /\ a.admitted = slot.admitted
  BY <1>1, <1>2 DEF AppSlot, Tickets, RefuseAtApp
<1>4. slot.executed => slot.admitted
  BY <1>2 DEF HopInv, AppInv
<1>5. atA' = [atA EXCEPT ![x] = a]
  BY <1>1 DEF BodyFailsBa, HopInv, TypeOK
<1> QED
  BY <1>2, <1>3, <1>4, <1>5, BodyAtApp DEF BodyFailsBa

\* What remains of a request after its admission only moves it on.
LEMMA AppMovesOn ==
  ASSUME HopInv, NEW x \in AtApp, NEW a \in AppSlot, atA' = [atA EXCEPT ![x] = a],
         a.ba = atA[x].ba, a.pb = atA[x].pb, a.ticket = atA[x].ticket, a.admitted = atA[x].admitted,
         a.pc \in {"answering", "completed", "aborted"}, a.executed => a.admitted,
         UNCHANGED <<now, issued, gate, atB>>
  PROVE  HopInv'
<1>1. /\ atA' \in [AtApp -> AppSlot] /\ atA'[x] = a
      /\ \A y \in AtApp \ {x} : LikeA(y)
  BY SlotOfA
<1>2. \A y \in AtApp : LikeA(y)
  BY <1>1 DEF LikeA
<1>3. AppInv'
  BY <1>2, SameGateStays, AppRests
<1>4. gate' \in [Gates -> GateState]
  BY TypeParts DEF HopInv
<1> QED
  BY <1>1, <1>3, <1>4, HandlerAtApp

LEMMA DelayEndsStep ==
  ASSUME HopInv, NEW x \in AtApp, DelayEnds(x)
  PROVE  HopInv'
<1>1. PICK a : a = Runs(atA[x], active - 1)
  OBVIOUS
<1>2. PICK slot \in AppSlot : slot = atA[x]
  BY TypeParts DEF HopInv, SlotsOK
<1>3. (active - 1 < MaxActive) \in BOOLEAN
  <2>1. PICK n \in Nat, m \in Nat : n = active /\ m = MaxActive
    BY ActiveIsNumber
  <2>2. (n - 1 < m) \in BOOLEAN
    OBVIOUS
  <2> QED
    BY <2>1, <2>2
<1>4. a = [slot EXCEPT !.pc = "answering", !.executed = active - 1 < MaxActive]
  BY <1>1, <1>2 DEF Runs
<1>5. /\ a \in AppSlot /\ a.ba = slot.ba /\ a.pb = slot.pb /\ a.ticket = slot.ticket
      /\ a.pc = "answering" /\ a.admitted = slot.admitted
  BY <1>3, <1>4 DEF AppSlot
<1>6. slot.admitted
  BY <1>2 DEF HopInv, AppInv, DelayEnds
<1>7. atA' = [atA EXCEPT ![x] = a]
  BY <1>1 DEF DelayEnds, HopInv, TypeOK
<1> QED
  BY <1>2, <1>5, <1>6, <1>7, AppMovesOn DEF DelayEnds

LEMMA AppCompletesStep ==
  ASSUME HopInv, NEW x \in AtApp, AppCompletes(x)
  PROVE  HopInv'
<1>1. PICK slot \in AppSlot : slot = atA[x]
  BY TypeParts DEF HopInv, SlotsOK
<1>2. PICK a : a = [slot EXCEPT !.pc = "completed"]
  OBVIOUS
<1>3. /\ a \in AppSlot /\ a.ba = slot.ba /\ a.pb = slot.pb /\ a.ticket = slot.ticket
      /\ a.pc = "completed" /\ a.admitted = slot.admitted /\ a.executed = slot.executed
  BY <1>2 DEF AppSlot
<1>4. slot.executed => slot.admitted
  BY <1>1 DEF HopInv, AppInv
<1>5. atA' = [atA EXCEPT ![x] = a]
  BY <1>1, <1>2 DEF AppCompletes, HopInv, TypeOK
<1> QED
  BY <1>1, <1>3, <1>4, <1>5, AppMovesOn DEF AppCompletes

LEMMA AppConnectionClosesStep ==
  ASSUME HopInv, NEW x \in AtApp, AppConnectionCloses(x)
  PROVE  HopInv'
<1>1. PICK slot \in AppSlot : slot = atA[x]
  BY TypeParts DEF HopInv, SlotsOK
<1>2. PICK a : a = Aborts(slot)
  OBVIOUS
<1>3. /\ a \in AppSlot /\ a.ba = slot.ba /\ a.pb = slot.pb /\ a.ticket = slot.ticket
      /\ a.pc = "aborted" /\ a.admitted = slot.admitted /\ a.executed = slot.executed
  BY <1>2 DEF AppSlot, Aborts
<1>4. slot.executed => slot.admitted
  BY <1>1 DEF HopInv, AppInv
<1>5. atA' = [atA EXCEPT ![x] = a]
  BY <1>1, <1>2 DEF AppConnectionCloses, HopInv, TypeOK
<1> QED
  BY <1>1, <1>3, <1>4, <1>5, AppMovesOn DEF AppConnectionCloses

LEMMA AppStepKeeps ==
  ASSUME HopInv, NEW x \in AtApp, AppStep(x)
  PROVE  HopInv'
BY ApprovedAreProofs, ArriveAtAppStep, PresentBaStep, BodyReadBaStep, BodyFailsBaStep,
   DelayEndsStep, AppCompletesStep, AppConnectionClosesStep DEF AppStep

-----------------------------------------------------------------------------
(* The plane, the clock and the processes.                                  *)

\* A step outside the handlers and the processes.
LEMMA OutsideSteps ==
  ASSUME HopInv, TypeOK', TimePasses, UNCHANGED <<gate, atB, atA>>
  PROVE  HopInv'
<1>1. (\A b \in AtBoundary : LikeB(b)) /\ LineagesLast /\ (\A x \in AtApp : LikeA(x))
  BY NobodyAtBoundaryMoves, NobodyAtAppMoves
<1>2. GateStays("boundary") /\ GateStays("app")
  BY SameGateStays
<1> QED
  BY <1>1, <1>2, BoundaryStays, AppStays DEF HopInv

LEMMA IssuePbStep ==
  ASSUME HopInv, NEW pb \in Proofs, IssuePb(pb)
  PROVE  HopInv'
<1>1. issued' \in [Proofs -> Int] /\ (\A q \in Proofs : issued'[q] <= now') /\ now' = now /\ now \in Nat
  BY DEF IssuePb, HopInv, TypeOK
<1>2. TypeOK'
  BY <1>1 DEF IssuePb, HopInv, TypeOK, Entry, Tickets, Gates
<1>3. TimePasses
  BY <1>1 DEF TimePasses, IssuedLast, IssuePb, HopInv, TypeOK
<1> QED
  BY <1>2, <1>3, OutsideSteps DEF IssuePb

LEMMA TickStep ==
  ASSUME HopInv, Tick
  PROVE  HopInv'
<1>1. now' = now + 1 /\ now \in Nat /\ now' \in Nat /\ now <= now'
  BY DEF Tick, HopInv, TypeOK
<1>2. \A pb \in Proofs : issued'[pb] <= now'
  <2> SUFFICES ASSUME NEW pb \in Proofs
               PROVE  issued[pb] <= now + 1
    BY <1>1 DEF Tick
  <2>1. issued[pb] \in Int /\ issued[pb] <= now
    BY DEF HopInv, TypeOK
  <2> QED
    BY <1>1, <2>1
<1>3. \A g \in Gates : gate'[g].fence <= now'
  <2> SUFFICES ASSUME NEW g \in Gates
               PROVE  gate[g].fence <= now + 1
    BY <1>1 DEF Tick
  <2>1. gate[g].fence \in Nat /\ gate[g].fence <= now
    BY DEF HopInv, TypeOK
  <2> QED
    BY <1>1, <2>1
<1>4. TypeOK'
  BY <1>1, <1>2, <1>3 DEF Tick, HopInv, TypeOK, Entry, Tickets, Gates
<1>5. TimePasses
  BY <1>1 DEF TimePasses, IssuedLast, Tick
<1> QED
  BY <1>4, <1>5, OutsideSteps DEF Tick

LEMMA CrashedGate ==
  ASSUME HopInv, NEW g \in Gates, Crash(g)
  PROVE  /\ ~gate'[g].up /\ gate'[g].entries = {} /\ gate'[g].fence = now
         /\ \A h \in Gates \ {g} : gate'[h] = gate[h]
         /\ gate' \in [Gates -> GateState] /\ (\A h \in Gates : gate'[h].fence <= now)
         /\ TimePasses /\ now' = now /\ issued' = issued
<1>1. now \in Nat /\ now <= now /\ gate \in [Gates -> GateState] /\ \A h \in Gates : gate[h].fence <= now
  BY TypeParts DEF HopInv
<1>2. gate' = [gate EXCEPT ![g].up = FALSE, ![g].entries = {}, ![g].fence = now]
  BY DEF Crash
<1>3. ~gate'[g].up /\ gate'[g].entries = {} /\ gate'[g].fence = now
  BY <1>1, <1>2 DEF GateState
<1>4. \A h \in Gates \ {g} : gate'[h] = gate[h]
  BY <1>1, <1>2
<1>5. gate' \in [Gates -> GateState]
  BY <1>1, <1>2 DEF GateState
<1>6. TimePasses /\ now' = now /\ issued' = issued
  BY <1>1 DEF Crash, TimePasses, IssuedLast
<1> QED
  BY <1>1, <1>3, <1>4, <1>5, <1>6

\* Once the process is down, whatever was issued is older than the next.
LEMMA CrashSpends ==
  ASSUME HopInv, NEW g \in Gates, Crash(g), NEW key, NEW pb \in Proofs
  PROVE  Spent(g, key, pb)'
<1>1. ~gate'[g].up /\ gate'[g].fence = now /\ issued' = issued
  BY CrashedGate
<1>2. issued[pb] <= now
  BY DEF HopInv, TypeOK
<1> QED
  BY <1>1, <1>2 DEF Spent

LEMMA KilledB ==
  ASSUME NEW slot \in BoundarySlot
  PROVE  /\ Killed(slot) \in BoundarySlot
         /\ Killed(slot).pb = slot.pb /\ Killed(slot).iat = slot.iat /\ Killed(slot).ticket = "none"
         /\ Killed(slot).pc \in {slot.pc, "dead"} /\ Killed(slot).pc # "reading"
BY DEF BoundarySlot, Killed, Ended, Tickets

LEMMA KilledA ==
  ASSUME NEW slot \in AppSlot
  PROVE  /\ Killed(slot) \in AppSlot /\ Killed(slot).ba = slot.ba /\ Killed(slot).pb = slot.pb
         /\ Killed(slot).ticket = "none"
         /\ Killed(slot).admitted = slot.admitted /\ Killed(slot).executed = slot.executed
         /\ Killed(slot).pc \in {slot.pc, "dead"} /\ Killed(slot).pc \notin {"sent", "reading", "delayed"}
BY DEF AppSlot, Killed, Ended, Tickets

LEMMA CrashBoundaryStep ==
  ASSUME HopInv, Crash("boundary")
  PROVE  HopInv'
<1>0. "boundary" \in Gates /\ "app" \in Gates \ {"boundary"}
  BY DEF Gates
<1>1. /\ ~gate'["boundary"].up /\ gate'["boundary"].entries = {} /\ gate'["app"] = gate["app"]
      /\ gate' \in [Gates -> GateState] /\ (\A h \in Gates : gate'[h].fence <= now)
      /\ TimePasses /\ now' = now /\ issued' = issued
  BY <1>0, CrashedGate
<1>2. ASSUME NEW b \in AtBoundary
      PROVE  /\ atB'[b] \in BoundarySlot /\ atB'[b].ticket = "none"
             /\ atB'[b].pb = atB[b].pb /\ atB'[b].iat = atB[b].iat
             /\ atB'[b].pc \in {atB[b].pc, "dead"} /\ atB'[b].pc # "reading"
  <2>1. atB[b] \in BoundarySlot
    BY TypeParts DEF HopInv, SlotsOK
  <2>2. atB'[b] = Killed(atB[b])
    BY DEF Crash
  <2> QED
    BY <2>1, <2>2, KilledB
<1>3. atA' \in [AtApp -> AppSlot] /\ \A x \in AtApp : LikeA(x)
  <2>1. PICK broken : broken = {x \in AtApp : atA[x].from # None}
    OBVIOUS
  <2>2. atA' = [x \in AtApp |-> IF x \in broken THEN [atA[x] EXCEPT !.open = FALSE] ELSE atA[x]]
    BY <2>1 DEF Crash
  <2> QED
    BY <2>2, ConnectionsBreak
<1>4. atB' \in [AtBoundary -> BoundarySlot]
  <2>1. atB' = [b \in AtBoundary |-> Killed(atB[b])]
    BY DEF Crash
  <2> QED
    BY <1>2, <2>1
<1>5. TypeOK'
  <2>1. now \in Nat /\ issued \in [Proofs -> Int] /\ \A pb \in Proofs : issued[pb] <= now
    BY DEF HopInv, TypeOK
  <2> QED
    BY <1>1, <1>3, <1>4, <2>1 DEF TypeOK, BoundarySlot, AppSlot, GateState, Entry, Tickets, Gates
<1>6. \A b \in AtBoundary : TookB(b)' => TookB(b)
  BY <1>2 DEF TookB
<1>7. ASSUME NEW b \in AtBoundary, TookB(b)'
      PROVE  /\ atB'[b].pb \in Proofs /\ issued'[atB'[b].pb] # Never
             /\ Spent("boundary", PbKey(atB[b].pb), atB[b].pb)'
  <2>1. PICK pb \in Proofs : pb = atB[b].pb /\ issued[pb] # Never
    BY <1>6, <1>7 DEF HopInv, BoundaryInv
  <2>2. Spent("boundary", PbKey(pb), pb)'
    BY <1>0, CrashSpends
  <2> QED
    BY <1>1, <1>2, <2>1, <2>2 DEF PbKey
<1>8. BoundaryInv'
  <2>1. \A b \in AtBoundary : atB'[b].pc = "idle" => ~TookB(b)'
    BY <1>2, <1>6 DEF HopInv, BoundaryInv
  <2>2. \A b, c \in AtBoundary : b # c /\ TookB(b)' /\ TookB(c)' => atB'[b].pb # atB'[c].pb
    BY <1>2, <1>6 DEF HopInv, BoundaryInv
  <2> QED
    BY <1>1, <1>2, <1>7, <2>1, <2>2 DEF BoundaryInv
<1>9. LineagesLast
  BY <1>2 DEF LineagesLast
<1>10. AppInv'
  BY <1>1, <1>3, <1>9, SameGateStays, AppStays
<1> QED
  BY <1>5, <1>8, <1>10 DEF HopInv

LEMMA CrashAppStep ==
  ASSUME HopInv, Crash("app")
  PROVE  HopInv'
<1>0. "app" \in Gates /\ "boundary" \in Gates \ {"app"} /\ "app" # "boundary"
  BY DEF Gates
<1>1. /\ ~gate'["app"].up /\ gate'["app"].entries = {} /\ gate'["boundary"] = gate["boundary"]
      /\ gate' \in [Gates -> GateState] /\ (\A h \in Gates : gate'[h].fence <= now)
      /\ TimePasses /\ now' = now /\ issued' = issued
  BY <1>0, CrashedGate
<1>2. UNCHANGED atB
  BY <1>0 DEF Crash
<1>3. atA' = [x \in AtApp |-> IF atA[x].pc = "sent" THEN [atA[x] EXCEPT !.pc = "dead"] ELSE Killed(atA[x])]
  BY <1>0 DEF Crash
<1>4. ASSUME NEW x \in AtApp
      PROVE  /\ atA'[x] \in AppSlot /\ atA'[x].ticket = "none"
             /\ atA'[x].ba = atA[x].ba /\ atA'[x].pb = atA[x].pb
             /\ atA'[x].admitted = atA[x].admitted /\ atA'[x].executed = atA[x].executed
             /\ atA'[x].pc \in {atA[x].pc, "dead"} /\ atA'[x].pc \notin {"sent", "reading", "delayed"}
  <2>1. atA[x] \in AppSlot
    BY TypeParts DEF HopInv, SlotsOK
  <2>2. CASE atA[x].pc = "sent"
    <3>1. atA'[x] = [atA[x] EXCEPT !.pc = "dead"]
      BY <1>3, <2>2
    <3>2. atA[x].ticket = "none"
      BY <2>2 DEF HopInv, AppInv, TookA
    <3> QED
      BY <2>1, <3>1, <3>2 DEF AppSlot
  <2>3. CASE atA[x].pc # "sent"
    BY <1>3, <2>1, <2>3, KilledA
  <2> QED
    BY <2>2, <2>3
<1>5. atA' \in [AtApp -> AppSlot]
  BY <1>3, <1>4
<1>6. (\A b \in AtBoundary : LikeB(b)) /\ atB' \in [AtBoundary -> BoundarySlot]
  BY <1>2, NobodyAtBoundaryMoves
<1>7. TypeOK'
  <2>1. now \in Nat /\ issued \in [Proofs -> Int] /\ \A pb \in Proofs : issued[pb] <= now
    BY DEF HopInv, TypeOK
  <2> QED
    BY <1>1, <1>5, <1>6, <2>1 DEF TypeOK, BoundarySlot, AppSlot, GateState, Entry, Tickets, Gates
<1>8. BoundaryInv'
  BY <1>1, <1>6, SameGateStays, BoundaryStays
<1>9. \A x \in AtApp : TookA(x)' => TookA(x)
  BY <1>4 DEF TookA
<1>10. ASSUME NEW x \in AtApp, TookA(x)'
       PROVE  /\ atA'[x].ba \in AtBoundary /\ atA'[x].pb \in Proofs
              /\ protectedLineageComplete(atA[x])'
              /\ Spent("app", LineageKey(atA[x].pb), atA[x].pb)'
  <2>1. atA[x].ba \in AtBoundary /\ atA[x].pb \in Proofs /\ protectedLineageComplete(atA[x])
    BY <1>9, <1>10 DEF HopInv, AppInv
  <2>2. protectedLineageComplete(atA[x])'
    BY <1>1, <1>2, <1>4, <2>1 DEF protectedLineageComplete
  <2>3. PICK pb \in Proofs : pb = atA[x].pb
    BY <2>1
  <2>4. Spent("app", LineageKey(pb), pb)'
    BY <1>0, CrashSpends
  <2> QED
    BY <1>4, <2>1, <2>2, <2>3, <2>4 DEF LineageKey
<1>11. AppInv'
  <2>1. \A x \in AtApp : atA'[x].pc \in {"idle", "sent"} => ~TookA(x)'
    BY <1>4, <1>9 DEF HopInv, AppInv
  <2>2. \A x, y \in AtApp : x # y /\ TookA(x)' /\ TookA(y)' => atA'[x].pb # atA'[y].pb
    BY <1>4, <1>9 DEF HopInv, AppInv
  <2>3. \A x \in AtApp : atA'[x].executed => atA'[x].admitted
    BY <1>4 DEF HopInv, AppInv
  <2> QED
    BY <1>1, <1>4, <1>10, <2>1, <2>2, <2>3 DEF AppInv
<1> QED
  BY <1>7, <1>8, <1>11 DEF HopInv

\* What was issued before the process died is older than its successor.
LEMMA StartStep ==
  ASSUME HopInv, NEW g \in Gates, Start(g)
  PROVE  HopInv'
<1>1. /\ now \in Nat /\ gate \in [Gates -> GateState] /\ (\A h \in Gates : gate[h].fence <= now)
      /\ ~gate[g].up /\ gate[g].fence < now /\ gate' = [gate EXCEPT ![g].up = TRUE, ![g].fence = now]
      /\ UNCHANGED <<now, issued, atB, atA>>
  BY TypeParts DEF HopInv, Start
<1>2. gate'[g].up /\ gate'[g].fence = now /\ gate'[g].entries = gate[g].entries
  BY <1>1 DEF GateState
<1>3. (\A h \in Gates \ {g} : gate'[h] = gate[h]) /\ gate' \in [Gates -> GateState]
  BY <1>1 DEF GateState
<1>4. TypeOK' /\ TimePasses
  <2>1. \A h \in Gates : gate'[h].fence <= now'
    BY <1>1, <1>2, <1>3
  <2>2. now' \in Nat /\ issued' \in [Proofs -> Int] /\ \A pb \in Proofs : issued'[pb] <= now'
    BY <1>1 DEF HopInv, TypeOK
  <2>3. atB' \in [AtBoundary -> BoundarySlot] /\ atA' \in [AtApp -> AppSlot]
    BY <1>1, TypeParts DEF HopInv, SlotsOK
  <2>4. TypeOK'
    BY <1>3, <2>1, <2>2, <2>3 DEF TypeOK, BoundarySlot, AppSlot, GateState, Entry, Tickets, Gates
  <2> QED
    BY <1>1, <2>4 DEF TimePasses, IssuedLast
<1>5. (\A b \in AtBoundary : LikeB(b)) /\ LineagesLast /\ (\A x \in AtApp : LikeA(x))
  BY <1>1, NobodyAtBoundaryMoves, NobodyAtAppMoves
<1>6. ASSUME NEW key, NEW pb \in Proofs, Spent(g, key, pb)
      PROVE  Spent(g, key, pb)'
  <2>1. LastMoment(pb)' = LastMoment(pb)
    BY <1>1 DEF LastMoment
  <2>2. issued[pb] \in Int /\ gate[g].fence \in Nat /\ issued'[pb] = issued[pb] /\ now' = now
    BY <1>1 DEF HopInv, TypeOK
  <2>3. CASE issued[pb] <= gate[g].fence
    <3>1. issued[pb] < now
      BY <1>1, <2>2, <2>3
    <3> QED
      BY <1>2, <2>2, <3>1 DEF Spent
  <2>4. CASE now > LastMoment(pb)
    BY <2>1, <2>2, <2>4 DEF Spent
  <2>5. CASE \E e \in gate[g].entries : e.key = key /\ e.until > LastMoment(pb)
    BY <1>2, <2>1, <2>5 DEF Spent
  <2> QED
    BY <1>1, <1>6, <2>3, <2>4, <2>5 DEF Spent
<1>7. CASE g = "boundary"
  <2>1. "boundary" \in Gates /\ "app" \in Gates \ {"boundary"}
    BY DEF Gates
  <2>2. AppInv'
    BY <1>3, <1>4, <1>5, <1>7, <2>1, SameGateStays, AppStays
  <2>3. \A b \in AtBoundary : (TookB(b)' <=> TookB(b)) /\ atB[b].ticket = "none"
    BY <1>1, <1>7 DEF TookB, HopInv, BoundaryInv
  <2>4. ASSUME NEW b \in AtBoundary, TookB(b)
        PROVE  /\ atB'[b].pb \in Proofs /\ issued'[atB'[b].pb] # Never
               /\ Spent("boundary", PbKey(atB[b].pb), atB[b].pb)'
    <3>1. PICK pb \in Proofs : pb = atB[b].pb /\ issued[pb] # Never /\ Spent("boundary", PbKey(pb), pb)
      BY <2>4 DEF HopInv, BoundaryInv
    <3>2. Spent("boundary", PbKey(pb), pb)'
      BY <1>6, <1>7, <3>1
    <3> QED
      BY <1>1, <3>1, <3>2 DEF PbKey
  <2>5. BoundaryInv'
    BY <1>1, <1>2, <1>7, <2>3, <2>4 DEF HopInv, BoundaryInv
  <2> QED
    BY <1>4, <2>2, <2>5 DEF HopInv
<1>8. CASE g = "app"
  <2>1. "app" \in Gates /\ "boundary" \in Gates \ {"app"}
    BY DEF Gates
  <2>2. BoundaryInv'
    BY <1>3, <1>4, <1>5, <1>8, <2>1, SameGateStays, BoundaryStays
  <2>3. \A x \in AtApp : (TookA(x)' <=> TookA(x)) /\ atA[x].ticket = "none"
    BY <1>1, <1>8 DEF TookA, HopInv, AppInv
  <2>4. ASSUME NEW x \in AtApp, TookA(x)
        PROVE  Spent("app", LineageKey(atA[x].pb), atA[x].pb)'
    <3>1. PICK pb \in Proofs : pb = atA[x].pb /\ Spent("app", LineageKey(pb), pb)
      BY <2>4 DEF HopInv, AppInv
    <3>2. Spent("app", LineageKey(pb), pb)'
      BY <1>6, <1>8, <3>1
    <3> QED
      BY <1>1, <3>1, <3>2 DEF LineageKey
  <2>5. ASSUME NEW x \in AtApp
        PROVE  protectedLineageComplete(atA[x])' <=> protectedLineageComplete(atA[x])
    BY <1>1 DEF protectedLineageComplete
  <2>6. AppInv'
    BY <1>1, <1>2, <1>8, <2>3, <2>4, <2>5 DEF HopInv, AppInv
  <2> QED
    BY <1>4, <2>2, <2>6 DEF HopInv
<1> QED
  BY <1>7, <1>8 DEF Gates

-----------------------------------------------------------------------------

LEMMA HopInit ==
  ASSUME Init
  PROVE  HopInv
<1>1. TypeOK
  BY DEF Init, TypeOK, Tickets, NewAtApp, Gates, Never
<1>2. BoundaryInv
  BY DEF Init, BoundaryInv, TookB, Gates
<1>3. AppInv
  BY DEF Init, AppInv, TookA, NewAtApp, Gates
<1> QED
  BY <1>1, <1>2, <1>3 DEF HopInv

LEMMA HopStep ==
  ASSUME HopInv, [Next]_vars
  PROVE  HopInv'
<1>1. CASE Next
  <2>1. \A g \in Gates : Crash(g) => HopInv'
    BY CrashBoundaryStep, CrashAppStep DEF Gates
  <2> QED
    BY <1>1, <2>1, TickStep, IssuePbStep, BoundaryStepKeeps, AppStepKeeps, StartStep DEF Next
<1>2. CASE UNCHANGED vars
  <2>1. TypeOK' /\ TimePasses
    BY <1>2 DEF vars, HopInv, TypeOK, TimePasses, IssuedLast, Entry, Tickets, Gates
  <2> QED
    BY <1>2, <2>1, OutsideSteps DEF vars
<1> QED
  BY <1>1, <1>2

\* What the gates took, why they take it no more and what they hold back, in
\* every interleaving of handlers, replays, crashes and restarts.
THEOREM HopInvariance == Spec => []HopInv
BY HopInit, HopStep, PTL DEF Spec

\* lineage.ts, validateOriginLineage(): nothing runs at the application that the
\* plane and the boundary did not pass on, and nothing passes either gate twice.
THEOREM LineageHolds == Spec => []AdmittedOnceWithLineage
BY HopInvariance, HopInvImplies, PTL

\* replay-guard.ts: what was used is remembered while it could be used again,
\* and exactly what is being read is reserved.
THEOREM GuardsStayExact == Spec => []GuardsAreExact
BY HopInvariance, HopInvImplies, PTL

-----------------------------------------------------------------------------
(* The plane                                                               *)

-----------------------------------------------------------------------------
(* Streams of events                                                       *)

LEMMA StreamStarts ==
  ASSUME NEW e, e = << >>
  PROVE  Stream(Append(e, "INGRESS_ACCEPTED"), {"INGRESS_ACCEPTED"}, "INGRESS_ACCEPTED")
<1> DEFINE f == Append(e, "INGRESS_ACCEPTED")
<1>1. e \in Seq(EventKinds) /\ Len(e) = 0
  OBVIOUS
<1>2. "INGRESS_ACCEPTED" \in EventKinds
  BY DEF EventKinds
<1>3. f \in Seq(EventKinds) /\ f # << >> /\ Len(f) = 1 /\ f[1] = "INGRESS_ACCEPTED"
  BY <1>1, <1>2, AppendProperties
<1> HIDE DEF f
<1>4. DOMAIN f = 1..1
  BY <1>3
<1>5. 1 \in DOMAIN f /\ \A i \in DOMAIN f : i = 1
  BY <1>4
<1>6. "INGRESS_ACCEPTED" \in NEXT_PLANE_KINDS_L2("START")
  BY DEF NEXT_PLANE_KINDS_L2, Terminals, Verdicts
<1> QED
  BY <1>3, <1>5, <1>6 DEF Stream, automaton, f

\* What one more event makes of a stream.
LEMMA StreamGrows ==
  ASSUME NEW e, NEW seen, NEW last, Stream(e, seen, last),
         NEW k \in EventKinds, k \notin seen, k \in NEXT_PLANE_KINDS_L2(last)
  PROVE  Stream(Append(e, k), seen \union {k}, k)
<1> DEFINE f == Append(e, k)
           n == Len(e)
<1>1. e \in Seq(EventKinds) /\ n \in Nat /\ n # 0 /\ e[n] = last /\ DOMAIN e = 1..n
  BY DEF Stream
<1>2. f \in Seq(EventKinds) /\ Len(f) = n + 1 /\ f[n + 1] = k /\ f # << >> /\ \A i \in 1..n : f[i] = e[i]
  BY <1>1, AppendProperties
<1> HIDE DEF f, n
<1>3. DOMAIN f = 1..(n + 1)
  BY <1>1, <1>2
<1>4. \A i \in DOMAIN e : f[i] = e[i] /\ i \in 1..n /\ i \in DOMAIN f
  BY <1>1, <1>2, <1>3
<1>5. \A i \in DOMAIN f : i \in DOMAIN e \/ i = n + 1
  BY <1>1, <1>3
<1>6. automaton(f, NEXT_PLANE_KINDS_L2)
  <2>1. ASSUME NEW i \in DOMAIN f
        PROVE  f[i] \in NEXT_PLANE_KINDS_L2(IF i = 1 THEN "START" ELSE f[i - 1])
    <3>1. CASE i = n + 1
      <4>1. n \in DOMAIN e /\ i # 1 /\ i - 1 = n
        BY <1>1, <3>1
      <4>2. f[i - 1] = last
        BY <1>1, <1>4, <4>1
      <4> QED
        BY <1>2, <3>1, <4>1, <4>2
    <3>2. CASE i \in DOMAIN e /\ i = 1
      BY <1>4, <3>2 DEF Stream, automaton
    <3>3. CASE i \in DOMAIN e /\ i # 1
      <4>1. i - 1 \in DOMAIN e
        BY <1>1, <3>3
      <4>2. e[i] \in NEXT_PLANE_KINDS_L2(e[i - 1])
        BY <3>3 DEF Stream, automaton
      <4> QED
        BY <1>4, <3>3, <4>1, <4>2
    <3> QED
      BY <1>5, <3>1, <3>2, <3>3
  <2> QED
    BY <2>1 DEF automaton
<1>7. \A i, j \in DOMAIN f : f[i] = f[j] => i = j
  <2>1. \A i \in DOMAIN e : f[i] # k
    BY <1>4 DEF Stream
  <2> QED
    BY <1>2, <1>4, <1>5, <2>1 DEF Stream
<1>8. \A i \in DOMAIN f : f[i] \in seen \union {k}
  BY <1>2, <1>4, <1>5 DEF Stream
<1>9. \A x \in seen \union {k} : \E i \in DOMAIN f : f[i] = x
  <2>1. n + 1 \in DOMAIN f
    BY <1>1, <1>3
  <2> QED
    BY <1>2, <1>4, <2>1 DEF Stream
<1> QED
  BY <1>2, <1>6, <1>7, <1>8, <1>9 DEF Stream, f

LEMMA StreamHas ==
  ASSUME NEW q, NEW seen, NEW last, Stream(q.events, seen, last), NEW k
  PROVE  Has(q, k) <=> k \in seen
<1>1. DOMAIN q.events = 1..Len(q.events)
  BY DEF Stream
<1> QED
  BY <1>1 DEF Stream, Has, Contains

\* How often kinds of a set occur: as often as they are among the kinds seen.
LEMMA StreamCounts ==
  ASSUME NEW e, NEW seen, NEW last, Stream(e, seen, last), NEW kinds
  PROVE  /\ seen \cap kinds = {} => {i \in DOMAIN e : e[i] \in kinds} = {}
         /\ \A k : seen \cap kinds = {k} =>
                /\ {i \in DOMAIN e : e[i] \in kinds} # {}
                /\ Cardinality({i \in DOMAIN e : e[i] \in kinds}) = 1
<1>1. seen \cap kinds = {} => {i \in DOMAIN e : e[i] \in kinds} = {}
  BY DEF Stream
<1>2. ASSUME NEW k, seen \cap kinds = {k}
      PROVE  /\ {i \in DOMAIN e : e[i] \in kinds} # {}
             /\ Cardinality({i \in DOMAIN e : e[i] \in kinds}) = 1
  <2>1. PICK i \in DOMAIN e : e[i] = k
    BY <1>2 DEF Stream
  <2>2. {j \in DOMAIN e : e[j] \in kinds} = {i}
    <3>1. \A j \in DOMAIN e : e[j] \in kinds => j = i
      BY <1>2, <2>1 DEF Stream
    <3>2. e[i] \in kinds
      BY <1>2, <2>1
    <3> QED
      BY <2>1, <3>1, <3>2
  <2>3. Cardinality({i}) = 1
    BY FS_Singleton
  <2> QED
    BY <2>2, <2>3
<1> QED
  BY <1>1, <1>2

LEMMA Successors ==
  /\ "L1_ENTERED" \in NEXT_PLANE_KINDS_L2("INGRESS_ACCEPTED")
  /\ \A v \in Verdicts : v \in NEXT_PLANE_KINDS_L2("L1_ENTERED")
  /\ "L2_ENTERED" \in NEXT_PLANE_KINDS_L2("L1_PASSED")
  /\ "L2_DECIDED" \in NEXT_PLANE_KINDS_L2("L2_ENTERED")
  /\ "EGRESS_ATTEMPTED" \in NEXT_PLANE_KINDS_L2("L2_DECIDED")
  /\ "PROOF_ISSUED" \in NEXT_PLANE_KINDS_L2("EGRESS_ATTEMPTED")
  /\ "EGRESS_FAILED" \in NEXT_PLANE_KINDS_L2("EGRESS_ATTEMPTED")
  /\ "EGRESS_FAILED" \in NEXT_PLANE_KINDS_L2("PROOF_ISSUED")
  /\ "EGRESS_RESPONDED" \in NEXT_PLANE_KINDS_L2("PROOF_ISSUED")
  /\ Dispositions \subseteq NEXT_PLANE_KINDS_L2("EGRESS_RESPONDED")
  /\ "L2_ENROLL_SKIPPED" \in NEXT_PLANE_KINDS_L2("EGRESS_FAILED")
  /\ \A k \in Settling \union Dispositions : Terminals \subseteq NEXT_PLANE_KINDS_L2(k)
BY DEF NEXT_PLANE_KINDS_L2, Terminals, Verdicts, Dispositions, Settling, L1Refusals

\* The request of the invariant's members, and what an answer leaves alone.
LEMMA AnswerSettles ==
  ASSUME NEW q \in RequestType, NEW status \in Nat
  PROVE  /\ Answer(q, status) \in RequestType
         /\ Answer(q, status).pc = "closing"
         /\ Answer(q, status).status = IF q.up THEN status ELSE q.status
         /\ \A a \in {"class", "form", "body", "arm", "up", "simulated", "decision", "observed",
                      "skipReason", "upstream", "failed", "flushed", "events"} : Answer(q, status)[a] = q[a]
<1> DEFINE s == IF q.up THEN status ELSE q.status
<1>1. s \in Nat
  BY DEF RequestType
<1>2. Answer(q, status) = [q EXCEPT !.pc = "closing", !.status = s]
  BY DEF Answer
<1> HIDE DEF s
<1>3. "closing" \in Stages
  BY DEF Stages
<1>4. /\ [q EXCEPT !.pc = "closing", !.status = s] \in RequestType
      /\ [q EXCEPT !.pc = "closing", !.status = s].pc = "closing"
      /\ [q EXCEPT !.pc = "closing", !.status = s].status = s
      /\ \A a \in {"class", "form", "body", "arm", "up", "simulated", "decision", "observed",
                   "skipReason", "upstream", "failed", "flushed", "events"} :
            [q EXCEPT !.pc = "closing", !.status = s][a] = q[a]
  BY <1>1, <1>3 DEF RequestType
<1> QED
  BY <1>2, <1>4 DEF s

LEMMA EmitAppends ==
  ASSUME NEW q \in RequestType, NEW k \in EventKinds
  PROVE  /\ Emit(q, k) \in RequestType
         /\ Emit(q, k).events = Append(q.events, k)
         /\ \A a \in {"pc", "class", "form", "body", "arm", "up", "simulated", "decision", "observed",
                      "skipReason", "upstream", "failed", "flushed", "status"} : Emit(q, k)[a] = q[a]
<1>1. Append(q.events, k) \in Seq(EventKinds)
  BY AppendProperties DEF RequestType
<1> QED
  BY <1>1 DEF Emit, RequestType

-----------------------------------------------------------------------------
(* What each part of the handler makes of its request                      *)

Same(p, q, fields) == \A a \in fields : p[a] = q[a]

\* The same, but for what was emitted; the same, but for the answer.
Extends(p, q) ==
  Same(p, q, {"pc", "class", "form", "body", "arm", "up", "simulated", "decision", "observed",
              "skipReason", "upstream", "failed", "flushed", "status"})
Answers(p, q) ==
  Same(p, q, {"class", "form", "body", "arm", "up", "simulated", "decision", "observed",
              "skipReason", "upstream", "failed", "flushed", "events"})

LEMMA EmitGrows ==
  ASSUME NEW q \in RequestType, NEW seen, NEW last, Stream(q.events, seen, last),
         NEW k \in EventKinds, k \notin seen, k \in NEXT_PLANE_KINDS_L2(last)
  PROVE  /\ Emit(q, k) \in RequestType /\ Extends(Emit(q, k), q)
         /\ Stream(Emit(q, k).events, seen \union {k}, k)
<1>1. /\ Emit(q, k) \in RequestType /\ Emit(q, k).events = Append(q.events, k)
      /\ Extends(Emit(q, k), q)
  BY EmitAppends DEF Extends, Same
<1>2. Stream(Append(q.events, k), seen \union {k}, k)
  BY StreamGrows
<1> QED
  BY <1>1, <1>2

LEMMA AnswerCloses ==
  ASSUME NEW q \in RequestType, NEW status \in Nat, NEW p, p = Answer(q, status)
  PROVE  p \in RequestType /\ p.pc = "closing" /\ Answers(p, q) /\ (p.up => p.status = status)
<1>1. /\ Answer(q, status) \in RequestType /\ Answer(q, status).pc = "closing"
      /\ Answer(q, status).status = IF q.up THEN status ELSE q.status
      /\ Answers(Answer(q, status), q)
  BY AnswerSettles DEF Answers, Same
<1>2. p \in RequestType /\ p.pc = "closing" /\ Answers(p, q)
  BY <1>1
<1>3. p.status = IF q.up THEN status ELSE q.status
  BY <1>1
<1>4. p.up = q.up
  BY <1>2 DEF Answers, Same
<1> QED
  BY <1>2, <1>3, <1>4

LEMMA ClosingStory ==
  ASSUME NEW q \in RequestType, q.form => q.class = "open", Explained(q.decision), q.pc = "closing",
         NEW last \in Settling, NEW before \in Before(last),
         Answered(q, last), Closing(q, before \union {last}, last)
  PROVE  StoryInv(q)
BY DEF StoryInv

LEMMA AcceptStory ==
  ASSUME NEW q, StoryInv(q), q.pc = "idle",
         NEW kind \in [class : Classes, form : BOOLEAN, arm : Arms, body : Bodies],
         kind.form => kind.class = "open",
         NEW p, p = [Emit(q, "INGRESS_ACCEPTED") EXCEPT
                       !.pc = IF kind.body = "pending" THEN "body" ELSE "l1",
                       !.class = kind.class, !.form = kind.form, !.body = kind.body, !.arm = kind.arm]
  PROVE  StoryInv(p)
<1> DEFINE e == Emit(q, "INGRESS_ACCEPTED")
           pc == IF kind.body = "pending" THEN "body" ELSE "l1"
<1>1. "INGRESS_ACCEPTED" \in EventKinds /\ pc \in Stages /\ pc \in {"body", "l1"}
  BY DEF EventKinds, Stages
<1>2. /\ q \in RequestType /\ q.events = << >> /\ ~q.simulated /\ Untouched(q) /\ ~q.flushed
      /\ Explained(q.decision)
  BY DEF StoryInv
<1>3. /\ e \in RequestType /\ e.events = Append(q.events, "INGRESS_ACCEPTED")
      /\ e.simulated = q.simulated /\ e.observed = q.observed /\ e.decision = q.decision
      /\ e.flushed = q.flushed
  BY <1>1, <1>2, EmitAppends
<1> HIDE DEF e, pc
<1>4. /\ p \in RequestType /\ p.pc = pc /\ p.class = kind.class /\ p.form = kind.form
      /\ Same(p, e, {"simulated", "observed", "decision", "flushed", "events"})
  <2>1. p = [e EXCEPT !.pc = pc, !.class = kind.class, !.form = kind.form, !.body = kind.body, !.arm = kind.arm]
    BY DEF e, pc
  <2>2. /\ kind.class \in Classes /\ kind.form \in BOOLEAN /\ kind.arm \in Arms /\ kind.body \in Bodies
    OBVIOUS
  <2>3. [e EXCEPT !.pc = pc, !.class = kind.class] \in RequestType
    BY <1>1, <1>3, <2>2 DEF RequestType
  <2>4. \A d \in RequestType : [d EXCEPT !.form = kind.form, !.body = kind.body, !.arm = kind.arm] \in RequestType
    BY <2>2 DEF RequestType
  <2> QED
    BY <1>3, <2>1, <2>3 DEF RequestType, Same
<1>5. Stream(p.events, {"INGRESS_ACCEPTED"}, "INGRESS_ACCEPTED")
  <2>1. Stream(Append(q.events, "INGRESS_ACCEPTED"), {"INGRESS_ACCEPTED"}, "INGRESS_ACCEPTED")
    BY <1>2, StreamStarts
  <2> QED
    BY <1>3, <1>4, <2>1 DEF Same
<1> QED
  BY <1>1, <1>2, <1>3, <1>4, <1>5 DEF StoryInv, Untouched, Same

LEMMA ReadStory ==
  ASSUME NEW q, StoryInv(q), q.pc = "body", NEW status \in {"complete", "incomplete"},
         NEW p, p = [q EXCEPT !.pc = "l1", !.body = status]
  PROVE  StoryInv(p)
<1>1. q \in RequestType
  BY DEF StoryInv
<1>2. p \in RequestType
  <2>1. "l1" \in Stages /\ status \in Bodies
    BY DEF Stages, Bodies
  <2>2. [q EXCEPT !.pc = "l1", !.body = status] \in RequestType
    BY <1>1, <2>1 DEF RequestType
  <2> QED
    BY <2>2
<1>3. /\ p.pc = "l1"
      /\ Same(p, q, {"class", "form", "simulated", "observed", "decision", "flushed", "events"})
  BY <1>1 DEF RequestType, Same
<1> QED
  BY <1>2, <1>3 DEF StoryInv, Untouched, Same

\* A request that the first layer is about to judge.
AtVerdict(q) ==
  /\ q \in RequestType /\ (q.form => q.class = "open") /\ q.pc \in {"l1", "l1_runs"}
  /\ ~q.simulated /\ Untouched(q) /\ Explained(q.decision) /\ ~q.flushed
  /\ Stream(q.events, AtL1, "L1_ENTERED")

LEMMA EnteredL1 ==
  ASSUME NEW q, StoryInv(q), q.pc = "l1"
  PROVE  AtVerdict(Emit(q, "L1_ENTERED"))
<1> DEFINE e == Emit(q, "L1_ENTERED")
<1>1. "L1_ENTERED" \in EventKinds
  BY DEF EventKinds
<1>2. q \in RequestType /\ Stream(q.events, {"INGRESS_ACCEPTED"}, "INGRESS_ACCEPTED")
  BY DEF StoryInv
<1>3. /\ e \in RequestType /\ e.events = Append(q.events, "L1_ENTERED")
      /\ Same(e, q, {"pc", "class", "form", "simulated", "observed", "decision", "flushed"})
  BY <1>1, <1>2, EmitAppends DEF Same
<1>4. Stream(e.events, AtL1, "L1_ENTERED")
  BY <1>1, <1>2, <1>3, StreamGrows, Successors DEF AtL1
<1> HIDE DEF e
<1>5. AtVerdict(e)
  BY <1>3, <1>4 DEF StoryInv, AtVerdict, Untouched, Same
<1> QED
  BY <1>5 DEF e

\* A refusal by the first layer.
LEMMA RefusedStory ==
  ASSUME NEW q, AtVerdict(q), NEW verdict \in L1Refusals, NEW status \in Nat,
         status = IF verdict = "L1_REJECTED" THEN 400 ELSE 503
  PROVE  StoryInv(Answer(Emit(q, verdict), status))
<1> DEFINE e == Emit(q, verdict)
           p == Answer(e, status)
<1>1. verdict \in EventKinds /\ verdict \in Verdicts /\ verdict \notin AtL1
  BY DEF EventKinds, Verdicts, L1Refusals, AtL1
<1>2. q \in RequestType /\ Stream(q.events, AtL1, "L1_ENTERED")
  BY DEF AtVerdict
<1>3. /\ e \in RequestType /\ e.events = Append(q.events, verdict)
      /\ Same(e, q, {"class", "form", "up", "simulated", "observed", "decision", "flushed"})
  BY <1>1, <1>2, EmitAppends DEF Same
<1>4. Stream(e.events, AtL1 \union {verdict}, verdict)
  BY <1>1, <1>2, <1>3, StreamGrows, Successors
<1> HIDE DEF e
<1>5. /\ p \in RequestType /\ p.pc = "closing" /\ p.status = IF e.up THEN status ELSE e.status
      /\ Same(p, e, {"class", "form", "up", "simulated", "observed", "decision", "flushed", "events"})
  BY <1>3, AnswerSettles DEF Same
<1> HIDE DEF p
<1>6. verdict \in Settling /\ AtL1 \in Before(verdict) /\ ~ReachedEgress(verdict) /\ verdict # "L2_DECIDED"
  BY DEF Settling, Before, L1Refusals, ReachedEgress
<1>7. /\ p.observed = "none" /\ ~p.flushed /\ (p.form => p.class = "open") /\ p.events = e.events
      /\ p.decision = NoDecision /\ Explained(p.decision)
  BY <1>3, <1>5 DEF AtVerdict, Untouched, Same
<1>8. p.up => p.status = status
  BY <1>5 DEF Same
<1>9. Answered(p, verdict)
  BY <1>6, <1>7, <1>8 DEF Answered, Owed, L1Refusals
<1>10. Closing(p, AtL1 \union {verdict}, verdict)
  BY <1>4, <1>6, <1>7 DEF Closing, Pending
<1>11. StoryInv(p)
  BY <1>5, <1>6, <1>7, <1>9, <1>10, ClosingStory
<1> QED
  BY <1>11 DEF p, e

LEMMA AfterL1Story ==
  ASSUME NEW q, AtVerdict(q), NEW outcome \in {"pass", "reject", "shed", "error"}
  PROVE  StoryInv(AfterL1(q, outcome))
<1>1. CASE outcome = "pass" \/ SimulatesL1(q, outcome)
  <2> DEFINE s == SimulatesL1(q, outcome)
             e == Emit(q, "L1_PASSED")
             f == Emit(e, "L2_ENTERED")
             p == [f EXCEPT !.pc = "l2", !.simulated = s]
  <2>1. "L1_PASSED" \in EventKinds /\ "L2_ENTERED" \in EventKinds /\ "L1_PASSED" \in Verdicts
    BY DEF EventKinds, Verdicts
  <2>2. q \in RequestType /\ Stream(q.events, AtL1, "L1_ENTERED")
    BY DEF AtVerdict
  <2>3. /\ e \in RequestType /\ e.events = Append(q.events, "L1_PASSED")
        /\ Same(e, q, {"class", "form", "observed", "decision", "flushed"})
    BY <2>1, <2>2, EmitAppends DEF Same
  <2>4. Stream(e.events, AtL1 \union {"L1_PASSED"}, "L1_PASSED")
    <3>1. "L1_PASSED" \notin AtL1
      BY DEF AtL1
    <3> QED
      BY <2>1, <2>2, <2>3, <3>1, StreamGrows, Successors
  <2> HIDE DEF e
  <2>5. /\ f \in RequestType /\ f.events = Append(e.events, "L2_ENTERED")
        /\ Same(f, e, {"class", "form", "observed", "decision", "flushed"})
    <3>1. e \in RequestType
      BY ONLY <2>3
    <3> HIDE DEF s, p
    <3>2. /\ f \in RequestType /\ f.events = Append(e.events, "L2_ENTERED") /\ Extends(f, e)
      BY ONLY <2>1, <3>1, EmitAppends DEF Extends, Same, f
    <3> HIDE DEF f
    <3> QED
      BY ONLY <3>2 DEF Extends, Same
  <2>6. Stream(f.events, AtL2, "L2_ENTERED")
    <3>1. "L2_ENTERED" \notin AtL1 \union {"L1_PASSED"}
      BY DEF AtL1
    <3> QED
      BY <2>1, <2>4, <2>5, <3>1, StreamGrows, Successors DEF AtL2
  <2> HIDE DEF f
  <2>7. s \in BOOLEAN /\ "l2" \in Stages
    BY DEF SimulatesL1, Stages
  <2>8. AfterL1(q, outcome) = p
    BY <1>1 DEF AfterL1, e, f
  <2> HIDE DEF s
  <2>9. /\ p \in RequestType /\ p.pc = "l2"
        /\ Same(p, f, {"class", "form", "observed", "decision", "flushed", "events"})
    BY <2>5, <2>7 DEF RequestType, Same
  <2> HIDE DEF p
  <2>10. StoryInv(p)
    BY <2>3, <2>5, <2>6, <2>9 DEF StoryInv, AtVerdict, Untouched, Same
  <2> QED
    BY <2>8, <2>10
<1>2. CASE ~(outcome = "pass" \/ SimulatesL1(q, outcome))
  <2>1. CASE outcome = "reject"
    <3>1. AfterL1(q, outcome) = Answer(Emit(q, "L1_REJECTED"), 400)
      BY <1>2, <2>1 DEF AfterL1
    <3> QED
      BY <3>1, RefusedStory DEF L1Refusals
  <2>2. CASE outcome = "shed"
    <3>1. AfterL1(q, outcome) = Answer(Emit(q, "L1_SHED"), 503)
      BY <1>2, <2>2 DEF AfterL1
    <3> QED
      BY <3>1, RefusedStory DEF L1Refusals
  <2>3. CASE outcome = "error"
    <3>1. AfterL1(q, outcome) = Answer(Emit(q, "L1_ERROR"), 503)
      BY <1>2, <2>3 DEF AfterL1
    <3> QED
      BY <3>1, RefusedStory DEF L1Refusals
  <2> QED
    BY <1>2, <2>1, <2>2, <2>3
<1> QED
  BY <1>1, <1>2

\* Both ways on from L1 begin with a verdict, and an evaluation that starts changes the point only.
LEMMA StageStory ==
  ASSUME NEW q, NEW p,
         \/ AtVerdict(q) /\ p = [q EXCEPT !.pc = "l1_runs"]
         \/ StoryInv(q) /\ q.pc = "l2" /\ p = [q EXCEPT !.pc = "l2_runs"]
  PROVE  StoryInv(p)
<1>1. q \in RequestType
  BY DEF AtVerdict, StoryInv
<1>2. \A pc \in Stages :
         /\ [q EXCEPT !.pc = pc] \in RequestType /\ [q EXCEPT !.pc = pc].pc = pc
         /\ Same([q EXCEPT !.pc = pc], q,
                 {"class", "form", "simulated", "observed", "decision", "flushed", "events"})
  BY <1>1 DEF RequestType, Same
<1>3. "l1_runs" \in Stages /\ "l2_runs" \in Stages
  BY DEF Stages
<1>4. CASE AtVerdict(q) /\ p = [q EXCEPT !.pc = "l1_runs"]
  <2>1. /\ p \in RequestType /\ p.pc = "l1_runs"
        /\ Same(p, q, {"class", "form", "simulated", "observed", "decision", "flushed", "events"})
    BY <1>2, <1>3, <1>4
  <2> QED
    BY <1>4, <2>1 DEF StoryInv, AtVerdict, Untouched, Same
<1>5. CASE StoryInv(q) /\ q.pc = "l2" /\ p = [q EXCEPT !.pc = "l2_runs"]
  <2>1. /\ p \in RequestType /\ p.pc = "l2_runs"
        /\ Same(p, q, {"class", "form", "simulated", "observed", "decision", "flushed", "events"})
    BY <1>2, <1>3, <1>5
  <2> QED
    BY <1>5, <2>1 DEF StoryInv, Untouched, Same
<1> QED
  BY <1>4, <1>5

\* Everything the second layer can decide, and what the fields of such a decision say of each other.
Deciding(class) == LaneDecisions(class) \union Discarded(class) \union {failureDecision(class, "saturation")}

Shaped(class, d) ==
  /\ d \in Decisions /\ isValidDecision(class, d) /\ d.shadow = Natural
  /\ d.lane \in BucketLanes => d.numbered
  /\ d.lane = "open" => ~d.numbered
  /\ d.lane = "none" /\ d.outcome = "shed" => ~d.numbered
  /\ d.tag <=> d.lane = "credited" /\ d.outcome = "admitted"
  /\ d.touched # "none" => d.lane = "none" /\ d.outcome = "error"
  /\ d.spent # "none" => \/ d.lane = "none" /\ d.outcome = "error"
                         \/ d.lane = "open" /\ d.outcome = "degraded" /\ d.spent = "open"

LEMMA DecisionFields ==
  ASSUME NEW lane \in Lanes, NEW outcome \in Outcomes
  PROVE  /\ Decision(lane, outcome) \in Decisions
         /\ Decision(lane, outcome).lane = lane /\ Decision(lane, outcome).outcome = outcome
         /\ Decision(lane, outcome).numbered <=> lane \in BucketLanes
         /\ Decision(lane, outcome).tag <=> lane = "credited" /\ outcome = "admitted"
         /\ Decision(lane, outcome).spent = "none" /\ Decision(lane, outcome).touched = "none"
         /\ Decision(lane, outcome).shadow = Natural
<1>1. Natural \in Outcomes \X Lanes /\ "none" \in Lanes
  BY DEF Natural, Outcomes, Lanes
<1>2. (lane \in BucketLanes) \in BOOLEAN /\ (lane = "credited" /\ outcome = "admitted") \in BOOLEAN
  OBVIOUS
<1> QED
  BY <1>1, <1>2 DEF Decision, Decisions

LEMMA NoDecisionIsExplained ==
  NoDecision \in Decisions /\ Explained(NoDecision) /\ ~Disputed(NoDecision) /\ FieldsAccepted(NoDecision)
<1>1. "none" \in Lanes /\ "none" \in Outcomes /\ "none" \notin BucketLanes
  BY DEF Lanes, Outcomes, BucketLanes
<1>2. /\ NoDecision \in Decisions /\ NoDecision.lane = "none" /\ NoDecision.outcome = "none"
      /\ ~NoDecision.tag /\ NoDecision.spent = "none" /\ NoDecision.touched = "none"
      /\ NoDecision.shadow = Natural
  BY <1>1, DecisionFields DEF NoDecision
<1>3. <<"none", "none">> # <<"shed", "none">> /\ <<"none", "none">> # <<"shed", "credited">>
  OBVIOUS
<1> HIDE DEF NoDecision
<1>4. FieldsAccepted(NoDecision)
  BY <1>1, <1>2 DEF FieldsAccepted
<1>5. ~Disputed(NoDecision)
  BY <1>2, <1>3 DEF Disputed, DiscardedOpen, OverriddenSaturation, OverriddenCredit, Natural
<1> QED
  BY <1>2, <1>4, <1>5 DEF Explained

\* A decision as the lanes or a failure make it.
LEMMA MadeIsShaped ==
  ASSUME NEW class \in Classes, NEW lane \in Lanes, NEW outcome \in Outcomes,
         IF class = "open" THEN lane = "open" /\ outcome \in {"admitted", "degraded"}
         ELSE \/ lane \in BucketLanes /\ outcome \in {"admitted", "shed"}
              \/ lane = "none" /\ outcome \in {"shed", "error"}
  PROVE  Shaped(class, Decision(lane, outcome))
<1> DEFINE d == Decision(lane, outcome)
<1>1. /\ d \in Decisions /\ d.lane = lane /\ d.outcome = outcome
      /\ d.numbered <=> lane \in BucketLanes
      /\ d.tag <=> lane = "credited" /\ outcome = "admitted"
      /\ d.spent = "none" /\ d.touched = "none" /\ d.shadow = Natural
  BY DecisionFields
<1> HIDE DEF d
<1>2. isValidDecision(class, d)
  BY <1>1 DEF isValidDecision, proceeds
<1>3. "open" \notin BucketLanes /\ "none" \notin BucketLanes
  BY DEF BucketLanes
<1>4. Shaped(class, d)
  BY <1>1, <1>2, <1>3 DEF Shaped
<1> QED
  BY <1>4 DEF d

\* The lanes' decisions and the failures, each by its lane and outcome.
LEMMA MadeDecisions ==
  ASSUME NEW class \in Classes,
         NEW d, d \in LaneDecisions(class) \/ \E f \in {"timeout", "saturation"} : d = failureDecision(class, f)
  PROVE  \E lane \in Lanes, outcome \in Outcomes :
            /\ d = Decision(lane, outcome)
            /\ IF class = "open" THEN lane = "open" /\ outcome \in {"admitted", "degraded"}
               ELSE \/ lane \in BucketLanes /\ outcome \in {"admitted", "shed"}
                    \/ lane = "none" /\ outcome \in {"shed", "error"}
<1>1. CASE d \in LaneDecisions(class) /\ class = "open"
  <2>1. d = Decision("open", "admitted")
    BY <1>1 DEF LaneDecisions
  <2> QED
    BY <1>1, <2>1 DEF Lanes, Outcomes
<1>2. CASE d \in LaneDecisions(class) /\ class = "mutation"
  <2>1. \/ d = Decision("none", "error")
        \/ \E lane \in BucketLanes, outcome \in {"admitted", "shed"} : d = Decision(lane, outcome)
    BY <1>2 DEF LaneDecisions
  <2> QED
    BY <1>2, <2>1 DEF Lanes, Outcomes
<1>3. CASE d \in LaneDecisions(class) /\ class = "unknown"
  <2>1. \E outcome \in {"admitted", "shed"} : d = Decision("unverified", outcome)
    BY <1>3 DEF LaneDecisions
  <2>2. "unverified" \in BucketLanes
    BY DEF BucketLanes
  <2> QED
    BY <1>3, <2>1, <2>2 DEF Lanes, Outcomes
<1>4. CASE \E f \in {"timeout", "saturation"} : d = failureDecision(class, f)
  <2>1. \/ class = "open" /\ d = Decision("open", "degraded")
        \/ class # "open" /\ d = Decision("none", "shed")
        \/ class # "open" /\ d = Decision("none", "error")
    BY <1>4 DEF failureDecision
  <2> QED
    BY <2>1 DEF Lanes, Outcomes
<1> QED
  BY <1>1, <1>2, <1>3, <1>4 DEF Classes

\* A discarded decision keeps what it took from its lane, and no lane sheds an open request.
LEMMA DiscardedIsShaped ==
  ASSUME NEW class \in Classes, NEW made \in LaneDecisions(class) \union {NoDecision}
  PROVE  Shaped(class, discard(class, made))
<1> DEFINE d == discard(class, made)
           f == failureDecision(class, "timeout")
<1>1. /\ made.lane \in Lanes /\ made.numbered \in BOOLEAN /\ "none" \in Lanes
      /\ class = "open" => /\ ~made.numbered /\ made.outcome # "shed"
                           /\ made.outcome = "admitted" => made.lane = "open"
  <2>1. CASE made \in LaneDecisions(class)
    <3>1. Shaped(class, made)
      BY <2>1, MadeDecisions, MadeIsShaped
    <3> QED
      BY <3>1 DEF Shaped, Decisions, isValidDecision, proceeds, Lanes
  <2>2. CASE made = NoDecision
    <3>1. "none" \in Lanes /\ "none" \in Outcomes /\ "none" \notin BucketLanes
      BY DEF Lanes, Outcomes, BucketLanes
    <3>2. /\ made \in Decisions /\ made.lane = "none" /\ made.outcome = "none"
          /\ made.numbered <=> "none" \in BucketLanes
      BY <2>2, <3>1, DecisionFields DEF NoDecision
    <3> QED
      BY <3>1, <3>2 DEF Decisions
  <2> QED
    BY <2>1, <2>2
<1>2. /\ f \in Decisions /\ isValidDecision(class, f) /\ f.shadow = Natural /\ ~f.tag
      /\ \/ class = "open" /\ f.lane = "open" /\ f.outcome = "degraded"
         \/ class # "open" /\ f.lane = "none" /\ f.outcome = "error"
  <2>1. Shaped(class, f)
    BY MadeDecisions, MadeIsShaped
  <2>2. \/ class = "open" /\ f = Decision("open", "degraded")
        \/ class # "open" /\ f = Decision("none", "error")
    BY DEF failureDecision
  <2>3. \/ class = "open" /\ f.lane = "open" /\ f.outcome = "degraded"
        \/ class # "open" /\ f.lane = "none" /\ f.outcome = "error"
    BY <2>2, DecisionFields DEF Lanes, Outcomes
  <2> HIDE DEF f
  <2> QED
    BY <2>1, <2>3 DEF Shaped
<1> DEFINE spent == IF made.outcome = "admitted" THEN made.lane ELSE "none"
           touched == IF made.outcome = "shed" THEN made.lane ELSE "none"
<1>3. d = [f EXCEPT !.numbered = made.numbered, !.spent = spent, !.touched = touched]
  BY DEF discard
<1>4. /\ spent \in Lanes /\ touched \in Lanes
      /\ class = "open" => spent \in {"none", "open"} /\ touched = "none"
  BY <1>1
<1> HIDE DEF d, f, spent, touched
<1>5. /\ d \in Decisions /\ d.lane = f.lane /\ d.outcome = f.outcome /\ d.tag = f.tag /\ d.shadow = f.shadow
      /\ d.numbered = made.numbered /\ d.spent = spent /\ d.touched = touched
  BY <1>1, <1>2, <1>3, <1>4 DEF Decisions
<1>6. isValidDecision(class, d)
  BY <1>2, <1>5 DEF isValidDecision, proceeds
<1>7. d.lane \notin BucketLanes
  BY <1>2, <1>5 DEF BucketLanes
<1>8. Shaped(class, d)
  BY <1>1, <1>2, <1>4, <1>5, <1>6, <1>7 DEF Shaped
<1> QED
  BY <1>8 DEF d

LEMMA DecisionsAreShaped ==
  ASSUME NEW class \in Classes, NEW d \in Deciding(class)
  PROVE  Shaped(class, d)
<1>1. CASE d \in LaneDecisions(class) \union {failureDecision(class, "saturation")}
  BY <1>1, MadeDecisions, MadeIsShaped
<1>2. CASE d \in Discarded(class)
  BY <1>2, DiscardedIsShaped DEF Discarded
<1> QED
  BY <1>1, <1>2 DEF Deciding

\* The override leaves a decision of the class, and what the validator does not allow is disputed.
LEMMA DeliveredIsValid ==
  ASSUME NEW q \in RequestType, NEW d, Shaped(q.class, d)
  PROVE  /\ Delivered(q, d) \in Decisions /\ isValidDecision(q.class, Delivered(q, d))
         /\ Explained(Delivered(q, d))
<1>1. CASE ~SimulatesL2(q, d)
  <2>1. Delivered(q, d) = d
    BY <1>1 DEF Delivered
  <2>2. Disputed(d) <=> d.lane = "open" /\ d.spent = "open"
    BY DEF Shaped, Disputed, DiscardedOpen, OverriddenSaturation, OverriddenCredit, Natural
  <2>3. FieldsAccepted(d) <=> ~(d.lane = "open" /\ d.spent = "open")
    BY DEF Shaped, FieldsAccepted
  <2> QED
    BY <2>1, <2>2, <2>3 DEF Shaped, Explained
<1>2. CASE SimulatesL2(q, d)
  <2> DEFINE lane == IF d.lane = "none" THEN "unverified" ELSE d.lane
             shadow == <<d.outcome, d.lane>>
             v == Delivered(q, d)
  <2>1. v = [d EXCEPT !.lane = lane, !.outcome = "admitted", !.shadow = shadow]
    BY <1>2 DEF Delivered
  <2>2. /\ lane \in Lanes /\ "admitted" \in Outcomes /\ shadow \in Outcomes \X Lanes /\ d \in Decisions
        /\ d.outcome \in {"admitted", "shed"}
    BY <1>2 DEF Shaped, Decisions, Lanes, Outcomes, SimulatesL2, BucketLanes
  <2> HIDE DEF v, lane, shadow
  <2>3. /\ v \in Decisions /\ v.lane = lane /\ v.outcome = "admitted" /\ v.shadow = shadow
        /\ v.numbered = d.numbered /\ v.tag = d.tag /\ v.spent = d.spent /\ v.touched = d.touched
    BY <2>1, <2>2 DEF Decisions
  <2>4. /\ q.class = "open" => d.lane = "open" /\ d.outcome = "admitted"
        /\ q.class # "open" => d.lane \in BucketLanes \/ (d.lane = "none" /\ d.outcome = "shed")
        /\ d.spent = "none" /\ d.touched = "none"
    BY <2>2 DEF Shaped, isValidDecision, proceeds
  <2>5. isValidDecision(q.class, v)
    BY <2>3, <2>4 DEF isValidDecision, proceeds, lane, BucketLanes
  <2>6. Disputed(v) <=> d.outcome = "shed" /\ d.lane \in {"none", "credited"}
    BY <2>2, <2>3, <2>4 DEF Disputed, DiscardedOpen, OverriddenSaturation, OverriddenCredit, shadow
  <2>7. FieldsAccepted(v) <=> ~(d.outcome = "shed" /\ d.lane \in {"none", "credited"})
    <3>1. v.lane = "credited" <=> d.lane = "credited"
      BY <2>3 DEF lane
    <3>2. v.lane \in BucketLanes => (v.numbered <=> d.lane # "none")
      BY <2>2, <2>3, <2>4 DEF lane, Shaped, BucketLanes
    <3>3. v.lane = "open" => ~v.numbered
      BY <2>3 DEF lane, Shaped
    <3>4. d.lane = "none" => v.lane \in BucketLanes
      BY <2>3 DEF lane, BucketLanes
    <3>5. v.tag <=> d.lane = "credited" /\ d.outcome = "admitted"
      BY <2>3 DEF Shaped
    <3>6. v.spent = "none" /\ v.touched = "none"
      BY <2>3, <2>4
    <3>7. (v.lane \in BucketLanes => v.numbered) <=> d.lane # "none"
      BY <3>2, <3>4 DEF BucketLanes, lane, Shaped
    <3>8. v.lane = "credited" /\ v.outcome = "admitted" <=> d.lane = "credited"
      BY <2>3, <3>1
    <3>9. FieldsAccepted(v) <=> d.lane # "none" /\ (d.lane = "credited" <=> d.lane = "credited" /\ d.outcome = "admitted")
      BY <3>3, <3>5, <3>6, <3>7, <3>8 DEF FieldsAccepted
    <3>10. d.lane = "none" => d.outcome = "shed"
      BY <2>4 DEF BucketLanes
    <3> QED
      BY ONLY <2>2, <3>9, <3>10
  <2>8. Explained(v)
    BY <2>6, <2>7 DEF Explained
  <2> QED
    BY <2>3, <2>5, <2>8 DEF v
<1> QED
  BY <1>1, <1>2

LEMMA ObserveDepends ==
  ASSUME NEW p, NEW q, p.form = q.form, p.decision = q.decision, p.simulated = q.simulated
  PROVE  observe(p) = observe(q)
BY DEF observe

LEMMA ObserveValue ==
  ASSUME NEW q \in RequestType
  PROVE  /\ observe(q) \in Observations /\ observe(q) \in {"none", "degraded", "simulated", "waiting"}
         /\ observe(q) = "none" <=> ~q.form
         /\ q.form => SkipAccepted(q.decision, q.simulated, ReasonFor(observe(q)))
         /\ observe(q) = "waiting" /\ GoesOn(q) => ~q.simulated /\ q.decision.outcome = "admitted"
<1>1. q.form \in BOOLEAN /\ q.simulated \in BOOLEAN
  BY DEF RequestType
<1>2. CASE ~q.form
  BY <1>2 DEF observe, Observations
<1>3. CASE q.form /\ q.decision.outcome = "degraded"
  <2>1. observe(q) = "degraded"
    BY <1>3 DEF observe
  <2> QED
    BY <1>3, <2>1 DEF Observations, Early, ReasonFor, SkipAccepted
<1>4. CASE q.form /\ q.decision.outcome # "degraded" /\ q.simulated
  <2>1. observe(q) = "simulated"
    BY <1>4 DEF observe
  <2> QED
    BY <1>4, <2>1 DEF Observations, Early, ReasonFor, SkipAccepted
<1>5. CASE q.form /\ q.decision.outcome # "degraded" /\ ~q.simulated
  <2>1. observe(q) = "waiting"
    BY <1>5 DEF observe
  <2> QED
    BY <1>5, <2>1 DEF Observations, Early, GoesOn, proceeds, ReasonFor, SkipAccepted
<1> QED
  BY <1>1, <1>2, <1>3, <1>4, <1>5

LEMMA AfterL2Story ==
  ASSUME NEW q, StoryInv(q), q.pc \in {"l2", "l2_runs"}, NEW d, Shaped(q.class, d)
  PROVE  StoryInv(AfterL2(q, d))
<1> DEFINE s == q.simulated \/ SimulatesL2(q, d)
           v == Delivered(q, d)
           e == Emit(q, "L2_DECIDED")
           decided == WithDecision(q, d)
           f == Emit(decided, "EGRESS_ATTEMPTED")
           o == observe(decided)
           onward == [f EXCEPT !.pc = "issue", !.observed = o]
           refused == Answer(decided, 503)
<1>1. q \in RequestType /\ Stream(q.events, AtL2, "L2_ENTERED")
  BY DEF StoryInv
<1>2. q.observed = "none" /\ ~q.flushed /\ (q.form => q.class = "open")
  BY DEF StoryInv, Untouched
<1>3. v \in Decisions /\ isValidDecision(q.class, v) /\ Explained(v)
  BY <1>1, DeliveredIsValid
<1>4. s \in BOOLEAN
  BY <1>1 DEF SimulatesL2, RequestType
<1>5. e \in RequestType /\ Extends(e, q) /\ Stream(e.events, AtL2 \union {"L2_DECIDED"}, "L2_DECIDED")
  <2>1. "L2_DECIDED" \in EventKinds /\ "L2_DECIDED" \notin AtL2
    BY DEF EventKinds, AtL2, AtL1
  <2>2. "L2_DECIDED" \in NEXT_PLANE_KINDS_L2("L2_ENTERED")
    BY Successors
  <2> QED
    BY <1>1, <2>1, <2>2, EmitGrows
<1>6. AfterL2(q, d) = IF proceeds(v) THEN onward ELSE refused
  BY DEF AfterL2
<1>7. /\ decided \in RequestType /\ decided.decision = v
      /\ Same(decided, e, {"class", "form", "up", "observed", "flushed", "events"})
  <2>1. decided = [e EXCEPT !.decision = v, !.simulated = s]
    BY DEF WithDecision
  <2>2. e \in RequestType /\ v \in Decisions
    BY <1>3, <1>5
  <2> HIDE DEF s, v, e, decided
  <2>3. decided \in RequestType
    BY <1>4, <2>1, <2>2 DEF RequestType
  <2> QED
    BY <2>1, <2>2, <2>3 DEF RequestType, Same
<1> HIDE DEF s, v, e, decided
<1>8. decided \in RequestType /\ Stream(decided.events, AtL2 \union {"L2_DECIDED"}, "L2_DECIDED")
  BY <1>5, <1>7 DEF Same
<1>9. /\ isValidDecision(decided.class, decided.decision) /\ Explained(decided.decision)
      /\ decided.observed = "none" /\ ~decided.flushed /\ (decided.form => decided.class = "open")
  BY <1>2, <1>3, <1>5, <1>7 DEF Same, Extends
<1>10. CASE proceeds(decided.decision)
  <2>1. f \in RequestType /\ Extends(f, decided) /\ Stream(f.events, Attempted, "EGRESS_ATTEMPTED")
    <3>1. "EGRESS_ATTEMPTED" \in EventKinds /\ "EGRESS_ATTEMPTED" \notin AtL2 \union {"L2_DECIDED"}
      BY DEF EventKinds, AtL2, AtL1
    <3>2. "EGRESS_ATTEMPTED" \in NEXT_PLANE_KINDS_L2("L2_DECIDED")
      BY Successors
    <3> QED
      BY <1>8, <3>1, <3>2, EmitGrows DEF Attempted
  <2>2. o \in Observations /\ "issue" \in Stages
    BY <1>8, ObserveValue DEF Stages
  <2> HIDE DEF f, o
  <2>3. onward \in RequestType
    BY <2>1, <2>2 DEF RequestType
  <2>4. /\ onward.pc = "issue" /\ onward.observed = o
        /\ Same(onward, f, {"class", "form", "simulated", "decision", "flushed", "events"})
    BY <2>1 DEF RequestType, Same
  <2> HIDE DEF onward
  <2>5. observe(onward) = o
    <3>1. onward.form = decided.form /\ onward.decision = decided.decision /\ onward.simulated = decided.simulated
      BY <2>1, <2>4 DEF Same, Extends
    <3>2. observe(onward) = observe(decided)
      BY <3>1, ObserveDepends
    <3> QED
      BY <3>2 DEF o
  <2>6. /\ GoesOn(onward) /\ Explained(onward.decision) /\ (onward.form => onward.class = "open")
        /\ ~onward.flushed /\ onward.events = f.events
    BY <1>9, <1>10, <2>1, <2>4 DEF GoesOn, Same, Extends
  <2>7. StoryInv(onward)
    BY <2>1, <2>3, <2>4, <2>5, <2>6 DEF StoryInv
  <2> QED
    BY <1>6, <1>7, <1>10, <2>7
<1>11. CASE ~proceeds(decided.decision)
  <2>1. 503 \in Nat
    BY ONLY TRUE
  <2>2. /\ refused \in RequestType /\ refused.pc = "closing" /\ Answers(refused, decided)
        /\ (refused.up => refused.status = 503)
    BY ONLY <1>8, <2>1, AnswerCloses
  <2> HIDE DEF refused
  <2>3. "L2_DECIDED" \in Settling /\ AtL2 \in Before("L2_DECIDED") /\ ~ReachedEgress("L2_DECIDED")
    BY DEF Settling, Before, L1Refusals, ReachedEgress
  <2>4. /\ refused.observed = "none" /\ ~refused.flushed /\ (refused.form => refused.class = "open")
        /\ refused.events = decided.events
        /\ isValidDecision(refused.class, refused.decision) /\ Explained(refused.decision)
        /\ ~proceeds(refused.decision)
    BY <1>9, <1>11, <2>2 DEF Same, Answers
  <2>5. Answered(refused, "L2_DECIDED")
    BY <2>2, <2>3, <2>4 DEF Answered, Owed, L1Refusals
  <2>6. Closing(refused, AtL2 \union {"L2_DECIDED"}, "L2_DECIDED")
    BY <1>8, <2>3, <2>4 DEF Closing, Pending
  <2>7. StoryInv(refused)
    BY <2>2, <2>3, <2>4, <2>5, <2>6, ClosingStory
  <2> QED
    BY <1>6, <1>7, <1>11, <2>7
<1> QED
  BY <1>10, <1>11

LEMMA IssueStory ==
  ASSUME NEW q, StoryInv(q), q.pc = "issue",
         NEW p, p = [Emit(q, "PROOF_ISSUED") EXCEPT !.pc = "forward"]
  PROVE  StoryInv(p) /\ p.pc = "forward"
<1> DEFINE e == Emit(q, "PROOF_ISSUED")
<1>1. q \in RequestType /\ Stream(q.events, Attempted, "EGRESS_ATTEMPTED")
  BY DEF StoryInv
<1>2. /\ GoesOn(q) /\ q.observed = observe(q) /\ ~q.flushed /\ (q.form => q.class = "open")
      /\ Explained(q.decision)
  BY DEF StoryInv
<1>3. e \in RequestType /\ Extends(e, q) /\ Stream(e.events, Issued, "PROOF_ISSUED")
  <2>1. "PROOF_ISSUED" \in EventKinds /\ "PROOF_ISSUED" \notin Attempted
    BY DEF EventKinds, Attempted, AtL2, AtL1
  <2>2. "PROOF_ISSUED" \in NEXT_PLANE_KINDS_L2("EGRESS_ATTEMPTED")
    BY Successors
  <2> QED
    BY <1>1, <2>1, <2>2, EmitGrows DEF Issued
<1>4. p = [e EXCEPT !.pc = "forward"] /\ "forward" \in Stages
  BY DEF Stages
<1> HIDE DEF e
<1>5. p \in RequestType /\ p.pc = "forward"
  BY <1>3, <1>4 DEF RequestType
<1>6. Same(p, e, {"class", "form", "simulated", "decision", "observed", "flushed", "events"})
  BY <1>3, <1>4 DEF RequestType, Same
<1>7. /\ p.class = q.class /\ p.form = q.form /\ p.simulated = q.simulated /\ p.decision = q.decision
      /\ p.observed = q.observed /\ p.flushed = q.flushed /\ p.events = e.events
  BY <1>3, <1>6 DEF Same, Extends
<1>8. observe(p) = observe(q)
  BY <1>7, ObserveDepends
<1> QED
  BY <1>2, <1>3, <1>5, <1>7, <1>8 DEF StoryInv, GoesOn

\* The egress fails, before or after a proof was issued.
Failed(q, kind) ==
  Answer([Emit(q, "EGRESS_FAILED") EXCEPT !.failed = kind], IF kind = "timeout" THEN 504 ELSE 502)

LEMMA FailStory ==
  ASSUME NEW q, StoryInv(q), q.pc \in {"issue", "forward"}, NEW kind \in {"timeout", "error"},
         NEW p, p = Failed(q, kind)
  PROVE  StoryInv(p) /\ p.pc = "closing"
<1> DEFINE status == IF kind = "timeout" THEN 504 ELSE 502
           e == Emit(q, "EGRESS_FAILED")
           f == [e EXCEPT !.failed = kind]
<1>1. PICK before \in {Attempted, Issued}, last \in {"EGRESS_ATTEMPTED", "PROOF_ISSUED"} :
         Stream(q.events, before, last)
  BY DEF StoryInv
<1>2. /\ q \in RequestType /\ GoesOn(q) /\ q.observed = observe(q) /\ ~q.flushed
      /\ (q.form => q.class = "open") /\ Explained(q.decision)
  BY DEF StoryInv
<1>3. /\ e \in RequestType /\ Extends(e, q)
      /\ Stream(e.events, before \union {"EGRESS_FAILED"}, "EGRESS_FAILED")
  <2>1. "EGRESS_FAILED" \in EventKinds /\ "EGRESS_FAILED" \notin before
    BY DEF EventKinds, Issued, Attempted, AtL2, AtL1
  <2>2. "EGRESS_FAILED" \in NEXT_PLANE_KINDS_L2(last)
    BY Successors
  <2> QED
    BY <1>1, <1>2, <2>1, <2>2, EmitGrows
<1> HIDE DEF e
<1>4. kind \in Failures /\ status \in Nat
  BY DEF Failures
<1>5. f \in RequestType
  BY <1>3, <1>4 DEF RequestType
<1>6. /\ f.failed = kind
      /\ Same(f, e, {"class", "form", "up", "simulated", "decision", "observed", "flushed", "events"})
  BY <1>3 DEF RequestType, Same
<1>7. p = Answer(f, status)
  BY DEF e, Failed
<1> HIDE DEF f
<1>8. p \in RequestType /\ p.pc = "closing" /\ Answers(p, f) /\ (p.up => p.status = status)
  BY ONLY <1>4, <1>5, <1>7, AnswerCloses
<1>9. /\ p.class = q.class /\ p.form = q.form /\ p.simulated = q.simulated /\ p.decision = q.decision
      /\ p.observed = q.observed /\ p.flushed = q.flushed /\ p.events = e.events /\ p.failed = kind
  BY <1>3, <1>6, <1>8 DEF Same, Extends, Answers
<1>10. observe(p) = observe(q) /\ p.observed # "good"
  BY <1>2, <1>9, ObserveDepends, ObserveValue
<1>11. /\ "EGRESS_FAILED" \in Settling /\ before \in Before("EGRESS_FAILED") /\ ReachedEgress("EGRESS_FAILED")
  BY DEF Settling, Before, L1Refusals, ReachedEgress
<1>12. Answered(p, "EGRESS_FAILED")
  BY <1>2, <1>8, <1>9 DEF Answered, GoesOn, ReachedEgress, Owed, L1Refusals
<1>13. Closing(p, before \union {"EGRESS_FAILED"}, "EGRESS_FAILED")
  BY <1>2, <1>3, <1>9, <1>10, <1>11 DEF Closing, Pending
<1> QED
  BY <1>2, <1>8, <1>9, <1>11, <1>12, <1>13, ClosingStory

\* The upstream's response is observed and sent on.
Responded(q, status) ==
  LET u == [Emit(q, "EGRESS_RESPONDED") EXCEPT !.upstream = status]
  IN  Answer([u EXCEPT !.observed = IF @ = "waiting" THEN evaluateObservation(status) ELSE @], status)

LEMMA RespondStory ==
  ASSUME NEW q, StoryInv(q), q.pc = "forward", NEW status \in {200, 404}, NEW p, p = Responded(q, status)
  PROVE  StoryInv(p) /\ p.pc = "closing"
<1> DEFINE e == Emit(q, "EGRESS_RESPONDED")
           o == IF q.observed = "waiting" THEN evaluateObservation(status) ELSE q.observed
           f == [e EXCEPT !.upstream = status, !.observed = o]
<1>1. q \in RequestType /\ Stream(q.events, Issued, "PROOF_ISSUED")
  BY DEF StoryInv
<1>2. /\ GoesOn(q) /\ q.observed = observe(q) /\ ~q.flushed /\ (q.form => q.class = "open")
      /\ Explained(q.decision)
  BY DEF StoryInv
<1>3. /\ e \in RequestType /\ Extends(e, q)
      /\ Stream(e.events, Issued \union {"EGRESS_RESPONDED"}, "EGRESS_RESPONDED")
  <2>1. "EGRESS_RESPONDED" \in EventKinds /\ "EGRESS_RESPONDED" \notin Issued
    BY DEF EventKinds, Issued, Attempted, AtL2, AtL1
  <2>2. "EGRESS_RESPONDED" \in NEXT_PLANE_KINDS_L2("PROOF_ISSUED")
    BY Successors
  <2> QED
    BY <1>1, <2>1, <2>2, EmitGrows
<1>4. status \in Upstreams /\ status \in Nat /\ o \in Observations
  <2>1. q.observed \in Observations
    BY <1>1 DEF RequestType
  <2> QED
    BY <2>1 DEF Upstreams, Observations, evaluateObservation
<1> HIDE DEF e
<1>5. p = Answer(f, status)
  <2>1. e.observed = q.observed
    BY <1>3 DEF Extends, Same
  <2> DEFINE u == [e EXCEPT !.upstream = status]
  <2>2. u.observed = q.observed
    BY <1>3, <2>1 DEF RequestType
  <2>3. [u EXCEPT !.observed = IF u.observed = "waiting" THEN evaluateObservation(status) ELSE u.observed] = f
    BY <2>2
  <2> QED
    BY <2>3 DEF e, Responded
<1> HIDE DEF o
<1>6. f \in RequestType
  BY <1>3, <1>4 DEF RequestType
<1>7. /\ f.upstream = status /\ f.observed = o
      /\ Same(f, e, {"class", "form", "up", "simulated", "decision", "flushed", "events"})
  BY <1>3 DEF RequestType, Same
<1> HIDE DEF f
<1>8. p \in RequestType /\ p.pc = "closing" /\ Answers(p, f) /\ (p.up => p.status = status)
  BY ONLY <1>4, <1>5, <1>6, AnswerCloses
<1>9. /\ p.class = q.class /\ p.form = q.form /\ p.simulated = q.simulated /\ p.decision = q.decision
      /\ p.observed = o /\ p.flushed = q.flushed /\ p.events = e.events /\ p.upstream = status
  BY <1>3, <1>7, <1>8 DEF Same, Extends, Answers
<1>10. observe(p) = observe(q)
  BY <1>9, ObserveDepends
<1>11. /\ "EGRESS_RESPONDED" \in Settling /\ Issued \in Before("EGRESS_RESPONDED")
       /\ ReachedEgress("EGRESS_RESPONDED")
  BY DEF Settling, Before, L1Refusals, ReachedEgress
<1>12. Answered(p, "EGRESS_RESPONDED")
  BY <1>2, <1>8, <1>9 DEF Answered, GoesOn, ReachedEgress, Owed, L1Refusals
<1>13. Closing(p, Issued \union {"EGRESS_RESPONDED"}, "EGRESS_RESPONDED")
  BY <1>2, <1>3, <1>9, <1>10, <1>11 DEF Closing, Pending, o
<1> QED
  BY <1>2, <1>8, <1>9, <1>11, <1>12, <1>13, ClosingStory

LEMMA ClosingParts ==
  ASSUME NEW q, StoryInv(q), q.pc = "closing"
  PROVE  /\ q \in RequestType /\ (q.form => q.class = "open") /\ Explained(q.decision)
         /\ \E last \in Settling : \E before \in Before(last) :
               Answered(q, last) /\ Closing(q, before \union {last}, last)
BY DEF StoryInv

\* What was owed stays owed, and what was answered answered, as long as nobody else gets to see it.
LEMMA AnsweredStays ==
  ASSUME NEW q, NEW p, NEW last, last \in Settling, Answered(q, last),
         Same(p, q, {"class", "decision", "upstream", "failed", "status"}),
         p.up \/ p.flushed => q.up \/ q.flushed
  PROVE  Answered(p, last)
<1>1. /\ p.class = q.class /\ p.decision = q.decision /\ p.upstream = q.upstream
      /\ p.failed = q.failed /\ p.status = q.status
  BY DEF Same
<1>2. GoesOn(p) <=> GoesOn(q)
  BY <1>1 DEF GoesOn
<1>3. /\ last \in L1Refusals => p.decision = NoDecision
      /\ last = "L2_DECIDED" => isValidDecision(p.class, p.decision) /\ ~proceeds(p.decision)
      /\ ReachedEgress(last) => GoesOn(p)
  BY <1>1, <1>2 DEF Answered
<1>4. Owed(p, last) = Owed(q, last)
  BY <1>1 DEF Owed, Settling, L1Refusals
<1>5. p.up \/ p.flushed => p.status = Owed(p, last)
  BY <1>1, <1>4 DEF Answered
<1> QED
  BY <1>3, <1>5 DEF Answered

\* No render has its disposition before its observation is done.
LEMMA KindsBefore ==
  ASSUME NEW last \in Settling, NEW before \in Before(last), NEW kind \in Dispositions
  PROVE  /\ kind \notin before \union {last} /\ kind \in EventKinds
         /\ \A t \in Terminals : t \notin (before \union {last}) \union {kind} /\ t \in EventKinds
BY DEF Settling, Before, L1Refusals, Dispositions, Terminals, EventKinds, Issued, Attempted, AtL2, AtL1

\* A delivered render is enrolled, or its token is found used.
Disposes(f, kind, p) == p = Dispose(f, kind, IF kind = "L2_ENROLLED" THEN "none" ELSE "other")

LEMMA DisposeSettles ==
  ASSUME NEW q \in RequestType, NEW kind \in EventKinds, NEW reason \in Reasons
  PROVE  LET p == Dispose(q, kind, reason)
         IN  /\ p \in RequestType /\ p.observed = "done" /\ p.skipReason = reason
             /\ Same(p, q, {"pc", "class", "form", "body", "arm", "up", "simulated", "decision", "upstream",
                            "failed", "status", "flushed"})
             /\ p.events = Emit(q, kind).events
<1> DEFINE e == Emit(q, kind)
           p == [e EXCEPT !.observed = "done", !.skipReason = reason]
<1>1. e \in RequestType /\ Extends(e, q)
  BY EmitAppends DEF Extends, Same
<1>2. "done" \in Observations
  BY DEF Observations
<1>3. Dispose(q, kind, reason) = p /\ e.events = Emit(q, kind).events
  BY DEF Dispose
<1> HIDE DEF e
<1>4. /\ p \in RequestType /\ p.observed = "done" /\ p.skipReason = reason
      /\ Same(p, e, {"pc", "class", "form", "body", "arm", "up", "simulated", "decision", "upstream",
                     "failed", "status", "flushed", "events"})
  BY <1>1, <1>2 DEF RequestType, Same
<1> HIDE DEF p
<1> QED
  BY <1>1, <1>3, <1>4 DEF Extends, Same

LEMMA FinishStory ==
  ASSUME NEW q, StoryInv(q), q.pc = "closing", q.up, ~q.flushed,
         NEW f, f = [q EXCEPT !.flushed = TRUE], NEW p,
         \/ q.observed # "good" /\ p = f
         \/ q.observed = "good" /\ \E kind \in Dispositions : Disposes(f, kind, p)
  PROVE  StoryInv(p) /\ p.pc = "closing"
<1>1. q \in RequestType /\ (q.form => q.class = "open") /\ Explained(q.decision)
  BY ClosingParts
<1>2. PICK last \in Settling : \E b \in Before(last) : Answered(q, last) /\ Closing(q, b \union {last}, last)
  BY ClosingParts
<1>3. PICK before \in Before(last) : Answered(q, last) /\ Closing(q, before \union {last}, last)
  BY <1>2
<1>4. f \in RequestType /\ f.flushed
  BY <1>1 DEF RequestType
<1>5. Same(f, q, {"pc", "class", "form", "up", "simulated", "decision", "observed", "skipReason", "upstream",
                  "failed", "status", "events"})
  BY <1>1 DEF RequestType, Same
<1>6. CASE q.observed # "good" /\ p = f
  <2>1. Answered(p, last)
    <3>1. Same(p, q, {"class", "decision", "upstream", "failed", "status"}) /\ p.up = q.up
      BY ONLY <1>5, <1>6 DEF Same
    <3>2. q.up
      OBVIOUS
    <3> QED
      BY ONLY <1>3, <3>1, <3>2, AnsweredStays
  <2>2. observe(p) = observe(q)
    BY <1>5, <1>6, ObserveDepends DEF Same
  <2>3. Closing(p, before \union {last}, last)
    <3>1. /\ p.observed = q.observed /\ p.events = q.events /\ p.form = q.form
          /\ p.skipReason = q.skipReason /\ p.upstream = q.upstream /\ p.flushed
      BY <1>4, <1>5, <1>6 DEF Same
    <3>2. CASE Stream(q.events, before \union {last}, last) /\ Pending(q, last)
      BY <1>6, <2>2, <3>1, <3>2 DEF Closing, Pending
    <3>3. CASE q.observed = "done" /\ \E kind \in Dispositions :
                  Disposed(q, last, kind) /\ Stream(q.events, (before \union {last}) \union {kind}, kind)
      BY <2>2, <3>1, <3>3 DEF Closing, Disposed
    <3> QED
      BY <1>3, <3>2, <3>3 DEF Closing
  <2>4. p.pc = "closing" /\ (p.form => p.class = "open") /\ Explained(p.decision)
    BY <1>1, <1>5, <1>6 DEF Same
  <2> QED
    BY <1>4, <1>6, <2>1, <2>3, <2>4, ClosingStory
<1>7. ASSUME q.observed = "good", NEW kind \in Dispositions, Disposes(f, kind, p)
      PROVE  StoryInv(p) /\ p.pc = "closing"
  <2> DEFINE e == Emit(f, kind)
             reason == IF kind = "L2_ENROLLED" THEN "none" ELSE "other"
  <2>1. Stream(q.events, before \union {last}, last) /\ Pending(q, last)
    BY <1>3, <1>7 DEF Closing
  <2>2. /\ last = "EGRESS_RESPONDED" /\ ReachedEgress(last) /\ observe(q) = "waiting" /\ q.upstream = 200 /\ q.form
    <3>1. observe(q) \in {"none", "degraded", "simulated", "waiting"} /\ (observe(q) = "none" <=> ~q.form)
      BY <1>1, ObserveValue
    <3> QED
      BY <1>7, <2>1, <3>1 DEF Pending, evaluateObservation, ReachedEgress
  <2>3. kind \in EventKinds /\ Stream(e.events, (before \union {last}) \union {kind}, kind)
    <3>1. kind \notin before \union {last} /\ kind \in EventKinds
      BY KindsBefore
    <3>2. kind \in NEXT_PLANE_KINDS_L2(last)
      BY <2>2, Successors
    <3>3. Stream(f.events, before \union {last}, last)
      BY <1>5, <2>1 DEF Same
    <3> QED
      BY <1>4, <3>1, <3>2, <3>3, EmitGrows
  <2>4. reason \in Reasons /\ (kind = "L2_ENROLL_SKIPPED" => reason = "other")
    BY DEF Reasons
  <2>5. /\ p \in RequestType /\ p.observed = "done" /\ p.skipReason = reason
        /\ Same(p, f, {"pc", "class", "form", "body", "arm", "up", "simulated", "decision", "upstream",
                       "failed", "status", "flushed"})
        /\ p.events = e.events
    BY <1>4, <1>7, <2>3, <2>4, DisposeSettles DEF Disposes
  <2> HIDE DEF e, reason
  <2>6. Same(p, q, {"pc", "class", "form", "up", "simulated", "decision", "upstream", "failed", "status"})
    BY <1>5, <2>5 DEF Same
  <2>7. p.flushed
    BY <1>4, <2>5 DEF Same
  <2>8. Answered(p, last)
    BY <1>3, <2>6, AnsweredStays DEF Same
  <2>9. observe(p) = observe(q) /\ p.form = q.form /\ p.upstream = q.upstream
    BY <2>6, ObserveDepends DEF Same
  <2>10. ReasonFor("waiting") = "other"
    BY DEF ReasonFor, Early
  <2>11. Closing(p, before \union {last}, last)
    <3>1. kind = "L2_ENROLL_SKIPPED" => p.skipReason = ReasonFor(observe(p))
      BY <2>2, <2>4, <2>5, <2>9, <2>10
    <3>2. Disposed(p, last, kind)
      BY <1>7, <2>2, <2>7, <2>9, <3>1 DEF Disposed
    <3>3. Stream(p.events, (before \union {last}) \union {kind}, kind)
      BY <2>3, <2>5
    <3> QED
      BY <1>7, <2>5, <3>2, <3>3 DEF Closing
  <2>12. p.pc = "closing" /\ (p.form => p.class = "open") /\ Explained(p.decision)
    BY <1>1, <2>6 DEF Same
  <2> QED
    BY <2>5, <2>8, <2>11, <2>12, ClosingStory
<1> QED
  BY <1>6, <1>7

LEMMA GoneStory ==
  ASSUME NEW q, StoryInv(q), NEW p, p = [q EXCEPT !.up = FALSE]
  PROVE  StoryInv(p) /\ p.pc = q.pc
<1>1. q \in RequestType
  BY DEF StoryInv
<1>2. p \in RequestType /\ ~p.up
  BY <1>1 DEF RequestType
<1>3. Same(p, q, {"pc", "class", "form", "simulated", "decision", "observed", "skipReason", "upstream",
                  "failed", "status", "flushed", "events"})
  BY <1>1 DEF RequestType, Same
<1>4. /\ p.pc = q.pc /\ p.class = q.class /\ p.form = q.form /\ p.simulated = q.simulated
      /\ p.decision = q.decision /\ p.observed = q.observed /\ p.skipReason = q.skipReason
      /\ p.upstream = q.upstream /\ p.flushed = q.flushed /\ p.events = q.events
  BY <1>3 DEF Same
<1>5. observe(p) = observe(q)
  BY <1>4, ObserveDepends
<1>6. \A last \in Settling : Answered(q, last) => Answered(p, last)
  BY <1>2, <1>3, <1>4, AnsweredStays DEF Same
<1>7. \A last, kind : Disposed(q, last, kind) <=> Disposed(p, last, kind)
  BY <1>4, <1>5 DEF Disposed
<1>8. \A seen, last : Closing(q, seen, last) => Closing(p, seen, last)
  BY <1>4, <1>5, <1>7 DEF Closing, Pending
<1>9. \A seen, last : Over(q, seen, last) => Over(p, seen, last)
  BY <1>4, <1>7 DEF Over, Terminal
<1>10. p.pc = "closing" => \E last \in Settling : \E before \in Before(last) :
                              Answered(p, last) /\ Closing(p, before \union {last}, last)
  BY <1>4, <1>6, <1>8 DEF StoryInv
<1>11. p.pc = "done" => \E last \in Settling : \E before \in Before(last) :
                           Answered(p, last) /\ Over(p, before \union {last}, last)
  BY <1>4, <1>6, <1>9 DEF StoryInv
<1>12. (GoesOn(p) <=> GoesOn(q)) /\ (Untouched(p) <=> Untouched(q))
  BY <1>4 DEF GoesOn, Untouched
<1> QED
  BY <1>2, <1>4, <1>5, <1>10, <1>11, <1>12 DEF StoryInv

\* Closing adds the terminal event to what finalize() made of the observation.
LEMMA FinalizeStory ==
  ASSUME NEW q \in RequestType, NEW last \in Settling, NEW before \in Before(last),
         Closing(q, before \union {last}, last)
  PROVE  LET f == finalize(q)
         IN  /\ f \in RequestType
             /\ Same(f, q, {"class", "form", "up", "simulated", "decision", "upstream", "failed",
                            "status", "flushed"})
             /\ \/ ~(q.form /\ ReachedEgress(last)) /\ Stream(f.events, before \union {last}, last)
                \/ \E kind \in Dispositions :
                      Disposed(f, last, kind) /\ Stream(f.events, (before \union {last}) \union {kind}, kind)
<1> DEFINE f == finalize(q)
           Kept == Same(f, q, {"class", "form", "up", "simulated", "decision", "upstream", "failed",
                               "status", "flushed"})
<1>1. q.observed \in Observations /\ q.form \in BOOLEAN
  BY DEF RequestType
<1>2. CASE q.observed = "none"
  <2>1. f = q
    BY <1>2 DEF finalize
  <2>2. Stream(q.events, before \union {last}, last) /\ Pending(q, last)
    BY <1>2 DEF Closing
  <2>3. ~(q.form /\ ReachedEgress(last))
    <3>1. observe(q) = "none" <=> ~q.form
      BY ObserveValue
    <3> QED
      BY <1>2, <2>2, <3>1 DEF Pending, evaluateObservation
  <2>4. Kept
    BY <2>1 DEF Same
  <2> HIDE DEF Kept
  <2> QED
    BY <2>1, <2>2, <2>3, <2>4 DEF Kept
<1>3. CASE q.observed = "done"
  <2>1. f = q
    BY <1>3 DEF finalize
  <2>2. Kept
    BY <2>1 DEF Same
  <2>3. ~Pending(q, last)
    <3>1. observe(q) # "done"
      BY ObserveValue
    <3> QED
      BY <1>3, <3>1 DEF Pending, evaluateObservation
  <2>4. \E kind \in Dispositions :
           Disposed(f, last, kind) /\ Stream(f.events, (before \union {last}) \union {kind}, kind)
    BY <2>1, <2>3 DEF Closing
  <2> QED
    BY <2>1, <2>2, <2>4
<1>4. CASE q.observed \notin {"none", "done"}
  <2> DEFINE e == Emit(q, "L2_ENROLL_SKIPPED")
             reason == ReasonFor(q.observed)
  <2>1. f = Dispose(q, "L2_ENROLL_SKIPPED", reason)
    BY <1>4 DEF finalize
  <2>2. Stream(q.events, before \union {last}, last) /\ Pending(q, last)
    BY <1>4 DEF Closing
  <2>3. ReachedEgress(last) /\ q.form
    <3>1. observe(q) = "none" <=> ~q.form
      BY ObserveValue
    <3> QED
      BY <1>4, <2>2, <3>1 DEF Pending, evaluateObservation
  <2>4. /\ "L2_ENROLL_SKIPPED" \in EventKinds
        /\ Stream(e.events, (before \union {last}) \union {"L2_ENROLL_SKIPPED"}, "L2_ENROLL_SKIPPED")
    <3>1. "L2_ENROLL_SKIPPED" \in EventKinds /\ "L2_ENROLL_SKIPPED" \notin before \union {last}
      BY KindsBefore DEF Dispositions
    <3>2. "L2_ENROLL_SKIPPED" \in NEXT_PLANE_KINDS_L2(last)
      BY <2>3, Successors DEF ReachedEgress, Dispositions
    <3> QED
      BY <2>2, <3>1, <3>2, EmitGrows
  <2>5. reason \in Reasons
    BY DEF ReasonFor, Reasons
  <2>6. reason = ReasonFor(observe(q))
    <3>1. CASE last = "EGRESS_RESPONDED" /\ observe(q) = "waiting"
      <4>1. q.observed \in {"good", "bad"}
        BY <2>2, <2>3, <3>1 DEF Pending, evaluateObservation
      <4> QED
        BY <3>1, <4>1 DEF ReasonFor, Early
    <3>2. CASE ~(last = "EGRESS_RESPONDED" /\ observe(q) = "waiting")
      BY <2>2, <2>3, <3>2 DEF Pending
    <3> QED
      BY <3>1, <3>2
  <2>7. /\ f \in RequestType /\ f.skipReason = reason /\ f.events = e.events
        /\ Same(f, q, {"pc", "class", "form", "body", "arm", "up", "simulated", "decision", "upstream",
                       "failed", "status", "flushed"})
    BY <2>1, <2>4, <2>5, DisposeSettles
  <2> HIDE DEF e, f, reason
  <2>8. Kept
    BY <2>7 DEF Same
  <2>9. observe(f) = observe(q) /\ f.form = q.form
    BY <2>7, ObserveDepends DEF Same
  <2>10. Disposed(f, last, "L2_ENROLL_SKIPPED") /\ "L2_ENROLL_SKIPPED" \in Dispositions
    BY <2>3, <2>6, <2>7, <2>9 DEF Disposed, Dispositions
  <2> HIDE DEF Kept
  <2> QED
    BY <2>4, <2>7, <2>8, <2>10 DEF f, Kept
<1> QED
  BY <1>2, <1>3, <1>4

LEMMA CloseStory ==
  ASSUME NEW q, StoryInv(q), q.pc = "closing",
         NEW p, p = [Emit(finalize(q), IF q.flushed THEN "INGRESS_RESPONDED" ELSE "INGRESS_ABORTED")
                       EXCEPT !.pc = "done"]
  PROVE  StoryInv(p) /\ p.pc = "done"
<1> DEFINE f == finalize(q)
           t == IF q.flushed THEN "INGRESS_RESPONDED" ELSE "INGRESS_ABORTED"
           e == Emit(f, t)
<1>1. q \in RequestType /\ (q.form => q.class = "open") /\ Explained(q.decision)
  BY ClosingParts
<1>2. PICK last \in Settling : \E b \in Before(last) : Answered(q, last) /\ Closing(q, b \union {last}, last)
  BY ClosingParts
<1>3. PICK before \in Before(last) : Answered(q, last) /\ Closing(q, before \union {last}, last)
  BY <1>2
<1>4. /\ f \in RequestType
      /\ Same(f, q, {"class", "form", "up", "simulated", "decision", "upstream", "failed", "status", "flushed"})
      /\ \/ ~(q.form /\ ReachedEgress(last)) /\ Stream(f.events, before \union {last}, last)
         \/ \E kind \in Dispositions :
               Disposed(f, last, kind) /\ Stream(f.events, (before \union {last}) \union {kind}, kind)
  BY <1>1, <1>3, FinalizeStory
<1> HIDE DEF f
<1>5. t \in Terminals /\ t \in EventKinds /\ t = Terminal(q)
  BY DEF Terminals, EventKinds, Terminal
<1> HIDE DEF t
<1>6. /\ e \in RequestType /\ Extends(e, f)
      /\ \/ ~(q.form /\ ReachedEgress(last)) /\ Stream(e.events, (before \union {last}) \union {t}, t)
         \/ \E kind \in Dispositions :
               /\ Disposed(f, last, kind)
               /\ Stream(e.events, ((before \union {last}) \union {kind}) \union {t}, t)
  <2>1. CASE ~(q.form /\ ReachedEgress(last)) /\ Stream(f.events, before \union {last}, last)
    <3>1. t \notin before \union {last}
      BY <1>5, KindsBefore DEF Dispositions
    <3>2. t \in NEXT_PLANE_KINDS_L2(last)
      BY <1>5, Successors
    <3> QED
      BY <1>4, <1>5, <2>1, <3>1, <3>2, EmitGrows
  <2>2. ASSUME NEW kind \in Dispositions, Disposed(f, last, kind),
               Stream(f.events, (before \union {last}) \union {kind}, kind)
        PROVE  /\ e \in RequestType /\ Extends(e, f)
               /\ Stream(e.events, ((before \union {last}) \union {kind}) \union {t}, t)
    <3>1. t \notin (before \union {last}) \union {kind}
      BY <1>5, KindsBefore
    <3>2. t \in NEXT_PLANE_KINDS_L2(kind)
      BY <1>5, Successors
    <3> QED
      BY <1>4, <1>5, <2>2, <3>1, <3>2, EmitGrows
  <2> QED
    BY <1>4, <2>1, <2>2
<1> HIDE DEF e
<1>7. p = [e EXCEPT !.pc = "done"] /\ "done" \in Stages
  BY DEF e, f, t, Stages
<1>8. p \in RequestType /\ p.pc = "done"
  BY <1>6, <1>7 DEF RequestType
<1>9. Same(p, e, {"class", "form", "up", "simulated", "decision", "skipReason", "upstream", "failed", "status",
                  "flushed", "events"})
  BY <1>6, <1>7 DEF RequestType, Same
<1>10. Same(p, q, {"class", "form", "up", "simulated", "decision", "upstream", "failed", "status", "flushed"})
  <2>1. Same(e, f, {"class", "form", "up", "simulated", "decision", "upstream", "failed", "status", "flushed"})
    BY <1>6 DEF Same, Extends
  <2>2. Same(e, q, {"class", "form", "up", "simulated", "decision", "upstream", "failed", "status", "flushed"})
    BY ONLY <1>4, <2>1 DEF Same
  <2> QED
    BY ONLY <1>9, <2>2 DEF Same
<1>11. /\ p.class = q.class /\ p.form = q.form /\ p.simulated = q.simulated /\ p.decision = q.decision
       /\ p.upstream = q.upstream /\ p.flushed = q.flushed /\ p.events = e.events
  BY <1>9, <1>10 DEF Same
<1>12. Answered(p, last)
  <2>1. Same(p, q, {"class", "decision", "upstream", "failed", "status"})
    BY ONLY <1>10 DEF Same
  <2>2. p.up = q.up /\ p.flushed = q.flushed
    BY ONLY <1>10 DEF Same
  <2> QED
    BY <1>3, <2>1, <2>2, AnsweredStays
<1>13. /\ t = Terminal(p) /\ p.skipReason = f.skipReason /\ p.form = f.form /\ p.upstream = f.upstream
       /\ p.flushed = f.flushed /\ observe(p) = observe(f)
  <2>1. /\ p.skipReason = f.skipReason /\ p.form = f.form /\ p.upstream = f.upstream
        /\ p.flushed = f.flushed /\ p.decision = f.decision /\ p.simulated = f.simulated
    BY <1>6, <1>9 DEF Same, Extends
  <2>2. observe(p) = observe(f)
    BY <2>1, ObserveDepends
  <2>3. Terminal(p) = Terminal(q)
    BY <1>11 DEF Terminal
  <2> QED
    BY <1>5, <2>1, <2>2, <2>3
<1>14. \A kind : Disposed(f, last, kind) => Disposed(p, last, kind)
  BY <1>13 DEF Disposed
<1>15. Over(p, before \union {last}, last)
  BY <1>6, <1>11, <1>13, <1>14 DEF Over
<1> QED
  BY <1>1, <1>8, <1>11, <1>12, <1>15 DEF StoryInv

-----------------------------------------------------------------------------
(* The evaluations and the counters that stand for them                    *)

\* An evaluation is in this state now; nothing else moved.
Moved(layer, r, state) ==
  \A l \in Layers, s \in Evaluations :
     /\ l # layer \/ (s # state /\ s # run[layer][r]) => In(l, s)' = In(l, s)
     /\ l = layer /\ s = state => In(l, s)' = In(l, s) \union {r}
     /\ l = layer /\ s # state => In(l, s)' = In(l, s) \ {r}

LEMMA InMoves ==
  ASSUME run \in [Layers -> [Requests -> Evaluations]], NEW layer \in Layers, NEW r \in Requests,
         NEW state \in Evaluations, run' = [run EXCEPT ![layer][r] = state]
  PROVE  /\ run' \in [Layers -> [Requests -> Evaluations]]
         /\ \A l \in Layers, x \in Requests : run'[l][x] = IF l = layer /\ x = r THEN state ELSE run[l][x]
         /\ Moved(layer, r, state)
<1>1. run' \in [Layers -> [Requests -> Evaluations]]
  OBVIOUS
<1>2. \A l \in Layers, x \in Requests : run'[l][x] = IF l = layer /\ x = r THEN state ELSE run[l][x]
  OBVIOUS
<1>3. ASSUME NEW l \in Layers, NEW s \in Evaluations
      PROVE  /\ l # layer \/ (s # state /\ s # run[layer][r]) => In(l, s)' = In(l, s)
             /\ l = layer /\ s = state => In(l, s)' = In(l, s) \union {r}
             /\ l = layer /\ s # state => In(l, s)' = In(l, s) \ {r}
  <2>1. l # layer \/ (s # state /\ s # run[layer][r]) => In(l, s)' = In(l, s)
    BY <1>2 DEF In
  <2>2. l = layer /\ s = state => In(l, s)' = In(l, s) \union {r}
    BY <1>2 DEF In
  <2>3. l = layer /\ s # state => In(l, s)' = In(l, s) \ {r}
    BY <1>2 DEF In
  <2> QED
    BY <2>1, <2>2, <2>3
<1> QED
  BY <1>1, <1>2, <1>3 DEF Moved

\* The count of one layer is right.
LayerCount(layer) ==
  /\ IsFiniteSet(In(layer, "running")) /\ IsFiniteSet(In(layer, "abandoned"))
  /\ count[layer].inFlight = Cardinality(In(layer, "running"))
  /\ count[layer].abandonedLive = Cardinality(In(layer, "abandoned"))
  /\ occupancy(layer) <= MaxConcurrent[layer]

CountType == count \in [Layers -> [inFlight : Nat, abandonedLive : Nat]]

LEMMA CountParts ==
  CountInv <=> CountType /\ \A layer \in Layers : LayerCount(layer)
BY DEF CountInv, CountType, LayerCount

LEMMA OtherLayerStays ==
  ASSUME NEW l \in Layers, LayerCount(l), In(l, "running")' = In(l, "running"),
         In(l, "abandoned")' = In(l, "abandoned"), count'[l] = count[l]
  PROVE  LayerCount(l)'
BY DEF LayerCount, occupancy

\* A counter and the set it counts change together.
LEMMA CountsMove ==
  ASSUME NEW S, IsFiniteSet(S), NEW r
  PROVE  /\ Cardinality(S) \in Nat
         /\ r \notin S => /\ IsFiniteSet(S \union {r}) /\ Cardinality(S \union {r}) = Cardinality(S) + 1
         /\ r \in S => /\ IsFiniteSet(S \ {r}) /\ Cardinality(S \ {r}) = Cardinality(S) - 1
                       /\ Cardinality(S) - 1 \in Nat
<1>1. Cardinality(S) \in Nat
  BY FS_CardinalityType
<1>2. r \notin S => IsFiniteSet(S \union {r}) /\ Cardinality(S \union {r}) = Cardinality(S) + 1
  BY FS_AddElement
<1>3. r \in S => IsFiniteSet(S \ {r}) /\ Cardinality(S \ {r}) = Cardinality(S) - 1
  BY FS_RemoveElement
<1>4. r \in S => Cardinality(S \ {r}) \in Nat
  BY <1>3, FS_CardinalityType
<1> QED
  BY <1>1, <1>2, <1>3, <1>4

LEMMA StartCounts ==
  ASSUME RunInv, CountInv, NEW layer \in Layers, NEW r \in Requests, run[layer][r] = "none",
         ~IsSaturated(layer), StartEvaluation(layer, r)
  PROVE  CountInv'
<1>1. run \in [Layers -> [Requests -> Evaluations]] /\ run' = [run EXCEPT ![layer][r] = "running"]
  BY DEF RunInv, StartEvaluation
<1>2. {"running", "abandoned"} \subseteq Evaluations
  BY DEF Evaluations
<1>3. /\ In(layer, "running")' = In(layer, "running") \union {r}
      /\ In(layer, "abandoned")' = In(layer, "abandoned") /\ r \notin In(layer, "running")
      /\ \A l \in Layers \ {layer} : /\ In(l, "running")' = In(l, "running")
                                     /\ In(l, "abandoned")' = In(l, "abandoned")
  <2>1. r \notin In(layer, "running")
    BY DEF In
  <2>2. Moved(layer, r, "running")
    BY <1>1, <1>2, InMoves
  <2> QED
    BY <1>2, <2>1, <2>2 DEF Moved
<1>4. CountType /\ LayerCount(layer) /\ MaxConcurrent[layer] \in Nat
  BY CountParts, BulkheadAssumption
<1>5. count' = [count EXCEPT ![layer].inFlight = count[layer].inFlight + 1]
  BY DEF StartEvaluation
<1>6. CountType'
  BY <1>4, <1>5 DEF CountType
<1>7. /\ count'[layer].inFlight = count[layer].inFlight + 1
      /\ count'[layer].abandonedLive = count[layer].abandonedLive
      /\ \A l \in Layers \ {layer} : count'[l] = count[l]
  BY <1>4, <1>5 DEF CountType
<1>8. occupancy(layer)' <= MaxConcurrent[layer]
  <2> DEFINE a == count[layer].inFlight
             b == count[layer].abandonedLive
  <2>1. a \in Nat /\ b \in Nat
    BY <1>4 DEF CountType
  <2>2. ~(a + b >= MaxConcurrent[layer])
    BY DEF occupancy, IsSaturated
  <2>3. occupancy(layer)' = (a + 1) + b
    BY <1>7 DEF occupancy
  <2> HIDE DEF a, b
  <2>4. (a + 1) + b <= MaxConcurrent[layer]
    BY ONLY <1>4, <2>1, <2>2
  <2> QED
    BY ONLY <2>3, <2>4
<1>9. LayerCount(layer)'
  BY <1>3, <1>4, <1>7, <1>8, CountsMove DEF LayerCount
<1>10. \A l \in Layers \ {layer} : LayerCount(l)'
  BY <1>3, <1>7, CountParts, OtherLayerStays
<1> QED
  BY <1>6, <1>9, <1>10 DEF CountInv, CountType, LayerCount

\* An evaluation that ends or is abandoned gives back the place it had.
LEMMA PlaceCounts ==
  ASSUME RunInv, CountInv, NEW layer \in Layers, NEW r \in Requests,
         \/ run[layer][r] = "running" /\ EndEvaluation(layer, r)
         \/ run[layer][r] = "running" /\ AbandonEvaluation(layer, r)
         \/ SettleAbandoned(layer, r)
         \/ Reclaim(layer, r)
  PROVE  CountInv'
<1> DEFINE a == count[layer].inFlight
           b == count[layer].abandonedLive
           R == In(layer, "running")
           A == In(layer, "abandoned")
<1>1. run \in [Layers -> [Requests -> Evaluations]]
  BY DEF RunInv
<1>2. {"running", "abandoned", "settled", "reclaimed"} \subseteq Evaluations
  BY DEF Evaluations
<1>3. CountType /\ LayerCount(layer) /\ MaxConcurrent[layer] \in Nat
  BY CountParts, BulkheadAssumption
<1>4. /\ a \in Nat /\ b \in Nat /\ a = Cardinality(R) /\ b = Cardinality(A)
      /\ IsFiniteSet(R) /\ IsFiniteSet(A) /\ a + b <= MaxConcurrent[layer]
  BY <1>3 DEF LayerCount, CountType, occupancy
\* How the two sets may move, and the counters with them.
<1>5. \/ /\ R' = R \ {r} /\ r \in R /\ A' = A /\ count' = [count EXCEPT ![layer].inFlight = a - 1]
      \/ /\ R' = R \ {r} /\ r \in R /\ A' = A \union {r} /\ r \notin A
         /\ count' = [count EXCEPT ![layer].inFlight = a - 1, ![layer].abandonedLive = b + 1]
      \/ /\ R' = R /\ A' = A \ {r} /\ r \in A /\ count' = [count EXCEPT ![layer].abandonedLive = b - 1]
      \/ /\ R' = R /\ A' = A /\ count' = [count EXCEPT ![layer].abandonedLive = b]
  <2>1. CASE run[layer][r] = "running" /\ EndEvaluation(layer, r)
    <3>1. run' = [run EXCEPT ![layer][r] = "settled"] /\ count' = [count EXCEPT ![layer].inFlight = a - 1]
      BY <2>1 DEF EndEvaluation
    <3>2. Moved(layer, r, "settled")
      BY <1>1, <1>2, <3>1, InMoves
    <3>3. R' = R \ {r} /\ A' = A
      BY <1>2, <2>1, <3>2 DEF Moved
    <3>4. r \in R
      BY <2>1 DEF In
    <3> QED
      BY <3>1, <3>3, <3>4
  <2>2. CASE run[layer][r] = "running" /\ AbandonEvaluation(layer, r)
    <3>1. /\ run' = [run EXCEPT ![layer][r] = "abandoned"]
          /\ count' = [count EXCEPT ![layer].inFlight = a - 1, ![layer].abandonedLive = b + 1]
      BY <2>2 DEF AbandonEvaluation
    <3>2. Moved(layer, r, "abandoned")
      BY <1>1, <1>2, <3>1, InMoves
    <3>3. R' = R \ {r} /\ A' = A \union {r}
      BY <1>2, <2>2, <3>2, <3>1 DEF Moved
    <3>4. r \in R /\ r \notin A
      BY <2>2 DEF In
    <3> QED
      BY <3>1, <3>3, <3>4
  <2>3. CASE SettleAbandoned(layer, r) /\ run[layer][r] = "abandoned"
    <3>1. run' = [run EXCEPT ![layer][r] = "settled"] /\ count' = [count EXCEPT ![layer].abandonedLive = b - 1]
      BY <2>3 DEF SettleAbandoned
    <3>2. Moved(layer, r, "settled")
      BY <1>1, <1>2, <3>1, InMoves
    <3>3. R' = R /\ A' = A \ {r}
      BY <1>2, <2>3, <3>2, <3>1 DEF Moved
    <3>4. r \in A
      BY <2>3 DEF In
    <3> QED
      BY <3>1, <3>3, <3>4
  <2>4. CASE SettleAbandoned(layer, r) /\ run[layer][r] = "reclaimed"
    <3>1. run' = [run EXCEPT ![layer][r] = "settled"] /\ count' = [count EXCEPT ![layer].abandonedLive = b]
      BY <2>4 DEF SettleAbandoned
    <3>2. Moved(layer, r, "settled")
      BY <1>1, <1>2, <3>1, InMoves
    <3>3. R' = R /\ A' = A
      BY <1>2, <2>4, <3>2, <3>1 DEF Moved
    <3> QED
      BY <3>1, <3>3
  <2>5. CASE Reclaim(layer, r)
    <3>1. /\ run' = [run EXCEPT ![layer][r] = "reclaimed"] /\ run[layer][r] = "abandoned"
          /\ count' = [count EXCEPT ![layer].abandonedLive = b - 1]
      BY <2>5 DEF Reclaim
    <3>2. Moved(layer, r, "reclaimed")
      BY <1>1, <1>2, <3>1, InMoves
    <3>3. R' = R /\ A' = A \ {r}
      BY <1>2, <2>5, <3>2, <3>1 DEF Moved
    <3>4. r \in A
      BY <3>1 DEF In
    <3> QED
      BY <3>1, <3>3, <3>4
  <2> QED
    BY <2>1, <2>2, <2>3, <2>4, <2>5 DEF SettleAbandoned
<1>6. \A l \in Layers \ {layer} : /\ In(l, "running")' = In(l, "running")
                                  /\ In(l, "abandoned")' = In(l, "abandoned")
  <2>1. PICK state \in Evaluations : run' = [run EXCEPT ![layer][r] = state]
    BY <1>2 DEF EndEvaluation, AbandonEvaluation, SettleAbandoned, Reclaim
  <2>2. Moved(layer, r, state)
    BY <1>1, <2>1, InMoves
  <2> QED
    BY <1>2, <2>2 DEF Moved
<1>7. \A l \in Layers \ {layer} : count'[l] = count[l]
  BY <1>3, <1>5 DEF CountType
<1> HIDE DEF a, b, R, A
<1>8. /\ r \in R => IsFiniteSet(R \ {r}) /\ Cardinality(R \ {r}) = a - 1 /\ a - 1 \in Nat
      /\ r \in A => IsFiniteSet(A \ {r}) /\ Cardinality(A \ {r}) = b - 1 /\ b - 1 \in Nat
      /\ r \notin A => IsFiniteSet(A \union {r}) /\ Cardinality(A \union {r}) = b + 1
  BY <1>4, CountsMove
<1>9. \E x, y \in Nat :
         /\ IsFiniteSet(R') /\ IsFiniteSet(A') /\ x = Cardinality(R') /\ y = Cardinality(A')
         /\ x + y <= MaxConcurrent[layer]
         /\ count' = [count EXCEPT ![layer].inFlight = x, ![layer].abandonedLive = y]
  <2>1. \A x, y : /\ x = a => [count EXCEPT ![layer].inFlight = x, ![layer].abandonedLive = y]
                                = [count EXCEPT ![layer].abandonedLive = y]
                  /\ y = b => [count EXCEPT ![layer].inFlight = x, ![layer].abandonedLive = y]
                                = [count EXCEPT ![layer].inFlight = x]
    BY <1>3 DEF CountType, a, b
  <2>2. CASE R' = R \ {r} /\ r \in R /\ A' = A /\ count' = [count EXCEPT ![layer].inFlight = a - 1]
    <3>1. a - 1 \in Nat /\ (a - 1) + b <= MaxConcurrent[layer]
      BY ONLY <1>3, <1>4, <1>8, <2>2
    <3>2. count' = [count EXCEPT ![layer].inFlight = a - 1, ![layer].abandonedLive = b]
      BY <2>1, <2>2
    <3> QED
      BY <1>4, <1>8, <2>2, <3>1, <3>2
  <2>3. CASE /\ R' = R \ {r} /\ r \in R /\ A' = A \union {r} /\ r \notin A
             /\ count' = [count EXCEPT ![layer].inFlight = a - 1, ![layer].abandonedLive = b + 1]
    <3>1. a - 1 \in Nat /\ b + 1 \in Nat /\ (a - 1) + (b + 1) <= MaxConcurrent[layer]
      BY ONLY <1>3, <1>4, <1>8, <2>3
    <3> QED
      BY <1>4, <1>8, <2>3, <3>1
  <2>4. CASE R' = R /\ A' = A \ {r} /\ r \in A /\ count' = [count EXCEPT ![layer].abandonedLive = b - 1]
    <3>1. b - 1 \in Nat /\ a + (b - 1) <= MaxConcurrent[layer]
      BY ONLY <1>3, <1>4, <1>8, <2>4
    <3>2. count' = [count EXCEPT ![layer].inFlight = a, ![layer].abandonedLive = b - 1]
      BY <2>1, <2>4
    <3> QED
      BY <1>4, <1>8, <2>4, <3>1, <3>2
  <2>5. CASE R' = R /\ A' = A /\ count' = [count EXCEPT ![layer].abandonedLive = b]
    <3>1. count' = [count EXCEPT ![layer].inFlight = a, ![layer].abandonedLive = b]
      BY <2>1, <2>5
    <3> QED
      BY <1>4, <2>5, <3>1
  <2> QED
    BY <1>5, <2>2, <2>3, <2>4, <2>5
<1>10. CountType' /\ LayerCount(layer)'
  <2>1. PICK x \in Nat, y \in Nat :
           /\ IsFiniteSet(R') /\ IsFiniteSet(A') /\ x = Cardinality(R') /\ y = Cardinality(A')
           /\ x + y <= MaxConcurrent[layer]
           /\ count' = [count EXCEPT ![layer].inFlight = x, ![layer].abandonedLive = y]
    BY <1>9
  <2>2. CountType' /\ count'[layer].inFlight = x /\ count'[layer].abandonedLive = y
    BY <1>3, <2>1 DEF CountType
  <2> QED
    BY <2>1, <2>2 DEF LayerCount, occupancy, R, A
<1>11. \A l \in Layers \ {layer} : LayerCount(l)'
  BY <1>6, <1>7, CountParts, OtherLayerStays
<1> QED
  BY <1>10, <1>11 DEF CountInv, CountType, LayerCount

\* The point of a handler moved from one to another, none of it back before an evaluation.
Onward(layer, from, to) ==
  /\ to \in Ahead[layer] => from \in Ahead[layer]
  /\ to = EvaluatedAt[layer] <=> from = EvaluatedAt[layer]

LEMMA RunStays ==
  ASSUME RunInv, run' = run,
         \A x \in Requests : \A layer \in Layers : Onward(layer, req[x].pc, req'[x].pc)
  PROVE  RunInv'
BY DEF RunInv, Onward

\* One request moves, and with it at most its evaluation by one layer.
LEMMA RunMoves ==
  ASSUME RunInv, NEW layer \in Layers, NEW r \in Requests, NEW state \in Evaluations,
         run' = [run EXCEPT ![layer][r] = state],
         \A x \in Requests \ {r} : req'[x] = req[x],
         req'[r].pc \notin Ahead[layer], state = "running" <=> req'[r].pc = EvaluatedAt[layer],
         \A l \in Layers \ {layer} : Onward(l, req[r].pc, req'[r].pc)
  PROVE  RunInv'
<1>1. /\ run' \in [Layers -> [Requests -> Evaluations]]
      /\ \A l \in Layers, x \in Requests : run'[l][x] = IF l = layer /\ x = r THEN state ELSE run[l][x]
  BY InMoves DEF RunInv
<1>2. ASSUME NEW l \in Layers, NEW x \in Requests
      PROVE  /\ req'[x].pc \in Ahead[l] => run'[l][x] = "none"
             /\ run'[l][x] = "running" <=> req'[x].pc = EvaluatedAt[l]
  <2>1. CASE x # r
    BY <1>1, <2>1 DEF RunInv
  <2>2. CASE x = r /\ l = layer
    BY <1>1, <2>2
  <2>3. CASE x = r /\ l # layer
    BY <1>1, <2>3 DEF RunInv, Onward
  <2> QED
    BY <2>1, <2>2, <2>3
<1> QED
  BY <1>1, <1>2 DEF RunInv

LEMMA OneRequest ==
  ASSUME PlaneInv, NEW r \in Requests, NEW q, StoryInv(q), Become(r, q)
  PROVE  /\ req' \in [Requests -> RequestType] /\ \A x \in Requests : StoryInv(req'[x])
         /\ req'[r] = q /\ \A x \in Requests \ {r} : req'[x] = req[x]
<1>1. q \in RequestType
  BY DEF StoryInv
<1>2. req \in [Requests -> RequestType] /\ req' = [req EXCEPT ![r] = q]
  BY DEF PlaneInv, Become
<1>3. req' \in [Requests -> RequestType] /\ req'[r] = q /\ \A x \in Requests \ {r} : req'[x] = req[x]
  BY <1>1, <1>2
<1>4. \A x \in Requests : StoryInv(req'[x])
  BY <1>3 DEF PlaneInv
<1> QED
  BY <1>3, <1>4

\* A step of one handler that starts and ends no evaluation.
LEMMA HandlerStep ==
  ASSUME PlaneInv, NEW r \in Requests, NEW q, StoryInv(q), Become(r, q), UNCHANGED <<ingress, run, count>>,
         \A layer \in Layers : Onward(layer, req[r].pc, q.pc)
  PROVE  PlaneInv'
<1>1. /\ req' \in [Requests -> RequestType] /\ \A x \in Requests : StoryInv(req'[x])
      /\ req'[r] = q /\ \A x \in Requests \ {r} : req'[x] = req[x]
  BY OneRequest
<1>2. \A x \in Requests : \A layer \in Layers : Onward(layer, req[x].pc, req'[x].pc)
  BY <1>1 DEF Onward
<1>3. RunInv'
  BY <1>2, RunStays DEF PlaneInv
<1>4. CountInv'
  BY DEF PlaneInv, CountInv, In, occupancy
<1>5. \A x \in Requests : StoryInv(req[x])'
  BY <1>1
<1> QED
  BY <1>1, <1>3, <1>4, <1>5 DEF PlaneInv

\* A step of one handler that starts its evaluation by a layer.
LEMMA EvaluationStarts ==
  ASSUME PlaneInv, NEW r \in Requests, NEW q, StoryInv(q), Become(r, q), ingress' = ingress,
         NEW layer \in Layers, ~IsSaturated(layer), StartEvaluation(layer, r),
         req[r].pc \in Ahead[layer], q.pc = EvaluatedAt[layer], q.pc \notin Ahead[layer],
         \A l \in Layers \ {layer} : Onward(l, req[r].pc, q.pc)
  PROVE  PlaneInv'
<1>1. /\ req' \in [Requests -> RequestType] /\ \A x \in Requests : StoryInv(req'[x])
      /\ req'[r] = q /\ \A x \in Requests \ {r} : req'[x] = req[x]
  BY OneRequest
<1>2. RunInv /\ CountInv
  BY DEF PlaneInv
<1>3. run[layer][r] = "none"
  BY <1>2 DEF RunInv
<1>4. run' = [run EXCEPT ![layer][r] = "running"] /\ "running" \in Evaluations
  BY DEF StartEvaluation, Evaluations
<1>5. RunInv'
  BY <1>1, <1>2, <1>4, RunMoves
<1>6. CountInv'
  BY <1>2, <1>3, StartCounts
<1>7. \A x \in Requests : StoryInv(req[x])'
  BY <1>1
<1> QED
  BY <1>1, <1>5, <1>6, <1>7 DEF PlaneInv

\* A step of one handler with the end of its evaluation by a layer, or without waiting for it.
LEMMA EvaluationEnds ==
  ASSUME PlaneInv, NEW r \in Requests, NEW q, StoryInv(q), Become(r, q), ingress' = ingress,
         NEW layer \in Layers, EndEvaluation(layer, r) \/ AbandonEvaluation(layer, r),
         req[r].pc = EvaluatedAt[layer], q.pc # EvaluatedAt[layer], q.pc \notin Ahead[layer],
         \A l \in Layers \ {layer} : Onward(l, req[r].pc, q.pc)
  PROVE  PlaneInv'
<1>1. /\ req' \in [Requests -> RequestType] /\ \A x \in Requests : StoryInv(req'[x])
      /\ req'[r] = q /\ \A x \in Requests \ {r} : req'[x] = req[x]
  BY OneRequest
<1>2. RunInv /\ CountInv
  BY DEF PlaneInv
<1>3. run[layer][r] = "running"
  BY <1>2 DEF RunInv
<1>4. PICK state \in Evaluations : run' = [run EXCEPT ![layer][r] = state] /\ state # "running"
  BY DEF EndEvaluation, AbandonEvaluation, Evaluations
<1>5. RunInv'
  BY <1>1, <1>2, <1>4, RunMoves
<1>6. CountInv'
  BY <1>2, <1>3, PlaceCounts
<1>7. \A x \in Requests : StoryInv(req[x])'
  BY <1>1
<1> QED
  BY <1>1, <1>5, <1>6, <1>7 DEF PlaneInv

\* An abandoned evaluation settles, or its place is reclaimed: no handler waits for it.
LEMMA PlaceStep ==
  ASSUME PlaneInv, NEW layer \in Layers, NEW r \in Requests, SettleAbandoned(layer, r) \/ Reclaim(layer, r)
  PROVE  PlaneInv'
<1>1. RunInv /\ CountInv
  BY DEF PlaneInv
<1>2. run \in [Layers -> [Requests -> Evaluations]]
  BY <1>1 DEF RunInv
<1>3. PICK state \in Evaluations : run' = [run EXCEPT ![layer][r] = state] /\ state \notin {"none", "running"}
  BY DEF SettleAbandoned, Reclaim, Evaluations
<1>4. run[layer][r] \notin {"none", "running"} /\ UNCHANGED <<ingress, req>>
  BY DEF SettleAbandoned, Reclaim
<1>5. RunInv'
  <2>1. /\ run' \in [Layers -> [Requests -> Evaluations]]
        /\ \A l \in Layers, x \in Requests : run'[l][x] = IF l = layer /\ x = r THEN state ELSE run[l][x]
    BY <1>2, <1>3, InMoves
  <2>2. ASSUME NEW l \in Layers, NEW x \in Requests
        PROVE  /\ req'[x].pc \in Ahead[l] => run'[l][x] = "none"
               /\ run'[l][x] = "running" <=> req'[x].pc = EvaluatedAt[l]
    <3>1. CASE l = layer /\ x = r
      BY <1>1, <1>3, <1>4, <2>1, <3>1 DEF RunInv
    <3>2. CASE ~(l = layer /\ x = r)
      BY <1>1, <1>4, <2>1, <3>2 DEF RunInv
    <3> QED
      BY <3>1, <3>2
  <2> QED
    BY <2>1, <2>2 DEF RunInv
<1>6. CountInv'
  BY <1>1, PlaceCounts
<1> QED
  BY <1>4, <1>5, <1>6 DEF PlaneInv

LEMMA AfterL1Point ==
  ASSUME NEW q \in RequestType, NEW outcome \in {"pass", "reject", "shed", "error"}
  PROVE  AfterL1(q, outcome).pc \in {"l2", "closing"}
<1>1. \A x \in EventKinds : Emit(q, x) \in RequestType
  BY EmitAppends
<1>2. "L1_PASSED" \in EventKinds /\ "L2_ENTERED" \in EventKinds /\ L1Refusals \subseteq EventKinds
  BY DEF EventKinds, Verdicts, L1Refusals
<1>3. 400 \in Nat /\ 503 \in Nat
  OBVIOUS
<1>4. CASE outcome = "pass" \/ SimulatesL1(q, outcome)
  <2> DEFINE f == Emit(Emit(q, "L1_PASSED"), "L2_ENTERED")
  <2>1. f \in RequestType
    BY <1>1, <1>2, EmitAppends
  <2>2. AfterL1(q, outcome) = [f EXCEPT !.pc = "l2", !.simulated = SimulatesL1(q, outcome)]
    BY <1>4 DEF AfterL1
  <2> HIDE DEF f
  <2> QED
    BY <2>1, <2>2 DEF RequestType
<1>5. CASE ~(outcome = "pass" \/ SimulatesL1(q, outcome))
  <2>1. \E v \in L1Refusals, status \in Nat : AfterL1(q, outcome) = Answer(Emit(q, v), status)
    BY <1>3, <1>5 DEF AfterL1, L1Refusals
  <2> QED
    BY <1>1, <1>2, <2>1, AnswerCloses
<1> QED
  BY <1>4, <1>5

LEMMA AfterL2Point ==
  ASSUME NEW q \in RequestType, NEW d, Shaped(q.class, d)
  PROVE  AfterL2(q, d).pc \in {"issue", "closing"}
<1> DEFINE s == q.simulated \/ SimulatesL2(q, d)
           v == Delivered(q, d)
           e == Emit(q, "L2_DECIDED")
           decided == WithDecision(q, d)
<1>1. "L2_DECIDED" \in EventKinds /\ "EGRESS_ATTEMPTED" \in EventKinds
  BY DEF EventKinds
<1>2. e \in RequestType /\ v \in Decisions
  BY <1>1, EmitAppends, DeliveredIsValid
<1>3. s \in BOOLEAN
  BY DEF SimulatesL2, RequestType
<1>4. AfterL2(q, d) = IF proceeds(v)
                      THEN [Emit(decided, "EGRESS_ATTEMPTED") EXCEPT
                               !.pc = "issue", !.observed = observe(decided)]
                      ELSE Answer(decided, 503)
  BY DEF AfterL2
<1>5. decided \in RequestType
  <2>1. decided = [e EXCEPT !.decision = v, !.simulated = s]
    BY DEF WithDecision
  <2> HIDE DEF s, v, e, decided
  <2> QED
    BY <1>2, <1>3, <2>1 DEF RequestType
<1> HIDE DEF s, v, e, decided
<1>6. Emit(decided, "EGRESS_ATTEMPTED") \in RequestType
  BY <1>1, <1>5, EmitAppends
<1>7. Answer(decided, 503).pc = "closing"
  <2>1. 503 \in Nat
    BY ONLY TRUE
  <2> QED
    BY ONLY <1>5, <2>1, AnswerCloses
<1>8. [Emit(decided, "EGRESS_ATTEMPTED") EXCEPT !.pc = "issue", !.observed = observe(decided)].pc = "issue"
  BY <1>6 DEF RequestType
<1> QED
  BY <1>4, <1>7, <1>8

-----------------------------------------------------------------------------
(* The steps                                                               *)

LEMMA PointsOnward ==
  ASSUME NEW layer \in Layers
  PROVE  /\ \A pc : Onward(layer, pc, pc)
         /\ \A to \in {"body", "l1"} : Onward(layer, "idle", to)
         /\ Onward(layer, "body", "l1")
         /\ \A to \in {"l2", "closing"} : Onward(layer, "l1", to)
         /\ \A to \in {"issue", "closing"} : Onward(layer, "l2", to)
         /\ \A to \in {"forward", "closing"} : Onward(layer, "issue", to)
         /\ Onward(layer, "forward", "closing") /\ Onward(layer, "closing", "done")
<1>1. CASE layer = "l1"
  <2>1. Ahead[layer] = {"idle", "body", "l1"} /\ EvaluatedAt[layer] = "l1_runs"
    BY <1>1 DEF Ahead, EvaluatedAt
  <2> QED
    BY <2>1 DEF Onward
<1>2. CASE layer = "l2"
  <2>1. Ahead[layer] = {"idle", "body", "l1", "l1_runs", "l2"} /\ EvaluatedAt[layer] = "l2_runs"
    BY <1>2 DEF Ahead, EvaluatedAt
  <2> QED
    BY <2>1 DEF Onward
<1> QED
  BY <1>1, <1>2 DEF Layers

LEMMA EvaluationPoints ==
  /\ "l1" \in Layers /\ "l2" \in Layers /\ Layers \ {"l1"} = {"l2"} /\ Layers \ {"l2"} = {"l1"}
  /\ EvaluatedAt["l1"] = "l1_runs" /\ EvaluatedAt["l2"] = "l2_runs"
  /\ "l1" \in Ahead["l1"] /\ "l2" \in Ahead["l2"]
  /\ "l1_runs" \notin Ahead["l1"] /\ "l2" \notin Ahead["l1"] /\ "closing" \notin Ahead["l1"]
  /\ "l2_runs" \notin Ahead["l2"] /\ "issue" \notin Ahead["l2"] /\ "closing" \notin Ahead["l2"]
  /\ Onward("l2", "l1", "l1_runs") /\ \A to \in {"l2", "closing"} : Onward("l2", "l1_runs", to)
  /\ Onward("l1", "l2", "l2_runs") /\ \A to \in {"issue", "closing"} : Onward("l1", "l2_runs", to)
BY DEF Layers, Onward, Ahead, EvaluatedAt

LEMMA InitStep ==
  PlaneInit => PlaneInv
<1> SUFFICES ASSUME PlaneInit PROVE PlaneInv
  OBVIOUS
<1>1. Idle \in RequestType
  <2>1. << >> \in Seq(EventKinds) /\ 0 \in Nat
    OBVIOUS
  <2>2. NoDecision \in Decisions
    BY NoDecisionIsExplained
  <2>3. /\ "idle" \in Stages /\ "open" \in Classes /\ "none" \in Bodies /\ "none" \in Arms
        /\ "none" \in Observations /\ "none" \in Reasons /\ 0 \in Upstreams /\ "none" \in Failures
    BY DEF Stages, Classes, Bodies, Arms, Observations, Reasons, Upstreams, Failures
  <2> QED
    BY <2>1, <2>2, <2>3 DEF Idle, RequestType
<1>2. StoryInv(Idle)
  BY <1>1, NoDecisionIsExplained DEF StoryInv, Idle, Untouched
<1>3. req \in [Requests -> RequestType] /\ \A r \in Requests : StoryInv(req[r])
  BY <1>1, <1>2 DEF PlaneInit
<1>4. RunInv
  <2>1. run \in [Layers -> [Requests -> Evaluations]]
    BY DEF PlaneInit, Evaluations
  <2>2. \A layer \in Layers, r \in Requests : run[layer][r] = "none" /\ req[r].pc = "idle"
    BY DEF PlaneInit, Idle
  <2>3. EvaluatedAt["l1"] # "idle" /\ EvaluatedAt["l2"] # "idle"
    BY EvaluationPoints
  <2>4. \A layer \in Layers : EvaluatedAt[layer] # "idle"
    BY <2>3 DEF Layers
  <2> QED
    BY <2>1, <2>2, <2>4 DEF RunInv
<1>5. CountInv
  <2>1. count \in [Layers -> [inFlight : Nat, abandonedLive : Nat]]
    BY DEF PlaneInit
  <2>2. ASSUME NEW layer \in Layers
        PROVE  LayerCount(layer)
    <3>1. In(layer, "running") = {} /\ In(layer, "abandoned") = {}
      BY DEF PlaneInit, In
    <3>2. IsFiniteSet({}) /\ Cardinality({}) = 0
      BY FS_EmptySet
    <3>3. count[layer].inFlight = 0 /\ count[layer].abandonedLive = 0
      BY DEF PlaneInit
    <3>4. MaxConcurrent[layer] \in Nat /\ 0 + 0 <= MaxConcurrent[layer]
      BY BulkheadAssumption
    <3> QED
      BY <3>1, <3>2, <3>3, <3>4 DEF LayerCount, occupancy
  <2> QED
    BY <2>1, <2>2 DEF CountInv, LayerCount
<1> QED
  BY <1>3, <1>4, <1>5 DEF PlaneInv, PlaneInit

LEMMA AcceptStep ==
  ASSUME PlaneInv, NEW r \in Requests, NEW kind \in Kinds[r], Accept(r, kind)
  PROVE  PlaneInv'
<1> DEFINE p == [Emit(req[r], "INGRESS_ACCEPTED") EXCEPT
                    !.pc = IF kind.body = "pending" THEN "body" ELSE "l1",
                    !.class = kind.class, !.form = kind.form, !.body = kind.body, !.arm = kind.arm]
<1>1. StoryInv(req[r]) /\ req[r].pc = "idle" /\ Become(r, p) /\ UNCHANGED <<ingress, run, count>>
  BY DEF PlaneInv, Accept
<1>2. kind \in [class : Classes, form : BOOLEAN, arm : Arms, body : Bodies] /\ (kind.form => kind.class = "open")
  BY KindsAssumption
<1>3. StoryInv(p)
  <2> HIDE DEF p
  <2>1. p = [Emit(req[r], "INGRESS_ACCEPTED") EXCEPT
                !.pc = IF kind.body = "pending" THEN "body" ELSE "l1",
                !.class = kind.class, !.form = kind.form, !.body = kind.body, !.arm = kind.arm]
    BY DEF p
  <2> QED
    BY ONLY <1>1, <1>2, <2>1, AcceptStory, ZenonT(30)
<1>4. p.pc \in {"body", "l1"}
  <2> DEFINE e == Emit(req[r], "INGRESS_ACCEPTED")
  <2>1. e \in RequestType
    BY <1>1, EmitAppends DEF StoryInv, EventKinds
  <2> HIDE DEF e
  <2> QED
    BY <2>1 DEF RequestType, e
<1> HIDE DEF p
<1>5. \A layer \in Layers : Onward(layer, req[r].pc, p.pc)
  BY <1>1, <1>4, PointsOnward
<1> QED
  BY <1>1, <1>3, <1>5, HandlerStep

LEMMA ReadStep ==
  ASSUME PlaneInv, NEW r \in Requests, NEW status \in {"complete", "incomplete"}, ReadBody(r, status)
  PROVE  PlaneInv'
<1> DEFINE p == [req[r] EXCEPT !.pc = "l1", !.body = status]
<1>1. StoryInv(req[r]) /\ req[r].pc = "body" /\ Become(r, p) /\ UNCHANGED <<ingress, run, count>>
  BY DEF PlaneInv, ReadBody
<1>2. StoryInv(p)
  <2> HIDE DEF p
  <2>1. p = [req[r] EXCEPT !.pc = "l1", !.body = status]
    BY DEF p
  <2> QED
    BY ONLY status \in {"complete", "incomplete"}, <1>1, <2>1, ReadStory, ZenonT(30)
<1>3. p.pc = "l1"
  BY <1>1 DEF StoryInv, RequestType
<1> HIDE DEF p
<1>4. \A layer \in Layers : Onward(layer, req[r].pc, p.pc)
  BY <1>1, <1>3, PointsOnward
<1> QED
  BY <1>1, <1>2, <1>4, HandlerStep

LEMMA EnterL1Step ==
  ASSUME PlaneInv, NEW r \in Requests, EnterL1(r)
  PROVE  PlaneInv'
<1> DEFINE e == Emit(req[r], "L1_ENTERED")
<1>1. StoryInv(req[r]) /\ req[r].pc = "l1" /\ ingress' = ingress
  BY DEF PlaneInv, EnterL1
<1>2. AtVerdict(e)
  BY <1>1, EnteredL1
<1>3. CASE IsSaturated("l1")
  <2>1. Become(r, AfterL1(e, "shed")) /\ UNCHANGED <<ingress, run, count>>
    BY <1>1, <1>3 DEF EnterL1
  <2>2. StoryInv(AfterL1(e, "shed"))
    BY <1>2, AfterL1Story
  <2>3. AfterL1(e, "shed").pc \in {"l2", "closing"}
    BY <1>2, AfterL1Point DEF AtVerdict
  <2>4. \A layer \in Layers : Onward(layer, req[r].pc, AfterL1(e, "shed").pc)
    BY <1>1, <2>3, PointsOnward
  <2> QED
    BY <2>1, <2>2, <2>4, HandlerStep
<1>4. CASE ~IsSaturated("l1")
  <2> DEFINE p == [e EXCEPT !.pc = "l1_runs"]
  <2>1. Become(r, p) /\ StartEvaluation("l1", r)
    BY <1>4 DEF EnterL1
  <2>2. StoryInv(p)
    BY <1>2, StageStory
  <2>3. p.pc = "l1_runs"
    BY <1>2 DEF AtVerdict, RequestType
  <2> HIDE DEF p
  <2>4. /\ "l1" \in Layers /\ p.pc = EvaluatedAt["l1"] /\ p.pc \notin Ahead["l1"]
        /\ req[r].pc \in Ahead["l1"] /\ \A l \in Layers \ {"l1"} : Onward(l, req[r].pc, p.pc)
    BY <1>1, <2>3, EvaluationPoints
  <2> QED
    BY <1>1, <1>4, <2>1, <2>2, <2>4, EvaluationStarts
<1> QED
  BY <1>3, <1>4

LEMMA L1EndsStep ==
  ASSUME PlaneInv, NEW r \in Requests, NEW outcome \in {"pass", "reject", "error"},
         req[r].pc = "l1_runs", Become(r, AfterL1(req[r], outcome)), ingress' = ingress,
         EndEvaluation("l1", r) \/ AbandonEvaluation("l1", r)
  PROVE  PlaneInv'
<1> DEFINE p == AfterL1(req[r], outcome)
<1>1. StoryInv(req[r])
  BY DEF PlaneInv
<1>2. AtVerdict(req[r])
  BY <1>1 DEF StoryInv, AtVerdict
<1>3. StoryInv(p) /\ p.pc \in {"l2", "closing"}
  BY <1>2, AfterL1Story, AfterL1Point DEF AtVerdict
<1> HIDE DEF p
<1>4. /\ "l1" \in Layers /\ p.pc \notin Ahead["l1"] /\ p.pc # EvaluatedAt["l1"]
      /\ req[r].pc = EvaluatedAt["l1"] /\ \A l \in Layers \ {"l1"} : Onward(l, req[r].pc, p.pc)
  BY <1>3, EvaluationPoints
<1>5. Become(r, p)
  BY DEF p
<1> QED
  BY <1>3, <1>4, <1>5, EvaluationEnds

LEMMA EnterL2Step ==
  ASSUME PlaneInv, NEW r \in Requests, EnterL2(r)
  PROVE  PlaneInv'
<1>1. StoryInv(req[r]) /\ req[r].pc = "l2" /\ ingress' = ingress
  BY DEF PlaneInv, EnterL2
<1>2. req[r] \in RequestType /\ req[r].class \in Classes
  BY <1>1 DEF StoryInv, RequestType
<1>3. CASE IsSaturated("l2")
  <2> DEFINE d == failureDecision(req[r].class, "saturation")
             p == AfterL2(req[r], d)
  <2>1. Become(r, p) /\ UNCHANGED <<ingress, run, count>>
    BY <1>1, <1>3 DEF EnterL2
  <2>2. Shaped(req[r].class, d)
    BY <1>2, DecisionsAreShaped DEF Deciding
  <2> HIDE DEF d
  <2>3. StoryInv(p) /\ p.pc \in {"issue", "closing"}
    BY <1>1, <1>2, <2>2, AfterL2Story, AfterL2Point
  <2> HIDE DEF p
  <2>4. \A layer \in Layers : Onward(layer, req[r].pc, p.pc)
    BY <1>1, <2>3, PointsOnward
  <2> QED
    BY <2>1, <2>3, <2>4, HandlerStep
<1>4. CASE ~IsSaturated("l2")
  <2> DEFINE p == [req[r] EXCEPT !.pc = "l2_runs"]
  <2>1. Become(r, p) /\ StartEvaluation("l2", r)
    BY <1>4 DEF EnterL2
  <2>2. StoryInv(p)
    BY <1>1, StageStory
  <2>3. p.pc = "l2_runs"
    BY <1>2 DEF RequestType
  <2> HIDE DEF p
  <2>4. /\ "l2" \in Layers /\ p.pc = EvaluatedAt["l2"] /\ p.pc \notin Ahead["l2"]
        /\ req[r].pc \in Ahead["l2"] /\ \A l \in Layers \ {"l2"} : Onward(l, req[r].pc, p.pc)
    BY <1>1, <2>3, EvaluationPoints
  <2> QED
    BY <1>1, <1>4, <2>1, <2>2, <2>4, EvaluationStarts
<1> QED
  BY <1>3, <1>4

LEMMA L2EndsStep ==
  ASSUME PlaneInv, NEW r \in Requests, NEW d \in Deciding(req[r].class),
         req[r].pc = "l2_runs", Become(r, AfterL2(req[r], d)), ingress' = ingress,
         EndEvaluation("l2", r) \/ AbandonEvaluation("l2", r)
  PROVE  PlaneInv'
<1> DEFINE p == AfterL2(req[r], d)
<1>1. StoryInv(req[r])
  BY DEF PlaneInv
<1>2. req[r] \in RequestType /\ req[r].class \in Classes
  BY <1>1 DEF StoryInv, RequestType
<1>3. Shaped(req[r].class, d)
  BY <1>2, DecisionsAreShaped
<1>4. StoryInv(p) /\ p.pc \in {"issue", "closing"}
  BY <1>1, <1>2, <1>3, AfterL2Story, AfterL2Point
<1> HIDE DEF p
<1>5. /\ "l2" \in Layers /\ p.pc \notin Ahead["l2"] /\ p.pc # EvaluatedAt["l2"]
      /\ req[r].pc = EvaluatedAt["l2"] /\ \A l \in Layers \ {"l2"} : Onward(l, req[r].pc, p.pc)
  BY <1>4, EvaluationPoints
<1>6. Become(r, p)
  BY DEF p
<1> QED
  BY <1>4, <1>5, <1>6, EvaluationEnds

LEMMA IssueStep ==
  ASSUME PlaneInv, NEW r \in Requests, IssueProof(r)
  PROVE  PlaneInv'
<1>1. StoryInv(req[r]) /\ req[r].pc = "issue" /\ UNCHANGED <<ingress, run, count>>
  BY DEF PlaneInv, IssueProof
<1>2. CASE Become(r, [Emit(req[r], "PROOF_ISSUED") EXCEPT !.pc = "forward"])
  <2> DEFINE p == [Emit(req[r], "PROOF_ISSUED") EXCEPT !.pc = "forward"]
  <2>1. StoryInv(p) /\ p.pc = "forward"
    BY <1>1, IssueStory
  <2> HIDE DEF p
  <2>2. \A layer \in Layers : Onward(layer, req[r].pc, p.pc)
    BY <1>1, <2>1, PointsOnward
  <2>3. Become(r, p)
    BY <1>2 DEF p
  <2> QED
    BY <1>1, <2>1, <2>2, <2>3, HandlerStep
<1>3. CASE Become(r, Answer([Emit(req[r], "EGRESS_FAILED") EXCEPT !.failed = "error"], 502))
  <2> DEFINE p == Failed(req[r], "error")
  <2>1. StoryInv(p) /\ p.pc = "closing"
    BY <1>1, FailStory
  <2>2. Become(r, p)
    <3>1. p = Answer([Emit(req[r], "EGRESS_FAILED") EXCEPT !.failed = "error"], 502)
      BY DEF Failed
    <3> QED
      BY <1>3, <3>1
  <2> HIDE DEF p
  <2>3. \A layer \in Layers : Onward(layer, req[r].pc, p.pc)
    BY <1>1, <2>1, PointsOnward
  <2> QED
    BY <1>1, <2>1, <2>2, <2>3, HandlerStep
<1> QED
  BY <1>2, <1>3 DEF IssueProof

LEMMA RespondStep ==
  ASSUME PlaneInv, NEW r \in Requests, NEW status \in {200, 404}, UpstreamResponds(r, status)
  PROVE  PlaneInv'
<1> DEFINE p == Responded(req[r], status)
<1>1. StoryInv(req[r]) /\ req[r].pc = "forward" /\ UNCHANGED <<ingress, run, count>>
  BY DEF PlaneInv, UpstreamResponds
<1>2. Become(r, p)
  BY DEF UpstreamResponds, Responded
<1>3. StoryInv(p) /\ p.pc = "closing"
  BY <1>1, RespondStory
<1> HIDE DEF p
<1>4. \A layer \in Layers : Onward(layer, req[r].pc, p.pc)
  BY <1>1, <1>3, PointsOnward
<1> QED
  BY <1>1, <1>2, <1>3, <1>4, HandlerStep

LEMMA FailStep ==
  ASSUME PlaneInv, NEW r \in Requests, NEW kind \in {"timeout", "error"}, UpstreamFails(r, kind)
  PROVE  PlaneInv'
<1> DEFINE p == Failed(req[r], kind)
<1>1. StoryInv(req[r]) /\ req[r].pc = "forward" /\ UNCHANGED <<ingress, run, count>>
  BY DEF PlaneInv, UpstreamFails
<1>2. Become(r, p)
  BY DEF UpstreamFails, Failed
<1>3. StoryInv(p) /\ p.pc = "closing"
  BY <1>1, FailStory
<1> HIDE DEF p
<1>4. \A layer \in Layers : Onward(layer, req[r].pc, p.pc)
  BY <1>1, <1>3, PointsOnward
<1> QED
  BY <1>1, <1>2, <1>3, <1>4, HandlerStep

LEMMA FinishStep ==
  ASSUME PlaneInv, NEW r \in Requests, Finish(r)
  PROVE  PlaneInv'
<1> DEFINE f == [req[r] EXCEPT !.flushed = TRUE]
<1>1. /\ StoryInv(req[r]) /\ req[r].pc = "closing" /\ req[r].up /\ ~req[r].flushed
      /\ UNCHANGED <<ingress, run, count>>
  BY DEF PlaneInv, Finish
<1>2. f.observed = req[r].observed
  BY <1>1 DEF StoryInv, RequestType
<1>3. PICK p : /\ Become(r, p)
               /\ \/ req[r].observed # "good" /\ p = f
                  \/ /\ req[r].observed = "good"
                     /\ \E kind \in Dispositions : Disposes(f, kind, p)
  <2>1. CASE req[r].observed = "good"
    <3>1. Become(r, Dispose(f, "L2_ENROLLED", "none")) \/ Become(r, Dispose(f, "L2_ENROLL_SKIPPED", "other"))
      BY <1>2, <2>1 DEF Finish
    <3>2. /\ Disposes(f, "L2_ENROLLED", Dispose(f, "L2_ENROLLED", "none"))
          /\ Disposes(f, "L2_ENROLL_SKIPPED", Dispose(f, "L2_ENROLL_SKIPPED", "other"))
      BY DEF Disposes
    <3> QED
      BY <2>1, <3>1, <3>2 DEF Dispositions
  <2>2. CASE req[r].observed # "good"
    <3>1. Become(r, f)
      BY <1>2, <2>2 DEF Finish
    <3> QED
      BY <2>2, <3>1
  <2> QED
    BY <2>1, <2>2
<1>4. StoryInv(p) /\ p.pc = "closing"
  BY <1>1, <1>3, FinishStory
<1>5. \A layer \in Layers : Onward(layer, req[r].pc, p.pc)
  BY <1>1, <1>4, PointsOnward
<1> QED
  BY <1>1, <1>3, <1>4, <1>5, HandlerStep

LEMMA CloseStep ==
  ASSUME PlaneInv, NEW r \in Requests, Close(r)
  PROVE  PlaneInv'
<1> DEFINE p == [Emit(finalize(req[r]), IF req[r].flushed THEN "INGRESS_RESPONDED" ELSE "INGRESS_ABORTED")
                   EXCEPT !.pc = "done"]
<1>1. StoryInv(req[r]) /\ req[r].pc = "closing" /\ Become(r, p) /\ UNCHANGED <<ingress, run, count>>
  BY DEF PlaneInv, Close
<1>2. StoryInv(p) /\ p.pc = "done"
  BY <1>1, CloseStory
<1> HIDE DEF p
<1>3. \A layer \in Layers : Onward(layer, req[r].pc, p.pc)
  BY <1>1, <1>2, PointsOnward
<1> QED
  BY <1>1, <1>2, <1>3, HandlerStep

LEMMA DisconnectStep ==
  ASSUME PlaneInv, NEW r \in Requests, Disconnect(r)
  PROVE  PlaneInv'
<1> DEFINE p == [req[r] EXCEPT !.up = FALSE]
<1>1. StoryInv(req[r]) /\ Become(r, p) /\ UNCHANGED <<ingress, run, count>>
  BY DEF PlaneInv, Disconnect
<1>2. StoryInv(p) /\ p.pc = req[r].pc
  BY <1>1, GoneStory
<1> HIDE DEF p
<1>3. \A layer \in Layers : Onward(layer, req[r].pc, p.pc)
  BY <1>2, PointsOnward
<1> QED
  BY <1>1, <1>2, <1>3, HandlerStep

\* Closing the front touches no handler's point: it only breaks connections.
LEMMA FrontStep ==
  ASSUME PlaneInv, CloseIngress \/ DestroySockets
  PROVE  PlaneInv'
<1>1. UNCHANGED <<run, count>> /\ ingress' \in {"open", "closing", "destroyed"}
  BY DEF CloseIngress, DestroySockets
<1>2. /\ \A r \in Requests : StoryInv(req'[r]) /\ req'[r].pc = req[r].pc
      /\ req' \in [Requests -> RequestType]
  <2>1. CASE CloseIngress
    BY <2>1 DEF CloseIngress, PlaneInv
  <2>2. CASE DestroySockets
    <3>1. req' = [r \in Requests |-> [req[r] EXCEPT !.up = FALSE]]
      BY <2>2 DEF DestroySockets
    <3>2. ASSUME NEW r \in Requests
          PROVE  LET p == [req[r] EXCEPT !.up = FALSE] IN StoryInv(p) /\ p \in RequestType /\ p.pc = req[r].pc
      <4> DEFINE p == [req[r] EXCEPT !.up = FALSE]
      <4>1. StoryInv(req[r])
        BY DEF PlaneInv
      <4>2. StoryInv(p) /\ p.pc = req[r].pc
        BY <4>1, GoneStory
      <4> HIDE DEF p
      <4>3. p \in RequestType
        BY <4>2 DEF StoryInv
      <4> QED
        BY <4>2, <4>3 DEF p
    <3> QED
      BY <3>1, <3>2
  <2> QED
    BY <2>1, <2>2
<1>3. \A r \in Requests : \A layer \in Layers : Onward(layer, req[r].pc, req'[r].pc)
  BY <1>2, PointsOnward
<1>4. RunInv'
  BY <1>1, <1>3, RunStays DEF PlaneInv
<1>5. CountInv'
  BY <1>1 DEF PlaneInv, CountInv, In, occupancy
<1>6. \A r \in Requests : StoryInv(req[r])'
  BY <1>2
<1> QED
  BY <1>1, <1>2, <1>4, <1>5, <1>6 DEF PlaneInv

(***************************************************************************)
(* At every point of its handler a request has emitted a stream fixed by   *)
(* where it is and how it got there, it has had one evaluation per layer   *)
(* it reached, and the counters are the evaluations that are out           *)
(* (plane/front.ts, core/composer.ts).                                     *)
(***************************************************************************)
THEOREM PlaneInvariance == PlaneSpec => []PlaneInv
<1>1. PlaneInit => PlaneInv
  BY InitStep
<1>2. PlaneInv /\ [PlaneNext]_planeVars => PlaneInv'
  <2> SUFFICES ASSUME PlaneInv, [PlaneNext]_planeVars PROVE PlaneInv'
    OBVIOUS
  <2>1. ASSUME NEW r \in Requests, NEW kind \in Kinds[r], Accept(r, kind) PROVE PlaneInv'
    BY <2>1, AcceptStep
  <2>2. ASSUME NEW r \in Requests, Progress(r) PROVE PlaneInv'
    <3>1. ASSUME NEW status \in {"complete", "incomplete"}, ReadBody(r, status) PROVE PlaneInv'
      BY <3>1, ReadStep
    <3>2. CASE EnterL1(r)
      BY <3>2, EnterL1Step
    <3>3. CASE L1Deadline(r)
      <4>1. "error" \in {"pass", "reject", "error"}
        OBVIOUS
      <4>2. /\ req[r].pc = "l1_runs" /\ Become(r, AfterL1(req[r], "error")) /\ ingress' = ingress
            /\ AbandonEvaluation("l1", r)
        BY <3>3 DEF L1Deadline
      <4> QED
        BY <4>1, <4>2, L1EndsStep
    <3>4. ASSUME NEW outcome \in {"pass", "reject", "error"}, L1Answers(r, outcome) PROVE PlaneInv'
      <4>1. /\ req[r].pc = "l1_runs" /\ Become(r, AfterL1(req[r], outcome)) /\ ingress' = ingress
            /\ EndEvaluation("l1", r)
        BY <3>4 DEF L1Answers
      <4> QED
        BY <4>1, L1EndsStep
    <3>5. CASE EnterL2(r)
      BY <3>5, EnterL2Step
    <3>6. CASE L2Answers(r)
      <4>1. PICK d \in Deciding(req[r].class) : Become(r, AfterL2(req[r], d))
        BY <3>6 DEF L2Answers, Deciding
      <4>2. req[r].pc = "l2_runs" /\ ingress' = ingress /\ EndEvaluation("l2", r)
        BY <3>6 DEF L2Answers
      <4> QED
        BY <4>1, <4>2, L2EndsStep
    <3>7. CASE L2Deadline(r)
      <4>1. PICK d \in Deciding(req[r].class) : Become(r, AfterL2(req[r], d))
        BY <3>7 DEF L2Deadline, Deciding
      <4>2. req[r].pc = "l2_runs" /\ ingress' = ingress /\ AbandonEvaluation("l2", r)
        BY <3>7 DEF L2Deadline
      <4> QED
        BY <4>1, <4>2, L2EndsStep
    <3>8. CASE IssueProof(r)
      BY <3>8, IssueStep
    <3>9. ASSUME NEW status \in {200, 404}, UpstreamResponds(r, status) PROVE PlaneInv'
      BY <3>9, RespondStep
    <3>10. ASSUME NEW kind \in {"timeout", "error"}, UpstreamFails(r, kind) PROVE PlaneInv'
      BY <3>10, FailStep
    <3>11. CASE Close(r)
      BY <3>11, CloseStep
    <3> QED
      BY <2>2, <3>1, <3>2, <3>3, <3>4, <3>5, <3>6, <3>7, <3>8, <3>9, <3>10, <3>11 DEF Progress
  <2>3. ASSUME NEW r \in Requests, Finish(r) PROVE PlaneInv'
    BY <2>3, FinishStep
  <2>4. ASSUME NEW r \in Requests, Disconnect(r) PROVE PlaneInv'
    BY <2>4, DisconnectStep
  <2>5. ASSUME NEW layer \in Layers, NEW r \in Requests, SettleAbandoned(layer, r) \/ Reclaim(layer, r)
        PROVE  PlaneInv'
    BY <2>5, PlaceStep
  <2>6. CASE CloseIngress \/ DestroySockets
    BY <2>6, FrontStep
  <2>7. CASE UNCHANGED planeVars
    <3>1. UNCHANGED <<ingress, req, run, count>>
      BY <2>7 DEF planeVars
    <3>2. RunInv'
      BY <3>1 DEF PlaneInv, RunInv
    <3>3. CountInv'
      BY <3>1 DEF PlaneInv, CountInv, In, occupancy
    <3>4. \A r \in Requests : StoryInv(req[r])'
      BY <3>1 DEF PlaneInv
    <3> QED
      BY <3>1, <3>2, <3>3, <3>4 DEF PlaneInv
  <2> QED
    BY <2>1, <2>2, <2>3, <2>4, <2>5, <2>6, <2>7 DEF PlaneNext
<1> QED
  BY <1>1, <1>2, PTL DEF PlaneSpec

-----------------------------------------------------------------------------
(* What the validators see                                                 *)

\* The kinds a request has emitted are ones the validators accept.
Lawful(q, seen) ==
  /\ \E v : seen \cap Verdicts \subseteq {v}
  /\ \E d : seen \cap Dispositions \subseteq {d}
  /\ "EGRESS_ATTEMPTED" \in seen => "L1_ENTERED" \in seen /\ "L2_ENTERED" \in seen
  /\ "L2_DECIDED" \in seen =>
        isValidDecision(q.class, q.decision) /\ ("EGRESS_ATTEMPTED" \in seen <=> proceeds(q.decision))
  /\ seen \cap Dispositions # {} => q.class = "open" /\ proceeds(q.decision)
  /\ "L2_DECIDED" \notin seen => q.decision = NoDecision
  /\ "L2_ENROLLED" \in seen =>
        /\ EnrolmentAccepted(q.decision, q.simulated, "EGRESS_RESPONDED" \in seen)
        /\ q.flushed /\ q.upstream = 200
  /\ "L2_ENROLL_SKIPPED" \in seen => SkipAccepted(q.decision, q.simulated, q.skipReason)

\* Where kinds of a set occur; at most once, if at most one of them was seen.
Occurrences(e, kinds) == {i \in DOMAIN e : e[i] \in kinds}

LEMMA AtMostOnce ==
  ASSUME NEW e, NEW seen, NEW last, Stream(e, seen, last), NEW kinds, \E k : seen \cap kinds \subseteq {k}
  PROVE  /\ Cardinality(Occurrences(e, kinds)) <= 1
         /\ Occurrences(e, kinds) # {} => seen \cap kinds # {}
<1>1. CASE seen \cap kinds = {}
  <2>1. Occurrences(e, kinds) = {}
    BY <1>1, StreamCounts DEF Occurrences
  <2>2. Cardinality({}) = 0
    BY FS_EmptySet
  <2> QED
    BY <2>1, <2>2
<1>2. CASE seen \cap kinds # {}
  <2>1. PICK k : seen \cap kinds = {k}
    BY <1>2
  <2>2. Cardinality({i \in DOMAIN e : e[i] \in kinds}) = 1
    BY <2>1, StreamCounts
  <2> QED
    BY <1>2, <2>2 DEF Occurrences
<1> QED
  BY <1>1, <1>2

LEMMA LawfulIsAccepted ==
  ASSUME NEW q, NEW seen, NEW last, Stream(q.events, seen, last), Lawful(q, seen),
         q.pc = "done" => last \in Terminals,
         "INGRESS_RESPONDED" \in seen => q.status = planeStatusFor(q)
  PROVE  LifecycleAccepted(q) /\ StreamAccepted(q) /\ (Has(q, "L2_DECIDED") \/ q.decision = NoDecision)
<1>1. \A k : Has(q, k) <=> k \in seen
  BY StreamHas
<1>2. LifecycleAccepted(q)
  <2>1. \E v : seen \cap Verdicts \subseteq {v}
    BY DEF Lawful
  <2>2. DOMAIN q.events = 1..Len(q.events)
    BY DEF Stream
  <2>3. Cardinality({i \in 1..Len(q.events) : q.events[i] \in Verdicts}) <= 1
    <3>1. Cardinality(Occurrences(q.events, Verdicts)) <= 1
      BY <2>1, AtMostOnce
    <3> QED
      BY <2>2, <3>1 DEF Occurrences
  <2>4. Last(q.events) = last /\ automaton(q.events, NEXT_PLANE_KINDS_L2)
    BY DEF Stream, Last
  <2> QED
    BY <1>1, <2>3, <2>4 DEF LifecycleAccepted
<1>3. StreamAccepted(q)
  <2>1. \E d : seen \cap Dispositions \subseteq {d}
    BY DEF Lawful
  <2>2. dispositions(q) = Occurrences(q.events, Dispositions)
    BY DEF dispositions, Dispositions, Occurrences
  <2>3. Cardinality(dispositions(q)) <= 1 /\ (dispositions(q) # {} => seen \cap Dispositions # {})
    BY <2>1, <2>2, AtMostOnce
  <2> QED
    BY <1>1, <2>3 DEF StreamAccepted, Lawful, EnrolmentAccepted
<1>4. Has(q, "L2_DECIDED") \/ q.decision = NoDecision
  BY <1>1 DEF Lawful
<1> QED
  BY <1>2, <1>3, <1>4

\* What has been emitted when an answer is settled.
LEMMA SettledKinds ==
  ASSUME NEW last \in Settling, NEW before \in Before(last)
  PROVE  LET base == before \union {last}
         IN  /\ base \cap Verdicts = IF last \in L1Refusals THEN {last} ELSE {"L1_PASSED"}
             /\ "L1_ENTERED" \in base /\ ("L2_ENTERED" \in base <=> last \notin L1Refusals)
             /\ "L2_DECIDED" \in base <=> last \notin L1Refusals
             /\ "EGRESS_ATTEMPTED" \in base <=> ReachedEgress(last)
             /\ base \cap Dispositions = {} /\ base \cap Terminals = {}
             /\ \A k \in L1Refusals \union {"EGRESS_FAILED", "EGRESS_RESPONDED"} : k \in base <=> k = last
<1>1. CASE last \in L1Refusals
  <2>1. before = AtL1
    BY <1>1 DEF Before, L1Refusals
  <2> QED
    BY <1>1, <2>1 DEF AtL1, L1Refusals, Verdicts, ReachedEgress, Dispositions, Terminals
<1>2. CASE last = "L2_DECIDED"
  <2>1. before = AtL2
    BY <1>2 DEF Before, L1Refusals
  <2> QED
    BY <1>2, <2>1 DEF AtL2, AtL1, L1Refusals, Verdicts, ReachedEgress, Dispositions, Terminals
<1>3. CASE last = "EGRESS_FAILED"
  <2>1. before \in {Attempted, Issued}
    BY <1>3 DEF Before, L1Refusals
  <2> QED
    BY <1>3, <2>1 DEF Issued, Attempted, AtL2, AtL1, L1Refusals, Verdicts, ReachedEgress, Dispositions, Terminals
<1>4. CASE last = "EGRESS_RESPONDED"
  <2>1. before = Issued
    BY <1>4 DEF Before, L1Refusals
  <2> QED
    BY <1>4, <2>1 DEF Issued, Attempted, AtL2, AtL1, L1Refusals, Verdicts, ReachedEgress, Dispositions, Terminals
<1> QED
  BY <1>1, <1>2, <1>3, <1>4 DEF Settling

\* What is emitted after the answer was settled: at most a disposition, and the terminal event.
LEMMA SettledIsLawful ==
  ASSUME NEW q \in RequestType, q.form => q.class = "open",
         NEW last \in Settling, NEW before \in Before(last), Answered(q, last),
         NEW rest, rest \subseteq Dispositions \union Terminals,
         \E d : rest \cap Dispositions \subseteq {d},
         \A kind \in rest \cap Dispositions : Disposed(q, last, kind)
  PROVE  Lawful(q, (before \union {last}) \union rest)
<1> DEFINE base == before \union {last}
           seen == base \union rest
<1>1. /\ base \cap Verdicts = IF last \in L1Refusals THEN {last} ELSE {"L1_PASSED"}
      /\ "L1_ENTERED" \in base /\ ("L2_ENTERED" \in base <=> last \notin L1Refusals)
      /\ "L2_DECIDED" \in base <=> last \notin L1Refusals
      /\ "EGRESS_ATTEMPTED" \in base <=> ReachedEgress(last)
      /\ base \cap Dispositions = {}
      /\ \A k \in L1Refusals \union {"EGRESS_FAILED", "EGRESS_RESPONDED"} : k \in base <=> k = last
  BY SettledKinds
<1> HIDE DEF base
<1>2. /\ rest \cap Verdicts = {}
      /\ \A k \in {"L1_ENTERED", "L2_ENTERED", "L2_DECIDED", "EGRESS_ATTEMPTED", "EGRESS_RESPONDED"} : k \notin rest
  BY DEF Dispositions, Terminals, Verdicts
<1>3. last \notin L1Refusals =>
         isValidDecision(q.class, q.decision) /\ (ReachedEgress(last) <=> proceeds(q.decision))
  <2>1. CASE last = "L2_DECIDED"
    BY <2>1 DEF Answered, ReachedEgress
  <2>2. CASE ReachedEgress(last)
    BY <2>2 DEF Answered, GoesOn
  <2> QED
    BY <2>1, <2>2 DEF Settling, ReachedEgress
<1>4. ReachedEgress(last) => last \notin L1Refusals
  BY DEF ReachedEgress, L1Refusals
<1>5. ASSUME NEW kind \in seen \cap Dispositions
      PROVE  /\ q.class = "open" /\ proceeds(q.decision)
             /\ kind = "L2_ENROLLED" =>
                   /\ EnrolmentAccepted(q.decision, q.simulated, last = "EGRESS_RESPONDED")
                   /\ q.flushed /\ q.upstream = 200
             /\ kind = "L2_ENROLL_SKIPPED" => SkipAccepted(q.decision, q.simulated, q.skipReason)
  <2>1. Disposed(q, last, kind)
    BY <1>1
  <2>2. GoesOn(q)
    BY <2>1 DEF Disposed, Answered
  <2>3. observe(q) = "waiting" => ~q.simulated /\ q.decision.outcome = "admitted"
    BY <2>2, ObserveValue
  <2>4. kind = "L2_ENROLL_SKIPPED" => SkipAccepted(q.decision, q.simulated, q.skipReason)
    BY <2>1, ObserveValue DEF Disposed
  <2> QED
    BY <2>1, <2>2, <2>3, <2>4 DEF Disposed, GoesOn, EnrolmentAccepted
<1>6. \E v : seen \cap Verdicts \subseteq {v}
  <2>1. seen \cap Verdicts = base \cap Verdicts
    BY <1>2
  <2> QED
    BY <1>1, <2>1
<1>7. \E d : seen \cap Dispositions \subseteq {d}
  <2>1. seen \cap Dispositions = rest \cap Dispositions
    BY <1>1
  <2> QED
    BY <2>1
<1>8. "L2_ENROLLED" \in Dispositions /\ "L2_ENROLL_SKIPPED" \in Dispositions
  BY DEF Dispositions
<1>9. /\ \A k \in {"L1_ENTERED", "L2_ENTERED", "L2_DECIDED", "EGRESS_ATTEMPTED", "EGRESS_RESPONDED"} :
            k \in seen <=> k \in base
  BY <1>2
<1> HIDE DEF seen
<1>10. "L2_DECIDED" \notin seen => q.decision = NoDecision
  BY <1>1, <1>9 DEF Answered
<1>11. "EGRESS_RESPONDED" \in seen <=> last = "EGRESS_RESPONDED"
  BY <1>1, <1>9
<1>12. "L2_ENROLLED" \in seen =>
         /\ EnrolmentAccepted(q.decision, q.simulated, "EGRESS_RESPONDED" \in seen)
         /\ q.flushed /\ q.upstream = 200
  BY <1>5, <1>8, <1>11 DEF EnrolmentAccepted
<1>13. "L2_ENROLL_SKIPPED" \in seen => SkipAccepted(q.decision, q.simulated, q.skipReason)
  BY <1>5, <1>8
<1>14. Lawful(q, seen)
  BY <1>1, <1>3, <1>4, <1>5, <1>6, <1>7, <1>9, <1>10, <1>12, <1>13 DEF Lawful
<1> QED
  BY <1>14 DEF seen, base

\* Whoever gets the answer gets the status that the recorded events call for.
LEMMA StatusIsOwed ==
  ASSUME NEW q, NEW last \in Settling, NEW before \in Before(last), Answered(q, last), q.up \/ q.flushed,
         NEW rest, rest \subseteq Dispositions \union Terminals,
         NEW end, Stream(q.events, (before \union {last}) \union rest, end)
  PROVE  q.status = planeStatusFor(q)
<1>1. \A k \in L1Refusals \union {"EGRESS_FAILED", "EGRESS_RESPONDED"} : Has(q, k) <=> k = last
  <2>1. \A k \in L1Refusals \union {"EGRESS_FAILED", "EGRESS_RESPONDED"} :
           k \in before \union {last} <=> k = last
    BY SettledKinds
  <2>2. \A k \in L1Refusals \union {"EGRESS_FAILED", "EGRESS_RESPONDED"} : k \notin rest
    BY DEF L1Refusals, Dispositions, Terminals
  <2> QED
    BY <2>1, <2>2, StreamHas
<1>2. q.status = Owed(q, last)
  BY DEF Answered
<1>3. CASE last \in L1Refusals
  BY <1>1, <1>2, <1>3 DEF L1Refusals, Owed, planeStatusFor
<1>4. CASE last = "L2_DECIDED"
  <2>1. q.decision.outcome \in {"shed", "error"}
    BY <1>4 DEF Answered, isValidDecision, proceeds
  <2> QED
    BY <1>1, <1>2, <1>4, <2>1 DEF L1Refusals, Owed, planeStatusFor
<1>5. CASE ReachedEgress(last)
  <2>1. q.decision.outcome \notin {"shed", "error"}
    BY <1>5 DEF Answered, GoesOn, proceeds
  <2> QED
    BY <1>1, <1>2, <1>5, <2>1 DEF ReachedEgress, L1Refusals, Owed, planeStatusFor
<1> QED
  BY <1>3, <1>4, <1>5 DEF Settling, ReachedEgress

LEMMA EmptyStream ==
  ASSUME NEW q, q.events = << >>, q.pc = "idle"
  PROVE  LifecycleAccepted(q) /\ StreamAccepted(q) /\ \A k : ~Has(q, k)
<1>1. /\ DOMAIN q.events = {} /\ Len(q.events) = 0
      /\ {i \in 1..Len(q.events) : q.events[i] \in Verdicts} = {} /\ dispositions(q) = {}
  BY DEF dispositions
<1>2. \A k : ~Has(q, k)
  BY <1>1 DEF Has, Contains
<1>3. Cardinality({}) = 0
  BY FS_EmptySet
<1> QED
  BY <1>1, <1>2, <1>3 DEF LifecycleAccepted, StreamAccepted, automaton

\* Before the answer is settled.
LEMMA HandledIsAccepted ==
  ASSUME NEW q, StoryInv(q), q.pc \in {"body", "l1", "l1_runs", "l2", "l2_runs", "issue", "forward"}
  PROVE  /\ LifecycleAccepted(q) /\ StreamAccepted(q) /\ (Has(q, "L2_DECIDED") \/ q.decision = NoDecision)
         /\ ~Has(q, "L2_ENROLLED")
<1>1. PICK seen \in {{"INGRESS_ACCEPTED"}, AtL1, AtL2, Attempted, Issued} : \E end :
         /\ Stream(q.events, seen, end)
         /\ IF "L2_DECIDED" \in seen THEN GoesOn(q) ELSE q.decision = NoDecision
  <2>1. "L2_DECIDED" \notin {"INGRESS_ACCEPTED"} /\ "L2_DECIDED" \notin AtL1 /\ "L2_DECIDED" \notin AtL2
    BY DEF AtL2, AtL1
  <2>2. CASE q.pc \in {"body", "l1", "l1_runs", "l2", "l2_runs"}
    BY <2>1, <2>2 DEF StoryInv, Untouched
  <2>3. CASE q.pc \in {"issue", "forward"}
    <3>1. "L2_DECIDED" \in Attempted /\ "L2_DECIDED" \in Issued
      BY DEF Issued, Attempted
    <3> QED
      BY <2>3, <3>1 DEF StoryInv
  <2> QED
    BY <2>2, <2>3
<1>2. PICK end : Stream(q.events, seen, end)
  BY <1>1
<1>3. /\ \E v : seen \cap Verdicts \subseteq {v}
      /\ seen \cap Dispositions = {} /\ seen \cap Terminals = {}
      /\ "L2_ENROLLED" \notin seen /\ "L2_ENROLL_SKIPPED" \notin seen
      /\ "EGRESS_ATTEMPTED" \in seen => "L1_ENTERED" \in seen /\ "L2_ENTERED" \in seen
      /\ "L2_DECIDED" \in seen => "EGRESS_ATTEMPTED" \in seen
  <2>1. \E v : seen \cap Verdicts \subseteq {v}
    <3>1. seen \cap Verdicts \subseteq {"L1_PASSED"}
      BY DEF Issued, Attempted, AtL2, AtL1, Verdicts
    <3> QED
      BY <3>1
  <2>2. /\ seen \cap Dispositions = {} /\ seen \cap Terminals = {}
        /\ "L2_ENROLLED" \notin seen /\ "L2_ENROLL_SKIPPED" \notin seen
    BY DEF Issued, Attempted, AtL2, AtL1, Dispositions, Terminals
  <2>3. /\ "EGRESS_ATTEMPTED" \in seen => "L1_ENTERED" \in seen /\ "L2_ENTERED" \in seen
        /\ "L2_DECIDED" \in seen => "EGRESS_ATTEMPTED" \in seen
    BY DEF Issued, Attempted, AtL2, AtL1
  <2> QED
    BY <2>1, <2>2, <2>3
<1>4. Lawful(q, seen)
  BY <1>1, <1>3 DEF Lawful, GoesOn
<1>5. "INGRESS_RESPONDED" \notin seen
  BY <1>3 DEF Terminals
<1>6. LifecycleAccepted(q) /\ StreamAccepted(q) /\ (Has(q, "L2_DECIDED") \/ q.decision = NoDecision)
  BY <1>2, <1>4, <1>5, LawfulIsAccepted
<1> QED
  BY <1>2, <1>3, <1>6, StreamHas

\* While the answer leaves.
LEMMA ClosingIsAccepted ==
  ASSUME NEW q, StoryInv(q), q.pc = "closing"
  PROVE  \E seen, end : Stream(q.events, seen, end) /\ Lawful(q, seen) /\ "INGRESS_RESPONDED" \notin seen
<1>1. q \in RequestType /\ (q.form => q.class = "open")
  BY ClosingParts
<1>2. PICK last \in Settling : \E b \in Before(last) : Answered(q, last) /\ Closing(q, b \union {last}, last)
  BY ClosingParts
<1>3. PICK before \in Before(last) : Answered(q, last) /\ Closing(q, before \union {last}, last)
  BY <1>2
<1>4. "INGRESS_RESPONDED" \notin before \union {last} /\ "INGRESS_RESPONDED" \notin Dispositions
  BY SettledKinds DEF Terminals, Dispositions
<1>5. PICK rest \in SUBSET Dispositions :
         /\ \E d : rest \cap Dispositions \subseteq {d}
         /\ \A kind \in rest \cap Dispositions : Disposed(q, last, kind)
         /\ \E end : Stream(q.events, (before \union {last}) \union rest, end)
  <2>1. CASE Stream(q.events, before \union {last}, last)
    <3>1. (before \union {last}) \union {} = before \union {last}
      OBVIOUS
    <3> QED
      BY <2>1, <3>1
  <2>2. CASE \E kind \in Dispositions :
                Disposed(q, last, kind) /\ Stream(q.events, (before \union {last}) \union {kind}, kind)
    BY <2>2
  <2> QED
    BY <1>3, <2>1, <2>2 DEF Closing
<1>6. Lawful(q, (before \union {last}) \union rest)
  BY <1>1, <1>3, <1>5, SettledIsLawful
<1> QED
  BY <1>4, <1>5, <1>6

\* When the request is over: its disposition, if it owes one, and its terminal event.
LEMMA OverIsAccepted ==
  ASSUME NEW q, StoryInv(q), q.pc = "done"
  PROVE  /\ \E seen, end : /\ Stream(q.events, seen, end) /\ Lawful(q, seen) /\ end \in Terminals
                           /\ "INGRESS_RESPONDED" \in seen => q.status = planeStatusFor(q)
         /\ Cardinality(dispositions(q)) = IF q.form /\ Has(q, "EGRESS_ATTEMPTED") THEN 1 ELSE 0
<1>1. q \in RequestType /\ (q.form => q.class = "open")
  BY DEF StoryInv
<1>2. PICK last \in Settling : \E b \in Before(last) : Answered(q, last) /\ Over(q, b \union {last}, last)
  BY DEF StoryInv
<1>3. PICK before \in Before(last) : Answered(q, last) /\ Over(q, before \union {last}, last)
  BY <1>2
<1> DEFINE base == before \union {last}
           t == Terminal(q)
<1>4. /\ t \in Terminals /\ t \notin Dispositions /\ (t = "INGRESS_RESPONDED" => q.flushed)
      /\ "INGRESS_RESPONDED" \notin base /\ "INGRESS_RESPONDED" \notin Dispositions
      /\ base \cap Dispositions = {} /\ ("EGRESS_ATTEMPTED" \in base <=> ReachedEgress(last))
      /\ "EGRESS_ATTEMPTED" \notin Terminals \union Dispositions
  BY SettledKinds DEF Terminal, Terminals, Dispositions
<1>5. dispositions(q) = {i \in DOMAIN q.events : q.events[i] \in Dispositions}
  BY DEF dispositions, Dispositions
<1>6. PICK rest \in SUBSET (Dispositions \union {t}) :
         /\ \E d : rest \cap Dispositions \subseteq {d}
         /\ \A kind \in rest \cap Dispositions : Disposed(q, last, kind)
         /\ Stream(q.events, base \union rest, t)
         /\ IF q.form /\ ReachedEgress(last) THEN \E kind : rest \cap Dispositions = {kind}
            ELSE rest \cap Dispositions = {}
  <2>1. CASE ~(q.form /\ ReachedEgress(last)) /\ Stream(q.events, base \union {t}, t)
    <3>1. {t} \cap Dispositions = {} /\ {t} \in SUBSET (Dispositions \union {t})
      BY <1>4
    <3> QED
      BY <2>1, <3>1
  <2>2. ASSUME NEW kind \in Dispositions, Disposed(q, last, kind),
               Stream(q.events, (base \union {kind}) \union {t}, t)
        PROVE  \E r \in SUBSET (Dispositions \union {t}) :
                  /\ r \cap Dispositions = {kind} /\ Stream(q.events, base \union r, t)
    <3>1. (base \union {kind}) \union {t} = base \union {kind, t}
      OBVIOUS
    <3>2. {kind, t} \cap Dispositions = {kind} /\ {kind, t} \in SUBSET (Dispositions \union {t})
      BY <1>4
    <3> QED
      BY <2>2, <3>1, <3>2
  <2>3. CASE \E kind \in Dispositions :
                Disposed(q, last, kind) /\ Stream(q.events, (base \union {kind}) \union {t}, t)
    <3>1. PICK kind \in Dispositions :
                Disposed(q, last, kind) /\ Stream(q.events, (base \union {kind}) \union {t}, t)
      BY <2>3
    <3>2. PICK r \in SUBSET (Dispositions \union {t}) :
                  /\ r \cap Dispositions = {kind} /\ Stream(q.events, base \union r, t)
      BY <2>2, <3>1
    <3>3. q.form /\ ReachedEgress(last)
      BY <3>1 DEF Disposed
    <3> QED
      BY <3>1, <3>2, <3>3
  <2> QED
    BY <1>3, <2>1, <2>3 DEF Over
<1> HIDE DEF t
<1>7. Lawful(q, base \union rest)
  <2>1. rest \subseteq Dispositions \union Terminals
    BY <1>4, <1>6
  <2> QED
    BY <1>1, <1>3, <1>6, <2>1, SettledIsLawful
<1>8. "INGRESS_RESPONDED" \in base \union rest => q.status = planeStatusFor(q)
  <2> SUFFICES ASSUME "INGRESS_RESPONDED" \in base \union rest PROVE q.status = planeStatusFor(q)
    OBVIOUS
  <2>1. q.flushed
    BY <1>4, <1>6
  <2>2. rest \subseteq Dispositions \union Terminals
    BY <1>4, <1>6
  <2>3. Stream(q.events, (before \union {last}) \union rest, t)
    BY <1>6
  <2> QED
    BY <1>3, <2>1, <2>2, <2>3, StatusIsOwed
<1>9. Cardinality(dispositions(q)) = IF q.form /\ Has(q, "EGRESS_ATTEMPTED") THEN 1 ELSE 0
  <2>1. (base \union rest) \cap Dispositions = rest \cap Dispositions
    BY <1>4
  <2>2. Has(q, "EGRESS_ATTEMPTED") <=> ReachedEgress(last)
    <3>1. "EGRESS_ATTEMPTED" \notin rest
      BY <1>4, <1>6
    <3>2. Has(q, "EGRESS_ATTEMPTED") <=> "EGRESS_ATTEMPTED" \in base \union rest
      BY <1>6, StreamHas
    <3> QED
      BY <1>4, <3>1, <3>2
  <2> HIDE DEF base
  <2>3. CASE q.form /\ ReachedEgress(last)
    <3>1. PICK kind : (base \union rest) \cap Dispositions = {kind}
      BY <1>6, <2>1, <2>3
    <3>2. Cardinality({i \in DOMAIN q.events : q.events[i] \in Dispositions}) = 1
      BY <1>6, <3>1, StreamCounts
    <3> QED
      BY <1>5, <2>2, <2>3, <3>2
  <2>4. CASE ~(q.form /\ ReachedEgress(last))
    <3>1. (base \union rest) \cap Dispositions = {}
      BY <1>6, <2>1, <2>4
    <3>2. {i \in DOMAIN q.events : q.events[i] \in Dispositions} = {}
      BY <1>6, <3>1, StreamCounts
    <3>3. Cardinality({}) = 0
      BY FS_EmptySet
    <3> QED
      BY <1>5, <2>2, <2>4, <3>2, <3>3
  <2> QED
    BY <2>3, <2>4
<1> QED
  BY <1>4, <1>6, <1>7, <1>8, <1>9

\* Only the fields of a decision can make the validator reject a stream that is right otherwise.
Told(q) == LifecycleAccepted(q) /\ StreamAccepted(q) /\ (Has(q, "L2_DECIDED") \/ q.decision = NoDecision)

LEMMA OnlyDisputed ==
  ASSUME NEW q, Told(q), Explained(q.decision)
  PROVE  LifecycleAccepted(q) /\ (L2Accepted(q) <=> ~Disputed(q.decision))
<1>1. CASE Has(q, "L2_DECIDED")
  BY <1>1 DEF Told, Explained, L2Accepted
<1>2. CASE ~Has(q, "L2_DECIDED")
  <2>1. q.decision = NoDecision /\ L2Accepted(q)
    BY <1>2 DEF Told, L2Accepted
  <2>2. ~Disputed(NoDecision)
    BY NoDecisionIsExplained
  <2> QED
    BY <2>1, <2>2 DEF Told
<1> QED
  BY <1>1, <1>2

\* A request's part of the invariant is what both properties of the stream ask for.
LEMMA StoryIsAccepted ==
  ASSUME NEW q, StoryInv(q)
  PROVE  /\ LifecycleAccepted(q) /\ (L2Accepted(q) <=> ~Disputed(q.decision))
         /\ q.pc = "done" => Cardinality(dispositions(q)) = IF q.form /\ Has(q, "EGRESS_ATTEMPTED") THEN 1 ELSE 0
         /\ Has(q, "L2_ENROLLED") =>
               q.flushed /\ q.upstream = 200 /\ ~q.simulated /\ q.decision.outcome = "admitted"
<1> DEFINE Credited == Has(q, "L2_ENROLLED") =>
                          q.flushed /\ q.upstream = 200 /\ ~q.simulated /\ q.decision.outcome = "admitted"
           Settled == Cardinality(dispositions(q)) = IF q.form /\ Has(q, "EGRESS_ATTEMPTED") THEN 1 ELSE 0
<1>1. q.pc \in Stages /\ Explained(q.decision)
  BY DEF StoryInv, RequestType
<1>2. ASSUME q.pc = "idle"
      PROVE  Told(q) /\ Credited
  <2>1. q.events = << >> /\ q.decision = NoDecision
    BY <1>2 DEF StoryInv, Untouched
  <2> QED
    BY <1>2, <2>1, EmptyStream DEF Told
<1>3. ASSUME q.pc \in {"body", "l1", "l1_runs", "l2", "l2_runs", "issue", "forward"}
      PROVE  Told(q) /\ Credited
  BY <1>3, HandledIsAccepted DEF Told
<1>4. ASSUME q.pc = "closing"
      PROVE  Told(q) /\ Credited
  <2>1. PICK seen, end : Stream(q.events, seen, end) /\ Lawful(q, seen) /\ "INGRESS_RESPONDED" \notin seen
    BY <1>4, ClosingIsAccepted
  <2>2. Told(q)
    BY <1>4, <2>1, LawfulIsAccepted DEF Told
  <2>3. Has(q, "L2_ENROLLED") <=> "L2_ENROLLED" \in seen
    BY <2>1, StreamHas
  <2> QED
    BY <2>1, <2>2, <2>3 DEF Lawful, EnrolmentAccepted
<1>5. ASSUME q.pc = "done"
      PROVE  Told(q) /\ Credited /\ Settled
  <2>1. PICK seen, end : /\ Stream(q.events, seen, end) /\ Lawful(q, seen) /\ end \in Terminals
                         /\ "INGRESS_RESPONDED" \in seen => q.status = planeStatusFor(q)
    BY <1>5, OverIsAccepted
  <2>2. Told(q)
    BY <2>1, LawfulIsAccepted DEF Told
  <2>3. Has(q, "L2_ENROLLED") <=> "L2_ENROLLED" \in seen
    BY <2>1, StreamHas
  <2>4. Settled
    BY <1>5, OverIsAccepted
  <2> QED
    BY <2>1, <2>2, <2>3, <2>4 DEF Lawful, EnrolmentAccepted
<1>6. Told(q) /\ Credited /\ (q.pc = "done" => Settled)
  <2> HIDE DEF Credited, Settled
  <2> QED
    BY <1>1, <1>2, <1>3, <1>4, <1>5 DEF Stages
<1>7. LifecycleAccepted(q) /\ (L2Accepted(q) <=> ~Disputed(q.decision))
  BY <1>1, <1>6, OnlyDisputed
<1> QED
  BY <1>6, <1>7

(***************************************************************************)
(* Whatever order deadlines, verdicts, upstream answers and disconnects    *)
(* come in, for any number of requests and any bulkhead, the laboratory's  *)
(* validators accept what a request emitted unless its decision is one of  *)
(* the three disputed ones, and then they reject it (plane/front.ts,       *)
(* plane/l2-stage.ts, core/ledger.ts, core/l2-lifecycle.ts).               *)
(***************************************************************************)
THEOREM StreamsAlwaysAccepted == PlaneSpec => []StreamsAreAccepted
<1>1. PlaneInv => StreamsAreAccepted
  BY StoryIsAccepted DEF PlaneInv, StreamsAreAccepted
<1> QED
  BY <1>1, PlaneInvariance, PTL

(***************************************************************************)
(* A finished render of the form has exactly one disposition, credit only  *)
(* follows complete delivery, and no place of a bulkhead is lost or given  *)
(* out twice (plane/l2-stage.ts, core/composer.ts).                        *)
(***************************************************************************)
THEOREM PlaneSettlesExactly == PlaneSpec => []SettledExactly
<1>1. PlaneInv => CreditFollowsDelivery
  BY StoryIsAccepted DEF PlaneInv, CreditFollowsDelivery
<1>2. PlaneInv => BulkheadIsExact
  BY DEF PlaneInv, CountInv, BulkheadIsExact, In
<1> QED
  BY <1>1, <1>2, PlaneInvariance, PTL DEF SettledExactly
================================================================================
