--------------------------- MODULE ServicesProofs ---------------------------
(***************************************************************************)
(* Proofs about TokenGate, Onboarding and FolderSession, for any number of *)
(* requests, keys, tenants, tabs and folders; and about ContainersRoute,   *)
(* FileSharing and ChatFrame, for any number of containers, files, links   *)
(* and pages.                                                              *)
(***************************************************************************)
EXTENDS TokenGate, Onboarding, FolderSession, ContainersRoute, FileSharing, ChatFrame,
        PathLemmas

-----------------------------------------------------------------------------
(* TokenGate.  Until a first answer nothing was refused and every check is *)
(* loading.  Afterwards what is published is known or was published since  *)
(* the keys were first asked for; and so is the key of every check.        *)
GateInv ==
    /\ issued \in published
    /\ keys = {} => refused = {} /\ \A c \in checks : c.step = "loading"
    /\ keys # {} => published \subseteq keys \cup rolled
    /\ \A c \in checks : /\ c.step = "loading" => c.kid \in published \cup rolled
                         /\ c.step = "loaded" => c.kid \in keys \cup rolled
    /\ RefusedIsNew

LEMMA GateInvStep == GateTypeOK /\ GateInv /\ [GateNext]_gateVars => GateInv'
<1> SUFFICES ASSUME GateTypeOK, GateInv, [GateNext]_gateVars
             PROVE  GateInv'
  OBVIOUS
<1> USE DEF GateInv, GateTypeOK, RefusedIsNew
<1>1. ASSUME NEW k \in Keys, Rollover(k)
      PROVE  GateInv'
  BY <1>1 DEF Rollover
<1>2. ASSUME NEW k \in Keys, Withdraw(k)
      PROVE  GateInv'
  BY <1>2 DEF Withdraw
<1>3. ASSUME NEW k \in Keys, Arrive(k)
      PROVE  GateInv'
  BY <1>3 DEF Arrive
<1>4. ASSUME NEW c \in checks, LoadKeys(c)
      PROVE  GateInv'
  BY <1>4 DEF LoadKeys
<1>5. ASSUME NEW c \in checks, KeysFail(c)
      PROVE  GateInv'
  BY <1>5 DEF KeysFail
<1>6. ASSUME NEW c \in checks, Verify(c)
      PROVE  GateInv'
  BY <1>6 DEF Verify
<1>7. CASE Restart
  BY <1>7 DEF Restart
<1>8. CASE UNCHANGED gateVars
  BY <1>8 DEF gateVars
<1>9. QED
  BY <1>1, <1>2, <1>3, <1>4, <1>5, <1>6, <1>7, <1>8 DEF GateNext

(* All variables of TokenGate keep their types. *)
THEOREM GateTypes == GateSpec => []GateTypeOK
<1>1. GateInit => GateTypeOK
  BY GateAssumption DEF GateInit, GateTypeOK
<1>2. GateTypeOK /\ [GateNext]_gateVars => GateTypeOK'
  <2> SUFFICES ASSUME GateTypeOK, [GateNext]_gateVars
               PROVE  GateTypeOK'
    OBVIOUS
  <2> USE GateAssumption DEF GateTypeOK
  <2>1. ASSUME NEW k \in Keys, Rollover(k) \/ Withdraw(k)
        PROVE  GateTypeOK'
    BY <2>1 DEF Rollover, Withdraw
  <2>2. ASSUME NEW k \in Keys, Arrive(k)
        PROVE  GateTypeOK'
    BY <2>2 DEF Arrive
  <2>3. ASSUME NEW c \in checks, LoadKeys(c) \/ KeysFail(c)
        PROVE  GateTypeOK'
    BY <2>3 DEF LoadKeys, KeysFail
  <2>4. ASSUME NEW c \in checks, Verify(c)
        PROVE  GateTypeOK'
    BY <2>4 DEF Verify
  <2>5. CASE Restart
    BY <2>5 DEF Restart
  <2>6. CASE UNCHANGED gateVars
    BY <2>6 DEF gateVars
  <2>7. QED
    BY <2>1, <2>2, <2>3, <2>4, <2>5, <2>6 DEF GateNext
<1>3. QED
  BY <1>1, <1>2, PTL DEF GateSpec

(* A valid token is refused only if its key was published or taken back    *)
(* after the keys were first asked for (JwtProvider.ts:50-61).             *)
THEOREM RefusedAreNew == GateSpec => []RefusedIsNew
<1>1. GateInit => GateInv
  BY DEF GateInit, GateInv, RefusedIsNew
<1>2. GateInv => RefusedIsNew
  BY DEF GateInv
<1>3. QED
  BY <1>1, <1>2, GateTypes, GateInvStep, PTL DEF GateSpec

(* A key of which a token was accepted stays known, however the answers of *)
(* concurrent requests come in (JwtProvider.ts:26-61).                     *)
THEOREM AcceptedKeysStay == GateSpec => []AcceptedStays
<1>1. GateInit => AcceptedStays
  BY DEF GateInit, AcceptedStays
<1>2. AcceptedStays /\ [GateNext]_gateVars => AcceptedStays'
  BY DEF AcceptedStays, GateNext, gateVars, Rollover, Withdraw, Arrive, LoadKeys, KeysFail,
         Verify, Restart
<1>3. QED
  BY <1>1, <1>2, PTL DEF GateSpec
-----------------------------------------------------------------------------
(* Onboarding.  The answers of one visit are numbered; a record that has a *)
(* tenant was answered, and again if another answer is still processed.    *)
AnswersInv ==
    /\ \A c \in codes : c.nth < answered[c.visit]
    /\ \A c, d \in codes : c.visit = d.visit /\ c.nth = d.nth => c = d
    /\ \A v \in Visits : sites[v] \in Tenants => answered[v] > 0
    /\ \A c \in codes : sites[c.visit] \in Tenants => answered[c.visit] > 1
    /\ WelcomedStay

(* A tenant whose requests never overlapped has one request at most, and   *)
(* no record once that has looked for one.                                 *)
RecordsInv ==
    /\ \A c, d \in codes : c.tenant = d.tenant /\ c.tenant \notin paired => c = d
    /\ \A c \in codes : c.step # "asked" /\ c.tenant \notin paired => Records(c.tenant) = {}
    /\ OneRecordEach

(* All variables of Onboarding keep their types. *)
THEOREM OnboardingTypes == OnboardingSpec => []OnboardingTypeOK
<1>1. OnboardingInit => OnboardingTypeOK
  BY OnboardingAssumption DEF OnboardingInit, OnboardingTypeOK
<1>2. OnboardingTypeOK /\ [OnboardingNext]_onboardingVars => OnboardingTypeOK'
  <2> SUFFICES ASSUME OnboardingTypeOK, [OnboardingNext]_onboardingVars
               PROVE  OnboardingTypeOK'
    OBVIOUS
  <2> USE OnboardingAssumption DEF OnboardingTypeOK
  <2>1. ASSUME NEW v \in Visits, Onboard(v) \/ Decline(v)
        PROVE  OnboardingTypeOK'
    BY <2>1 DEF Onboard, Decline
  <2>2. ASSUME NEW v \in Visits, NEW t \in Tenants, Consent(v, t)
        PROVE  OnboardingTypeOK'
    BY <2>2 DEF Consent
  <2>3. ASSUME NEW c \in codes, FindTenant(c) \/ FindState(c)
        PROVE  OnboardingTypeOK'
    BY <2>3 DEF FindTenant, FindState
  <2>4. ASSUME NEW c \in codes, Save(c)
        PROVE  OnboardingTypeOK'
    BY <2>4 DEF Save
  <2>5. CASE UNCHANGED onboardingVars
    BY <2>5 DEF onboardingVars
  <2>6. QED
    BY <2>1, <2>2, <2>3, <2>4, <2>5 DEF OnboardingNext
<1>3. QED
  BY <1>1, <1>2, PTL DEF OnboardingSpec

LEMMA RecordsInvStep ==
    OnboardingTypeOK /\ RecordsInv /\ [OnboardingNext]_onboardingVars => RecordsInv'
<1> SUFFICES ASSUME OnboardingTypeOK, RecordsInv, [OnboardingNext]_onboardingVars
             PROVE  RecordsInv'
  OBVIOUS
<1> USE OnboardingAssumption DEF OnboardingTypeOK, RecordsInv, Records, OneRecordEach
<1>1. ASSUME NEW v \in Visits, Onboard(v) \/ Decline(v)
      PROVE  RecordsInv'
  BY <1>1 DEF Onboard, Decline
<1>2. ASSUME NEW v \in Visits, NEW t \in Tenants, Consent(v, t)
      PROVE  RecordsInv'
  BY <1>2 DEF Consent
<1>3. ASSUME NEW c \in codes, FindTenant(c)
      PROVE  RecordsInv'
  BY <1>3 DEF FindTenant
<1>4. ASSUME NEW c \in codes, FindState(c)
      PROVE  RecordsInv'
  BY <1>4 DEF FindState
<1>5. ASSUME NEW c \in codes, Save(c)
      PROVE  RecordsInv'
  BY <1>5 DEF Save
<1>6. CASE UNCHANGED onboardingVars
  BY <1>6 DEF onboardingVars
<1>7. QED
  BY <1>1, <1>2, <1>3, <1>4, <1>5, <1>6 DEF OnboardingNext

LEMMA AnswersInvStep ==
    OnboardingTypeOK /\ AnswersInv /\ [OnboardingNext]_onboardingVars => AnswersInv'
<1> SUFFICES ASSUME OnboardingTypeOK, AnswersInv, [OnboardingNext]_onboardingVars
             PROVE  AnswersInv'
  OBVIOUS
<1> USE OnboardingAssumption DEF OnboardingTypeOK, AnswersInv, Records, WelcomedStay
<1>1. ASSUME NEW v \in Visits, Onboard(v)
      PROVE  AnswersInv'
  BY <1>1 DEF Onboard
<1>2. ASSUME NEW v \in Visits, Decline(v)
      PROVE  AnswersInv'
  BY <1>2 DEF Decline
<1>3. ASSUME NEW v \in Visits, NEW t \in Tenants, Consent(v, t)
      PROVE  AnswersInv'
  BY <1>3 DEF Consent
<1>4. ASSUME NEW c \in codes, FindTenant(c)
      PROVE  AnswersInv'
  BY <1>4 DEF FindTenant
<1>5. ASSUME NEW c \in codes, FindState(c)
      PROVE  AnswersInv'
  BY <1>5 DEF FindState
<1>6. ASSUME NEW c \in codes, Save(c)
      PROVE  AnswersInv'
  BY <1>6 DEF Save
<1>7. CASE UNCHANGED onboardingVars
  BY <1>7 DEF onboardingVars
<1>8. QED
  BY <1>1, <1>2, <1>3, <1>4, <1>5, <1>6, <1>7 DEF OnboardingNext

(* A tenant whose consents were processed one at a time has one record     *)
(* (OnboardingController.cs:139-149).                                      *)
THEOREM OneRecord == OnboardingSpec => []OneRecordEach
<1>1. OnboardingInit => RecordsInv
  BY OnboardingAssumption DEF OnboardingInit, RecordsInv, Records, OneRecordEach
<1>2. RecordsInv => OneRecordEach
  BY DEF RecordsInv
<1>3. QED
  BY <1>1, <1>2, OnboardingTypes, RecordsInvStep, PTL DEF OnboardingSpec

(* A welcomed tenant keeps its record until some visit is answered again   *)
(* (OnboardingController.cs:125-164).                                      *)
THEOREM WelcomedKeepTheirs == OnboardingSpec => []WelcomedStay
<1>1. OnboardingInit => AnswersInv
  BY OnboardingAssumption DEF OnboardingInit, AnswersInv, WelcomedStay
<1>2. AnswersInv => WelcomedStay
  BY DEF AnswersInv
<1>3. QED
  BY <1>1, <1>2, OnboardingTypes, AnswersInvStep, PTL DEF OnboardingSpec
-----------------------------------------------------------------------------
(* FolderSession.  The cut path is a prefix that is not empty. *)
LEMMA CutPath ==
    ASSUME NEW S, NEW p \in Seq(S) \ {<<>>}, NEW f
    PROVE  /\ CutTo(p, f) \in Seq(S) \ {<<>>}
           /\ Len(CutTo(p, f)) <= Len(p)
           /\ \A k \in 1..Len(CutTo(p, f)) : CutTo(p, f)[k] = p[k]
<1>1. CASE f \in ToSet(p)
  <2> DEFINE n == SelectInSeq(p, LAMBDA g : g = f)
  <2>1. n = FirstOf(p, f)
    BY DEF SelectInSeq, FirstOf
  <2>2. \E i \in 1..Len(p) : p[i] = f
    BY <1>1 DEF ToSet
  <2>3. n \in 1..Len(p) /\ Len(p) \in Nat
    BY <2>1, <2>2, FirstPlace
  <2>4. CutTo(p, f) = SubSeq(p, 1, n)
    BY <1>1 DEF CutTo
  <2> HIDE DEF n
  <2>5. /\ SubSeq(p, 1, n) \in Seq(S) /\ Len(SubSeq(p, 1, n)) = n
        /\ \A k \in 1..n : SubSeq(p, 1, n)[k] = p[k]
    BY <2>3
  <2>6. QED
    BY <2>3, <2>4, <2>5
<1>2. CASE f \notin ToSet(p)
  BY <1>2 DEF CutTo
<1>3. QED
  BY <1>1, <1>2

(* The path of a view leads from the root of the drive. *)
LeadsDown(v) ==
    v # NoView =>
        /\ v.path[1] = Root
        /\ \A k \in 2..Len(v.path) :
               v.path[k] # Root /\ Parent[v.path[k]] = v.path[k - 1]

PageView == [view : Views, results : BOOLEAN]

(* A page that is not left behind shows the session's view.  A request     *)
(* that was not either, and acts on what it was sent from, has read that   *)
(* or will.  A folder that was opened from a listing is in its last one.   *)
SessionInv ==
    /\ \A t \in Tabs \ moved : page[t].view # NoView => page[t].view = session
    /\ \A r \in running :
           r.kind \in {"put", "item", "open"} /\ ~r.moved =>
               r.aimed = (IF r.read THEN r.view ELSE session)
    /\ \A r \in running :
           r.kind = "open" /\ r.arg # None /\ ~r.results =>
               r.aimed # NoView /\ Parent[r.arg] = Last(r.aimed.path)
    /\ ~astray => LeadsDown(session) /\ \A r \in running : LeadsDown(r.view)

(* The user asks for something. *)
LEMMA SendStep ==
    ASSUME SessionTypeOK, SessionInv, NEW t \in Tabs,
           NEW kind \in {"drive", "crumb", "index", "open", "put", "item", "search"},
           NEW arg \in Containers \cup Folders \cup {Root, None},
           kind = "drive" => arg \in Containers, kind = "open" => arg \in Folders \cup {None},
           kind \in {"open", "put", "item"} => page[t].view # NoView,
           kind = "open" /\ arg # None =>
               page[t].results \/ Parent[arg] = Last(page[t].view.path),
           Send(t, kind, arg)
    PROVE  SessionTypeOK' /\ SessionInv'
<1> DEFINE new == [id |-> count + 1, tab |-> t, kind |-> kind, arg |-> arg,
                   aimed |-> page[t].view, results |-> page[t].results,
                   moved |-> t \in moved, read |-> FALSE, view |-> NoView]
<1> USE SessionAssumption DEF SessionTypeOK
<1>1. count' = count + 1 /\ count' \in 0..MaxRequests /\ 1..count \subseteq 1..count'
  BY DEF Send
<1>2. NoView \in Views /\ page[t].view \in Views /\ page[t].results \in BOOLEAN
  BY DEF Views
<1>3. running' = running \cup {new} /\ UNCHANGED <<session, page, moved, astray>>
  BY DEF Send
<1>4. SessionTypeOK'
  <2>1. latest' \in [Tabs -> 0..MaxRequests]
    BY <1>1 DEF Send
  <2>2. \A r \in running : r.id \in 1..count /\ r.id \in 1..count'
    BY <1>1 DEF Requests
  <2>3. new.id \in 1..count'
    BY <1>1
  <2>4. running \subseteq Requests'
    BY <2>2 DEF Requests
  <2>5. new \in Requests'
    BY <1>2, <2>3 DEF Requests
  <2>6. \A r \in running' : /\ r.kind = "drive" => r.arg \in Containers
                            /\ r.kind = "open" => r.arg \in Folders \cup {None}
    BY <1>3
  <2>7. QED
    BY <1>1, <1>3, <2>1, <2>4, <2>5, <2>6
<1>5. SessionInv'
  <2> USE DEF SessionInv
  <2>1. \A u \in Tabs \ moved' : page'[u].view # NoView => page'[u].view = session'
    BY <1>3
  <2>2. \A r \in running' :
            r.kind \in {"put", "item", "open"} /\ ~r.moved =>
                r.aimed = (IF r.read THEN r.view ELSE session')
    <3>1. new.kind \in {"put", "item", "open"} /\ ~new.moved => new.aimed = session
      OBVIOUS
    <3>2. QED
      BY <1>3, <3>1
  <2>3. \A r \in running' :
            r.kind = "open" /\ r.arg # None /\ ~r.results =>
                r.aimed # NoView /\ Parent[r.arg] = Last(r.aimed.path)
    BY <1>3
  <2>4. ~astray' => LeadsDown(session') /\ \A r \in running' : LeadsDown(r.view)
    BY <1>2, <1>3 DEF LeadsDown
  <2>5. QED
    BY <2>1, <2>2, <2>3, <2>4 DEF LeadsDown
<1>6. QED
  BY <1>4, <1>5

(* A request ends, with what it makes of the session and of the pages. *)
LEMMA EndStep ==
    ASSUME SessionTypeOK, SessionInv, NEW r \in running, NEW s \in Views,
           NEW after \in SUBSET {Redirected(r)},
           NEW p \in [Tabs -> PageView], NEW excused \in SUBSET Tabs,
           \A t \in Tabs \ excused : p[t] = page[t],
           \A t \in excused : p[t].view = s,
           End(r, after, s, p, excused),
           astray' \in BOOLEAN, astray => astray', ~astray' => LeadsDown(s)
    PROVE  SessionTypeOK' /\ SessionInv'
<1> USE DEF SessionTypeOK
<1>1. /\ session' = s /\ page' = p /\ UNCHANGED <<count, latest>>
      /\ moved' = (IF s = session THEN moved ELSE Tabs) \ excused
  BY DEF End
<1>2. Requests' = Requests /\ NoView \in Views
  BY <1>1 DEF Requests, Views
<1> DEFINE Like(q, o) == /\ q.kind = o.kind /\ q.arg = o.arg /\ q.results = o.results
                         /\ q.aimed = o.aimed /\ q.view = o.view
           Late(o) == [o EXCEPT !.moved = TRUE]
<1>3. LET q == Redirected(r)
      IN  q \in Requests /\ q.kind = "index" /\ q.moved /\ q.view = NoView
  BY <1>2 DEF Requests, Redirected
<1>4. ASSUME NEW o \in running
      PROVE  Late(o) \in Requests /\ Late(o).moved /\ Like(Late(o), o)
  BY DEF Requests
<1>5. ASSUME NEW q \in running'
      PROVE  \/ q = Redirected(r)
             \/ q \in running /\ (s = session \/ q.read)
             \/ q \in Requests /\ q.moved /\ \E o \in running : Like(q, o)
  <2>1. \/ q = Redirected(r)
        \/ q \in running /\ (s = session \/ q.read)
        \/ \E o \in running : q = Late(o)
    BY <1>5 DEF End
  <2> HIDE DEF Late, Like
  <2>2. QED
    BY <1>4, <2>1
<1>6. ASSUME NEW q \in running'
      PROVE  /\ q \in Requests
             /\ q.kind = "drive" => q.arg \in Containers
             /\ q.kind = "open" => q.arg \in Folders \cup {None}
  <2>1. CASE q = Redirected(r)
    BY <1>3, <2>1
  <2>2. CASE q \in running
    BY <2>2
  <2>3. CASE q \in Requests /\ \E o \in running : Like(q, o)
    BY <2>3
  <2>4. QED
    BY <1>5, <2>1, <2>2, <2>3
<1>7. SessionTypeOK'
  BY <1>1, <1>2, <1>6 DEF PageView
<1>8. SessionInv'
  <2> USE DEF SessionInv
  <2>1. \A t \in Tabs \ moved' : page'[t].view # NoView => page'[t].view = session'
    BY <1>1
  <2>2. ASSUME NEW q \in running', q.kind \in {"put", "item", "open"}, ~q.moved
        PROVE  q.aimed = (IF q.read THEN q.view ELSE session')
    <3>1. q \in running /\ (s = session \/ q.read)
      BY <1>3, <1>5, <2>2
    <3>2. QED
      BY <1>1, <2>2, <3>1
  <2>3. ASSUME NEW q \in running', q.kind = "open", q.arg # None, ~q.results
        PROVE  q.aimed # NoView /\ Parent[q.arg] = Last(q.aimed.path)
    <3>1. PICK o \in running : Like(q, o)
      BY <1>3, <1>5, <2>3
    <3>2. QED
      BY <2>3, <3>1
  <2>4. ASSUME ~astray', NEW q \in running'
        PROVE  LeadsDown(q.view)
    <3>1. ~astray
      BY <2>4
    <3>2. q.view = NoView \/ \E o \in running : q.view = o.view
      BY <1>3, <1>5
    <3>3. QED
      BY <3>1, <3>2 DEF LeadsDown
  <2>5. ~astray' => LeadsDown(session')
    BY <1>1
  <2>6. QED
    BY <2>1, <2>2, <2>3, <2>4, <2>5 DEF LeadsDown
<1>9. QED
  BY <1>7, <1>8

(* The session is read, by a crumb with its path cut. *)
LEMMA ReadStep ==
    ASSUME SessionTypeOK, SessionInv, NEW r \in running, ReadSession(r)
    PROVE  SessionTypeOK' /\ SessionInv'
<1> DEFINE v == IF r.kind = "crumb" /\ session # NoView
                THEN [session EXCEPT !.path = CutTo(@, r.arg)] ELSE session
           q == [r EXCEPT !.read = TRUE, !.view = v]
<1> USE DEF SessionTypeOK
<1>1. /\ running' = (running \ {r}) \cup {q}
      /\ ~r.read
      /\ UNCHANGED <<session, page, count, latest, moved, astray>>
  BY DEF ReadSession
<1>2. v \in Views /\ (LeadsDown(session) => LeadsDown(v)) /\ (r.kind # "crumb" => v = session)
  <2>1. CASE ~(r.kind = "crumb" /\ session # NoView)
    BY <2>1
  <2>2. CASE r.kind = "crumb" /\ session # NoView
    <3> DEFINE old == session.path
               cut == CutTo(old, r.arg)
    <3>1. session \in [drive : Containers, path : Seq(Folders \cup {Root}) \ {<<>>}]
      BY <2>2 DEF Views
    <3>2. /\ cut \in Seq(Folders \cup {Root}) \ {<<>>}
          /\ Len(cut) <= Len(old) /\ \A k \in 1..Len(cut) : cut[k] = old[k]
      BY <3>1, CutPath
    <3>3. v = [session EXCEPT !.path = cut]
      BY <2>2
    <3>4. v \in Views
      BY <3>1, <3>2, <3>3 DEF Views
    <3>5. ASSUME LeadsDown(session)
          PROVE  LeadsDown(v)
      <4>1. v.path = cut
        BY <3>1, <3>3
      <4>2. Len(cut) \in Nat /\ Len(old) \in Nat /\ Len(cut) > 0
        BY <3>1, <3>2
      <4>3. cut[1] = Root
        BY <2>2, <3>2, <3>5, <4>2 DEF LeadsDown
      <4>4. ASSUME NEW k \in 2..Len(cut)
            PROVE  cut[k] # Root /\ Parent[cut[k]] = cut[k - 1]
        <5>1. k \in 2..Len(old) /\ k \in 1..Len(cut) /\ k - 1 \in 1..Len(cut)
          BY <3>2, <4>2
        <5>2. QED
          BY <2>2, <3>2, <3>5, <5>1 DEF LeadsDown
      <4>5. QED
        BY <4>1, <4>3, <4>4 DEF LeadsDown
    <3>6. QED
      BY <2>2, <3>4, <3>5
  <2>3. QED
    BY <2>1, <2>2
<1>3. /\ q \in Requests /\ q.read /\ q.view = v /\ q.kind = r.kind /\ q.arg = r.arg
      /\ q.aimed = r.aimed /\ q.results = r.results /\ q.moved = r.moved
  <2> HIDE DEF v
  <2>1. QED
    BY <1>2 DEF Requests
<1> HIDE DEF q, v
<1>4. Requests' = Requests
  BY <1>1 DEF Requests
<1>5. SessionTypeOK'
  BY <1>1, <1>3, <1>4
<1>6. SessionInv'
  <2> USE DEF SessionInv
  <2>1. \A t \in Tabs \ moved' : page'[t].view # NoView => page'[t].view = session'
    BY <1>1
  <2>2. ASSUME NEW o \in running', o.kind \in {"put", "item", "open"}, ~o.moved
        PROVE  o.aimed = (IF o.read THEN o.view ELSE session')
    BY <1>1, <1>2, <1>3, <2>2
  <2>3. ASSUME NEW o \in running', o.kind = "open", o.arg # None, ~o.results
        PROVE  o.aimed # NoView /\ Parent[o.arg] = Last(o.aimed.path)
    BY <1>1, <1>3, <2>3
  <2>4. ASSUME ~astray', NEW o \in running'
        PROVE  LeadsDown(o.view) /\ LeadsDown(session)
    BY <1>1, <1>2, <1>3, <2>4
  <2>5. LeadsDown(session') <=> LeadsDown(session)
    BY <1>1 DEF LeadsDown
  <2>6. ~astray' => LeadsDown(session)
    BY <1>1
  <2>7. QED
    BY <2>1, <2>2, <2>3, <2>4, <2>5, <2>6 DEF LeadsDown
<1>7. QED
  BY <1>5, <1>6

(* What Index writes and shows. *)
LEMMA IndexView ==
    ASSUME SessionTypeOK, SessionInv, NEW r \in running, r.kind = "drive" \/ r.read
    PROVE  LET v == IF r.kind = "drive" THEN View(r.arg, <<Root>>) ELSE r.view
           IN  v \in Views /\ (~astray => LeadsDown(v))
<1>1. CASE r.kind = "drive"
  <2>1. r.arg \in Containers /\ <<Root>> \in Seq(Folders \cup {Root}) \ {<<>>}
    BY <1>1 DEF SessionTypeOK
  <2>2. View(r.arg, <<Root>>) \in Views /\ LeadsDown(View(r.arg, <<Root>>))
    BY <2>1 DEF Views, View, LeadsDown
  <2>3. QED
    BY <1>1, <2>2
<1>2. CASE r.kind # "drive"
  BY <1>2 DEF SessionTypeOK, SessionInv, Requests
<1>3. QED
  BY <1>1, <1>2

(* The tab is served the view that the session gets. *)
LEMMA ServeStep ==
    ASSUME SessionTypeOK, SessionInv, NEW r \in running, NEW s \in Views, NEW res \in BOOLEAN,
           ServePage(r, s, s, res), UNCHANGED astray, ~astray => LeadsDown(s)
    PROVE  SessionTypeOK' /\ SessionInv'
<1>1. page \in [Tabs -> PageView] /\ r.tab \in Tabs /\ astray' \in BOOLEAN
  BY DEF SessionTypeOK, PageView, Requests
<1>2. CASE Waits(r)
  <2> DEFINE p == [page EXCEPT ![r.tab] = [view |-> s, results |-> res]]
  <2>1. /\ p \in [Tabs -> PageView]
        /\ \A t \in Tabs \ {r.tab} : p[t] = page[t]
        /\ \A t \in {r.tab} : p[t].view = s
    BY <1>1 DEF PageView
  <2>2. End(r, {}, s, p, {r.tab})
    BY <1>2 DEF ServePage
  <2> HIDE DEF p
  <2>3. QED
    BY <1>1, <2>1, <2>2, EndStep
<1>3. CASE ~Waits(r)
  <2>1. End(r, {}, s, page, {})
    BY <1>3 DEF ServePage
  <2>2. QED
    BY <1>1, <2>1, EndStep
<1>4. QED
  BY <1>2, <1>3

(* The tab is sent back to Index. *)
LEMMA RedirectStep ==
    ASSUME SessionTypeOK, SessionInv, NEW r \in running, NEW s \in Views, Redirect(r, s),
           astray' \in BOOLEAN, astray => astray', ~astray' => LeadsDown(s)
    PROVE  SessionTypeOK' /\ SessionInv'
<1>1. page \in [Tabs -> PageView]
  BY DEF SessionTypeOK, PageView
<1>2. PICK after \in SUBSET {Redirected(r)} : End(r, after, s, page, {})
  BY DEF Redirect
<1>3. QED
  BY <1>1, <1>2, EndStep

LEMMA OpenFolderStep ==
    ASSUME SessionTypeOK, SessionInv, NEW r \in running, OpenFolder(r)
    PROVE  SessionTypeOK' /\ SessionInv'
<1>1. session \in Views /\ astray \in BOOLEAN /\ r \in Requests
  BY DEF SessionTypeOK
<1>2. CASE r.view = NoView \/ r.arg = None
  <2>1. Redirect(r, session) /\ UNCHANGED astray
    BY <1>2 DEF OpenFolder
  <2>2. ~astray' => LeadsDown(session)
    BY <2>1 DEF SessionInv
  <2>3. QED
    BY <1>1, <2>1, <2>2, RedirectStep
<1>3. CASE r.view # NoView /\ r.arg # None
  <2> DEFINE old == r.view.path
             new == Append(old, r.arg)
             s == [r.view EXCEPT !.path = new]
  <2>1. /\ Redirect(r, s)
        /\ astray' = (astray \/ r.results \/ r.moved)
        /\ r.kind = "open" /\ r.read
    BY <1>3 DEF OpenFolder
  <2>2. /\ r.view \in [drive : Containers, path : Seq(Folders \cup {Root}) \ {<<>>}]
        /\ r.arg \in Folders
    BY <1>1, <1>3, <2>1 DEF Requests, Views, SessionTypeOK
  <2>3. s.path = new /\ s \in Views
    BY <2>2 DEF Views
  <2>4. /\ Len(old) \in Nat /\ Len(old) > 0 /\ Len(new) = Len(old) + 1
        /\ \A k \in 1..Len(old) : new[k] = old[k]
        /\ new[Len(old) + 1] = r.arg
    BY <2>2
  <2>5. astray' \in BOOLEAN /\ (astray => astray')
    BY <1>1, <2>1 DEF Requests
  <2>6. ASSUME ~astray'
        PROVE  LeadsDown(s)
    <3>1. ~astray /\ ~r.results /\ ~r.moved
      BY <2>1, <2>6
    <3>2. LeadsDown(r.view) /\ r.aimed = r.view /\ Parent[r.arg] = Last(r.aimed.path)
      BY <1>3, <2>1, <3>1 DEF SessionInv
    <3>3. Parent[r.arg] = old[Len(old)] /\ r.arg # Root
      BY <2>2, <3>2, TreeAssumption DEF Last
    <3>4. new[1] = Root
      BY <1>3, <2>4, <3>2 DEF LeadsDown
    <3>5. ASSUME NEW k \in 2..Len(new)
          PROVE  new[k] # Root /\ Parent[new[k]] = new[k - 1]
      <4>1. CASE k = Len(old) + 1
        BY <2>4, <3>3, <4>1
      <4>2. CASE k \in 2..Len(old)
        <5>1. k \in 1..Len(old) /\ k - 1 \in 1..Len(old)
          BY <4>2
        <5>2. QED
          BY <1>3, <2>4, <3>2, <4>2, <5>1 DEF LeadsDown
      <4>3. QED
        BY <2>4, <4>1, <4>2
    <3> HIDE DEF new
    <3>6. QED
      BY <2>3, <3>4, <3>5 DEF LeadsDown
  <2> HIDE DEF s
  <2>7. QED
    BY <2>1, <2>3, <2>5, <2>6, RedirectStep
<1>4. QED
  BY <1>2, <1>3

LEMMA ServerStepInv ==
    ASSUME SessionTypeOK, SessionInv, NEW r \in running, ServerStep(r)
    PROVE  SessionTypeOK' /\ SessionInv'
<1>1. /\ session \in Views /\ r \in Requests /\ astray \in BOOLEAN
      /\ page \in [Tabs -> PageView] /\ (~astray => LeadsDown(session))
  BY DEF SessionTypeOK, SessionInv, PageView
<1>2. CASE IndexDone(r)
  <2> DEFINE v == IF r.kind = "drive" THEN View(r.arg, <<Root>>) ELSE r.view
  <2>1. (r.kind = "drive" \/ r.read) /\ ServePage(r, v, v, FALSE) /\ UNCHANGED astray
    BY <1>2 DEF IndexDone
  <2>2. v \in Views /\ (~astray => LeadsDown(v))
    BY <2>1, IndexView
  <2> HIDE DEF v
  <2>3. QED
    BY <2>1, <2>2, ServeStep
<1>3. CASE IndexFails(r)
  <2> DEFINE v == IF r.kind = "drive" THEN View(r.arg, <<Root>>) ELSE r.view
  <2>1. (r.kind = "drive" \/ r.read) /\ End(r, {}, v, page, {}) /\ UNCHANGED astray
    BY <1>3 DEF IndexFails
  <2>2. v \in Views /\ (~astray => LeadsDown(v))
    BY <2>1, IndexView
  <2> HIDE DEF v
  <2>3. QED
    BY <1>1, <2>1, <2>2, EndStep
<1>4. CASE ResultsDone(r)
  <2>1. ServePage(r, session, session, TRUE) /\ UNCHANGED astray
    BY <1>4 DEF ResultsDone
  <2>2. QED
    BY <1>1, <2>1, ServeStep
<1>5. CASE ActDone(r)
  <2>1. Redirect(r, session) /\ UNCHANGED astray
    BY <1>5 DEF ActDone
  <2>2. QED
    BY <1>1, <2>1, RedirectStep
<1>6. CASE RequestFails(r)
  <2>1. End(r, {}, session, page, {}) /\ UNCHANGED astray
    BY <1>6 DEF RequestFails
  <2>2. QED
    BY <1>1, <2>1, EndStep
<1>7. QED
  BY <1>2, <1>3, <1>4, <1>5, <1>6, ReadStep, OpenFolderStep DEF ServerStep

LEMMA SessionStep ==
    SessionTypeOK /\ SessionInv /\ [SessionNext]_sessionVars => SessionTypeOK' /\ SessionInv'
<1> SUFFICES ASSUME SessionTypeOK, SessionInv, [SessionNext]_sessionVars
             PROVE  SessionTypeOK' /\ SessionInv'
  OBVIOUS
<1>1. ASSUME NEW t \in Tabs, NEW d \in Containers, OpenDrive(t, d)
      PROVE  SessionTypeOK' /\ SessionInv'
  BY <1>1, SendStep DEF OpenDrive
<1>2. ASSUME NEW t \in Tabs, NEW f \in Folders, ClickFolder(t, f)
      PROVE  SessionTypeOK' /\ SessionInv'
  BY <1>2, SendStep DEF ClickFolder, OnPage
<1>3. ASSUME NEW t \in Tabs, ClickCrumb(t)
      PROVE  SessionTypeOK' /\ SessionInv'
  <2>1. PICK k \in DOMAIN page[t].view.path :
            OnListing(t) /\ Send(t, "crumb", page[t].view.path[k])
    BY <1>3 DEF ClickCrumb
  <2>2. page[t].view.path[k] \in Folders \cup {Root}
    BY <2>1 DEF SessionTypeOK, Views, OnListing, OnPage
  <2>3. QED
    BY <2>1, <2>2, SendStep
<1>4. ASSUME NEW t \in Tabs, ClickThis(t)
      PROVE  SessionTypeOK' /\ SessionInv'
  BY <1>4, SendStep DEF ClickThis, OnListing, OnPage
<1>5. ASSUME NEW t \in Tabs, CloseSearch(t) \/ SubmitHere(t) \/ ClickItem(t)
      PROVE  SessionTypeOK' /\ SessionInv'
  BY <1>5, SendStep DEF CloseSearch, SubmitHere, ClickItem, OnListing, OnPage
<1>6. ASSUME NEW t \in Tabs, Submit(t)
      PROVE  SessionTypeOK' /\ SessionInv'
  <2>1. page[t].view.drive \in Containers
    BY <1>6 DEF Submit, OnPage, SessionTypeOK, Views
  <2>2. QED
    BY <1>6, <2>1, SendStep DEF Submit
<1>7. CASE UNCHANGED sessionVars
  BY <1>7 DEF sessionVars, SessionTypeOK, SessionInv, Requests, LeadsDown
<1>8. QED
  BY <1>1, <1>2, <1>3, <1>4, <1>5, <1>6, <1>7, ServerStepInv DEF SessionNext

LEMMA SessionStart == SessionInit => SessionTypeOK /\ SessionInv
<1> SUFFICES ASSUME SessionInit
             PROVE  SessionTypeOK /\ SessionInv
  OBVIOUS
<1>1. NoView \in Views
  BY DEF Views
<1>2. \A t \in Tabs : page[t] = NoPage
  BY DEF SessionInit
<1>3. page \in [Tabs -> [view : Views, results : BOOLEAN]]
  BY <1>1 DEF SessionInit, NoPage
<1>4. latest \in [Tabs -> 0..MaxRequests] /\ count \in 0..MaxRequests
  BY SessionAssumption DEF SessionInit
<1>5. SessionTypeOK
  BY <1>1, <1>3, <1>4 DEF SessionInit, SessionTypeOK
<1>6. SessionInv
  BY <1>2 DEF SessionInit, SessionInv, NoPage, LeadsDown
<1>7. QED
  BY <1>5, <1>6

(* All variables of FolderSession keep their types. *)
THEOREM SessionTypes == SessionSpec => []SessionTypeOK
BY SessionStart, SessionStep, PTL DEF SessionSpec

(* What a page asks for happens in the drive and the folder that it shows, *)
(* unless a request wrote the session after the page was served and before *)
(* this one read it (ContainerController.cs:61-113).                       *)
THEOREM RequestsActWhereShown == SessionSpec => []ActsWhereShown
<1>1. SessionInv => ActsWhereShown
  BY DEF SessionInv, ActsWhereShown
<1>2. QED
  BY <1>1, SessionStart, SessionStep, PTL DEF SessionSpec

(* The session's path leads from the root of the drive down, as long as no *)
(* folder is opened from search results or from a page left behind         *)
(* (ContainerController.cs:115-129, 199-262).                              *)
THEOREM SessionPathLeadsDown == SessionSpec => []PathLeadsDown
<1>1. SessionInv => PathLeadsDown
  BY DEF SessionInv, PathLeadsDown, LeadsDown
<1>2. QED
  BY <1>1, SessionStart, SessionStep, PTL DEF SessionSpec
-----------------------------------------------------------------------------
(* ContainersRoute.  Whatever is being created and is not waited for was   *)
(* interrupted; while nothing is waited for, the listing has or will have  *)
(* the rest.                                                               *)
Reached ==
    CASE loading = "list" -> RouteContainers
      [] loading = "gets" -> toGet \cup got \cup skipped \cup interrupted
      [] loading = "no" -> routeRows \cup skipped \cup interrupted

RouteInv ==
    /\ posting \ {awaited} \subseteq interrupted
    /\ awaited # Nobody => awaited \in posting /\ loading = "no"
    /\ alive /\ awaited = Nobody => stored \subseteq Reached

LEMMA RouteStart == RouteInit => RouteTypeOK /\ RouteInv
<1>1. RouteInit => RouteTypeOK
  <2>1. RouteInit => alive \in BOOLEAN /\ showCreateDialog \in BOOLEAN
    BY Zenon DEF RouteInit
  <2>2. QED
    BY <2>1, RouteAssumption DEF RouteInit, RouteTypeOK
<1>2. RouteInit => RouteInv
  BY DEF RouteInit, RouteInv, Reached
<1>3. QED
  BY <1>1, <1>2

(* The loader. *)
LEMMA LoaderStep ==
    ASSUME RouteTypeOK, RouteInv,
           \/ LoaderLists \/ LoaderThrows \/ LoaderEnds
           \/ \E c \in RouteContainers : LoaderGets(c) \/ LoaderSkips(c)
    PROVE  RouteTypeOK' /\ RouteInv'
<1> USE DEF RouteTypeOK, RouteInv, Reached, selectionVars
<1>1. CASE LoaderLists
  BY <1>1 DEF LoaderLists
<1>2. CASE LoaderThrows
  BY <1>2 DEF LoaderThrows
<1>3. CASE LoaderEnds
  BY <1>3 DEF LoaderEnds
<1>4. ASSUME NEW c \in RouteContainers, LoaderGets(c)
      PROVE  RouteTypeOK' /\ RouteInv'
  BY <1>4 DEF LoaderGets
<1>5. ASSUME NEW c \in RouteContainers, LoaderSkips(c)
      PROVE  RouteTypeOK' /\ RouteInv'
  BY <1>5 DEF LoaderSkips
<1>6. QED
  BY <1>1, <1>2, <1>3, <1>4, <1>5

(* The action, up to the answer of its request. *)
LEMMA CreationStep ==
    ASSUME RouteTypeOK, RouteInv, NEW c \in RouteContainers,
           SubmitCreateContainer(c) \/ ContainerCreated(c) \/ ActionEnds(c) \/ ActionThrows(c)
    PROVE  RouteTypeOK' /\ RouteInv'
<1> USE RouteAssumption DEF RouteTypeOK, RouteInv, Reached, selectionVars, loaderVars
<1>1. CASE SubmitCreateContainer(c)
  <2>1. RouteTypeOK'
    <3>1. showCreateDialog' \in BOOLEAN
      BY <1>1, Zenon DEF SubmitCreateContainer
    <3>2. QED
      BY <1>1, <3>1 DEF SubmitCreateContainer, RouteClick, Interrupt
  <2>2. RouteInv'
    BY <1>1 DEF SubmitCreateContainer, RouteClick, Interrupt
  <2>3. QED
    BY <2>1, <2>2
<1>2. CASE ContainerCreated(c)
  BY <1>2 DEF ContainerCreated
<1>3. CASE ActionEnds(c)
  BY <1>3 DEF ActionEnds
<1>4. CASE ActionThrows(c)
  BY <1>4 DEF ActionThrows
<1>5. QED
  BY <1>1, <1>2, <1>3, <1>4

(* What the user does but for submitting. *)
LEMMA RouteUserStep ==
    ASSUME RouteTypeOK, RouteInv,
           \/ ToggleCreateDialog \/ ClickContainers \/ LeaveAndReturn
           \/ \E ids \in SUBSET RouteContainers : OnSelectionChange(ids)
    PROVE  RouteTypeOK' /\ RouteInv'
<1> USE RouteAssumption DEF RouteTypeOK, RouteInv, Reached, selectionVars, loaderVars, RouteClick,
                            GridClick, Interrupt
<1>1. CASE ToggleCreateDialog
  BY <1>1 DEF ToggleCreateDialog
<1>2. CASE ClickContainers
  BY <1>2 DEF ClickContainers
<1>3. CASE LeaveAndReturn
  BY <1>3 DEF LeaveAndReturn
<1>4. ASSUME NEW ids \in SUBSET RouteContainers, OnSelectionChange(ids)
      PROVE  RouteTypeOK' /\ RouteInv'
  BY <1>4 DEF OnSelectionChange
<1>5. QED
  BY <1>1, <1>2, <1>3, <1>4

LEMMA RouteStep ==
    RouteTypeOK /\ RouteInv /\ [RouteNext]_routeVars => RouteTypeOK' /\ RouteInv'
<1> SUFFICES ASSUME RouteTypeOK, RouteInv, [RouteNext]_routeVars
             PROVE  RouteTypeOK' /\ RouteInv'
  OBVIOUS
<1>1. CASE RouteNext
  BY <1>1, LoaderStep, CreationStep, RouteUserStep DEF RouteNext
<1>2. CASE UNCHANGED routeVars
  BY <1>2 DEF routeVars, loaderVars, selectionVars, RouteTypeOK, RouteInv, Reached
<1>3. QED
  BY <1>1, <1>2

(* All variables of ContainersRoute keep their types. *)
THEOREM RouteTypes == RouteSpec => []RouteTypeOK
BY RouteStart, RouteStep, PTL DEF RouteSpec

(* Once no navigation is under way, every container that could be got is   *)
(* listed, unless its creation was interrupted (Containers.tsx:10-28).     *)
THEOREM EveryContainerListed == RouteSpec => []ContainersListed
<1>1. RouteTypeOK /\ RouteInv => ContainersListed
  BY DEF RouteTypeOK, RouteInv, Reached, ContainersListed
<1>2. QED
  BY <1>1, RouteStart, RouteStep, PTL DEF RouteSpec
-----------------------------------------------------------------------------
(* FileSharing.  While a dialog with permissions is open, no row but that  *)
(* of its file is selected, unless one was when it opened.                 *)
SharingInv ==
    /\ \A r \in revokes : ~r.crossed => r.item = r.link[1]
    /\ isDriveItemPermissionDialogOpen /\ ~crossed =>
           \A l \in driveItemPermissions : picked \in {l[1], NoFile}
    /\ ~relinked => clipboard = copiedFrom /\ shareLink = linkShown

LEMMA SharingStart == SharingInit => SharingTypeOK /\ SharingInv
<1>1. SharingInit => SharingTypeOK
  <2>1. SharingInit => /\ isDriveItemPermissionDialogOpen \in BOOLEAN /\ shareDialog \in BOOLEAN
                       /\ previewDialog \in BOOLEAN /\ crossed \in BOOLEAN /\ relinked \in BOOLEAN
    BY Zenon DEF SharingInit
  <2>2. QED
    BY <2>1, SharingAssumption DEF SharingInit, SharingTypeOK
<1>2. SharingInit => SharingInv
  BY DEF SharingInit, SharingInv
<1>3. QED
  BY <1>1, <1>2

(* The selection, and the previews, whose dialog only covers the list. *)
LEMMA PickStep ==
    ASSUME SharingTypeOK, SharingInv,
           \/ \E f \in SharedFiles \cup {NoFile} : Pick(f)
           \/ ItemsReplaced \/ PreviewItem \/ PreviewAnswered \/ PreviewFails \/ HidePreviewDialog
    PROVE  SharingTypeOK' /\ SharingInv'
<1> USE SharingAssumption DEF SharingTypeOK, SharingInv, permissionVars, linkDialogVars,
        clipboardVars, previewVars, SharingClick
<1>1. ASSUME NEW f \in SharedFiles \cup {NoFile}, Pick(f)
      PROVE  SharingTypeOK' /\ SharingInv'
  BY <1>1 DEF Pick, RowClick
<1>2. CASE ItemsReplaced
  BY <1>2 DEF ItemsReplaced
<1>3. CASE PreviewItem
  BY <1>3 DEF PreviewItem, RowClick
<1>4. CASE PreviewAnswered \/ PreviewFails
  <2>1. SharingTypeOK'
    <3>1. previewDialog' \in BOOLEAN
      BY <1>4, Zenon DEF PreviewAnswered, PreviewFails
    <3>2. QED
      BY <1>4, <3>1 DEF PreviewAnswered, PreviewFails
  <2>2. SharingInv'
    BY <1>4 DEF PreviewAnswered, PreviewFails
  <2>3. QED
    BY <2>1, <2>2
<1>5. CASE HidePreviewDialog
  <2>1. SharingTypeOK'
    <3>1. previewDialog' \in BOOLEAN
      BY <1>5, Zenon DEF HidePreviewDialog
    <3>2. QED
      BY <1>5, <3>1 DEF HidePreviewDialog
  <2>2. SharingInv'
    BY <1>5 DEF HidePreviewDialog
  <2>3. QED
    BY <2>1, <2>2
<1>6. QED
  BY <1>1, <1>2, <1>3, <1>4, <1>5

(* The permissions of a file. *)
LEMMA PermissionStep ==
    ASSUME SharingTypeOK, SharingInv,
           \/ ShowDriveItemPermissions \/ HideDriveItemPermissionsDialog
           \/ \E a \in asks : PermissionsAnswered(a) \/ PermissionsFail(a)
           \/ \E l \in driveItemPermissions : DeleteDriveItemPermission(l)
           \/ \E r \in revokes : RevokeAnswered(r) \/ RevokeFails(r)
    PROVE  SharingTypeOK' /\ SharingInv'
<1> USE SharingAssumption DEF SharingTypeOK, SharingInv, linkDialogVars, clipboardVars,
        previewVars, SharingClick
<1>1. CASE ShowDriveItemPermissions
  BY <1>1 DEF ShowDriveItemPermissions, RowClick
<1>2. CASE HideDriveItemPermissionsDialog
  <2>1. SharingTypeOK'
    <3>1. isDriveItemPermissionDialogOpen' \in BOOLEAN
      BY <1>2, Zenon DEF HideDriveItemPermissionsDialog
    <3>2. QED
      BY <1>2, <3>1 DEF HideDriveItemPermissionsDialog
  <2>2. SharingInv'
    BY <1>2 DEF HideDriveItemPermissionsDialog
  <2>3. QED
    BY <2>1, <2>2
<1>3. ASSUME NEW a \in asks, PermissionsAnswered(a)
      PROVE  SharingTypeOK' /\ SharingInv'
  BY <1>3 DEF PermissionsAnswered
<1>4. ASSUME NEW a \in asks, PermissionsFail(a)
      PROVE  SharingTypeOK' /\ SharingInv'
  BY <1>4 DEF PermissionsFail
<1>5. ASSUME NEW l \in driveItemPermissions, DeleteDriveItemPermission(l)
      PROVE  SharingTypeOK' /\ SharingInv'
  BY <1>5 DEF DeleteDriveItemPermission
<1>6. ASSUME NEW r \in revokes, RevokeAnswered(r)
      PROVE  SharingTypeOK' /\ SharingInv'
  BY <1>6 DEF RevokeAnswered, Revocable
<1>7. ASSUME NEW r \in revokes, RevokeFails(r)
      PROVE  SharingTypeOK' /\ SharingInv'
  BY <1>7 DEF RevokeFails
<1>8. QED
  BY <1>1, <1>2, <1>3, <1>4, <1>5, <1>6, <1>7

(* Links. *)
LEMMA LinkStep ==
    ASSUME SharingTypeOK, SharingInv,
           \/ \E permType \in LinkTypes : ShareItem(permType)
           \/ \E s \in linkCalls : ShareAnswered(s) \/ ShareFails(s)
           \/ HideShareDialog \/ AddShareLinkToClipboard
    PROVE  SharingTypeOK' /\ SharingInv'
<1> USE SharingAssumption DEF SharingTypeOK, SharingInv, permissionVars, clipboardVars,
        previewVars, SharingClick
<1>1. ASSUME NEW permType \in LinkTypes, ShareItem(permType)
      PROVE  SharingTypeOK' /\ SharingInv'
  BY <1>1 DEF ShareItem, RowClick, Links
<1>2. ASSUME NEW s \in linkCalls, ShareAnswered(s)
      PROVE  SharingTypeOK' /\ SharingInv'
  BY <1>2 DEF ShareAnswered
<1>3. ASSUME NEW s \in linkCalls, ShareFails(s)
      PROVE  SharingTypeOK' /\ SharingInv'
  BY <1>3 DEF ShareFails
<1>4. CASE HideShareDialog
  <2>1. SharingTypeOK'
    <3>1. shareDialog' \in BOOLEAN
      BY <1>4, Zenon DEF HideShareDialog
    <3>2. QED
      BY <1>4, <3>1 DEF HideShareDialog
  <2>2. SharingInv'
    BY <1>4 DEF HideShareDialog
  <2>3. QED
    BY <2>1, <2>2
<1>5. CASE AddShareLinkToClipboard
  BY <1>5 DEF AddShareLinkToClipboard, linkDialogVars
<1>6. QED
  BY <1>1, <1>2, <1>3, <1>4, <1>5

LEMMA SharingStep ==
    SharingTypeOK /\ SharingInv /\ [SharingNext]_sharingVars => SharingTypeOK' /\ SharingInv'
<1> SUFFICES ASSUME SharingTypeOK, SharingInv, [SharingNext]_sharingVars
             PROVE  SharingTypeOK' /\ SharingInv'
  OBVIOUS
<1>1. CASE SharingNext
  BY <1>1, PickStep, PermissionStep, LinkStep DEF SharingNext
<1>2. CASE UNCHANGED sharingVars
  BY <1>2 DEF sharingVars, permissionVars, linkDialogVars, clipboardVars, previewVars,
              SharingTypeOK, SharingInv
<1>3. QED
  BY <1>1, <1>2

(* All variables of FileSharing keep their types. *)
THEOREM SharingTypes == SharingSpec => []SharingTypeOK
BY SharingStart, SharingStep, PTL DEF SharingSpec

(* A link is revoked of its own file unless another row was selected when  *)
(* the dialog opened, and what is copied was shown unless another link     *)
(* came while it was open (files.js:652-665, 685-705, 805-807).            *)
THEOREM SharingActsAsShown == SharingSpec => []DialogsActAsShown
<1>1. SharingInv => DialogsActAsShown
  BY DEF SharingInv, DialogsActAsShown
<1>2. QED
  BY <1>1, SharingStart, SharingStep, PTL DEF SharingSpec
-----------------------------------------------------------------------------
(* ChatFrame.  What the queue will tell of a field is what its last        *)
(* message on that field says; if none does, the page knows already.       *)
TellsLast(q, f, v) ==
    \E k \in DOMAIN q : /\ f \in q[k].fields /\ q[k].values[f] = v
                        /\ \A j \in DOMAIN q : j > k => f \notin q[j].fields
Told(q, known, f, v) ==
    TellsLast(q, f, v) \/ (known[f] = v /\ \A j \in DOMAIN q : f \notin q[j].fields)

Learned(m, known) == [f \in Fields |-> IF f \in m.fields THEN m.values[f] ELSE known[f]]

LEMMA AppendTells ==
    ASSUME NEW q \in Seq(Messages), NEW m \in Messages, NEW f \in m.fields, NEW known
    PROVE  Told(Append(q, m), known, f, m.values[f])
<1>1. /\ Len(q) + 1 \in DOMAIN Append(q, m) /\ Append(q, m)[Len(q) + 1] = m
      /\ \A j \in DOMAIN Append(q, m) : ~(j > Len(q) + 1)
  OBVIOUS
<1>2. QED
  BY <1>1 DEF Told, TellsLast

LEMMA AppendKeeps ==
    ASSUME NEW q \in Seq(Messages), NEW m \in Messages, NEW f \in Fields \ m.fields, NEW known,
           NEW v, Told(q, known, f, v)
    PROVE  Told(Append(q, m), known, f, v)
<1>1. /\ DOMAIN q = 1..Len(q) /\ DOMAIN Append(q, m) = 1..(Len(q) + 1) /\ Len(q) \in Nat
      /\ \A j \in 1..Len(q) : Append(q, m)[j] = q[j]
      /\ Append(q, m)[Len(q) + 1] = m
  OBVIOUS
<1>2. ASSUME NEW k \in DOMAIN q, f \in q[k].fields, q[k].values[f] = v,
             \A j \in DOMAIN q : j > k => f \notin q[j].fields
      PROVE  TellsLast(Append(q, m), f, v)
  <2>1. k \in DOMAIN Append(q, m) /\ Append(q, m)[k] = q[k]
    BY <1>1
  <2>2. \A j \in DOMAIN Append(q, m) : j > k => f \notin Append(q, m)[j].fields
    BY <1>1, <1>2
  <2>3. QED
    BY <1>2, <2>1, <2>2 DEF TellsLast
<1>3. ASSUME \A j \in DOMAIN q : f \notin q[j].fields
      PROVE  \A j \in DOMAIN Append(q, m) : f \notin Append(q, m)[j].fields
  BY <1>1, <1>3
<1>4. QED
  BY <1>2, <1>3 DEF Told, TellsLast

LEMMA TailTells ==
    ASSUME NEW q \in Seq(Messages), q # <<>>, NEW f \in Fields, NEW known, NEW v,
           Told(q, known, f, v)
    PROVE  Told(Tail(q), Learned(Head(q), known), f, v)
<1>1. /\ DOMAIN q = 1..Len(q) /\ DOMAIN Tail(q) = 1..(Len(q) - 1) /\ Len(q) \in Nat \ {0}
      /\ Head(q) = q[1] /\ \A j \in 1..(Len(q) - 1) : Tail(q)[j] = q[j + 1]
  OBVIOUS
<1>2. ASSUME NEW k \in DOMAIN q, f \in q[k].fields, q[k].values[f] = v, k # 1,
             \A j \in DOMAIN q : j > k => f \notin q[j].fields
      PROVE  TellsLast(Tail(q), f, v)
  <2>1. k - 1 \in DOMAIN Tail(q) /\ Tail(q)[k - 1] = q[k]
    BY <1>1, <1>2
  <2>2. \A j \in DOMAIN Tail(q) : j > k - 1 => f \notin Tail(q)[j].fields
    BY <1>1, <1>2
  <2>3. QED
    BY <1>2, <2>1, <2>2 DEF TellsLast
<1>3. ASSUME f \in q[1].fields, q[1].values[f] = v, \A j \in DOMAIN q : j > 1 => f \notin q[j].fields
      PROVE  Told(Tail(q), Learned(Head(q), known), f, v)
  <2>1. \A j \in DOMAIN Tail(q) : f \notin Tail(q)[j].fields
    BY <1>1, <1>3
  <2>2. Learned(Head(q), known)[f] = v
    BY <1>1, <1>3 DEF Learned
  <2>3. QED
    BY <2>1, <2>2 DEF Told
<1>4. ASSUME known[f] = v, \A j \in DOMAIN q : f \notin q[j].fields
      PROVE  Told(Tail(q), Learned(Head(q), known), f, v)
  <2>1. \A j \in DOMAIN Tail(q) : f \notin Tail(q)[j].fields
    BY <1>1, <1>4
  <2>2. Learned(Head(q), known)[f] = v
    BY <1>1, <1>4 DEF Learned
  <2>3. QED
    BY <2>1, <2>2 DEF Told
<1>5. QED
  BY <1>2, <1>3, <1>4 DEF Told, TellsLast

(* A page that is connected was told, or is being told, all settings but   *)
(* those of unsent.  The heartbeats that run are those of all forms, but   *)
(* for the last once the page is connected; and the page is introduced     *)
(* until its port is taken.                                                *)
TellInv == port => \A f \in Fields \ unsent : Told(portQueue, seen, f, settings[f])
HeardInv == heard => settings["dataSources"] = DataSources(selectedContainers)
LinkInv ==
    /\ loaded => forms > 0
    /\ introduced => loaded
    /\ introduced <=> port \/ portSent
    /\ ~(port /\ portSent)
    /\ listening <=> forms > 0 /\ ~port
    /\ beats = IF port THEN 1..(forms - 1) ELSE 1..forms
ChatInv == TellInv /\ HeardInv /\ LinkInv

LEMMA BlankTyped == Blank \in Settings
<1>1. Undefined \in {Undefined} \cup Instructions \cup Looks \cup SUBSET ChatContainers
  OBVIOUS
<1>2. QED
  BY <1>1, Zenon DEF Blank, Settings

LEMMA ChatStart == ChatInit => ChatTypeOK /\ ChatInv
<1> SUFFICES ASSUME ChatInit
             PROVE  ChatTypeOK /\ ChatInv
  OBVIOUS
<1>1. subscribed \in BOOLEAN /\ listening \in BOOLEAN /\ introduced \in BOOLEAN
      /\ heard \in BOOLEAN /\ loaded \in BOOLEAN /\ port \in BOOLEAN /\ portSent \in BOOLEAN
  BY Zenon DEF ChatInit
<1>3. ChatTypeOK
  BY <1>1, BlankTyped, ChatAssumption DEF ChatInit, ChatTypeOK
<1>4. QED
  BY <1>3 DEF ChatInit, ChatInv, TellInv, HeardInv, LinkInv

(* A message through the port, of the fields fs that it changes. *)
LEMMA PostStep ==
    ASSUME ChatTypeOK, TellInv, NEW fs \in SUBSET Fields, NEW values \in Settings,
           Post(fs, values), UNCHANGED <<port, seen>>,
           unsent \ fs \subseteq unsent', unsent' \subseteq unsent, settings' = values,
           \A f \in Fields \ fs : values[f] = settings[f]
    PROVE  portQueue' \in Seq(Messages) /\ TellInv'
<1> DEFINE m == Message(fs, values)
<1>1. m \in Messages /\ m.fields = fs /\ m.values = values
  BY DEF Message, Messages
<1>2. portQueue' \in Seq(Messages)
  BY <1>1 DEF Post, ChatTypeOK
<1>3. ASSUME port', NEW f \in Fields \ unsent'
      PROVE  Told(portQueue', seen', f, settings'[f])
  <2>1. port /\ portQueue' = Append(portQueue, m)
    BY <1>3 DEF Post
  <2>2. CASE f \in fs
    BY <1>1, <2>1, <2>2, AppendTells DEF ChatTypeOK
  <2>3. CASE f \notin fs
    <3>1. Told(portQueue, seen, f, settings[f])
      BY <1>3, <2>1, <2>3 DEF TellInv
    <3>2. QED
      BY <1>1, <1>3, <2>1, <2>3, <3>1, AppendKeeps DEF ChatTypeOK
  <2>4. QED
    BY <2>2, <2>3
<1>4. QED
  BY <1>2, <1>3 DEF TellInv

(* Steps that leave the port and the page alone do not touch LinkInv. *)
LEMMA LinkKept ==
    ASSUME LinkInv, UNCHANGED <<linkVars, shownVars>>
    PROVE  LinkInv'
BY DEF LinkInv, linkVars, shownVars

LEMMA SelectStep ==
    ASSUME ChatTypeOK, ChatInv, NEW cs \in SUBSET ChatContainers, SelectContainers(cs)
    PROVE  ChatTypeOK' /\ ChatInv'
<1> USE DEF SelectContainers, ChatCall
<1>1. DataSources(cs) \in SUBSET ChatContainers
  BY DEF DataSources
<1>2. settings' \in Settings /\ \A f \in Fields \ {"dataSources"} : settings'[f] = settings[f]
  BY <1>1 DEF ChatTypeOK, Settings, Fields
<1>3. portQueue' \in Seq(Messages) /\ TellInv'
  <2>1. CASE subscribed
    BY <1>2, <2>1, PostStep DEF ChatInv, linkVars, Fields
  <2>2. CASE ~subscribed
    BY <2>2 DEF ChatInv, TellInv, linkVars, ChatTypeOK
  <2>3. QED
    BY <2>1, <2>2
<1>4. HeardInv'
  BY DEF HeardInv, ChatTypeOK, Settings, Fields
<1>5. LinkInv'
  BY LinkKept DEF ChatInv
<1>6. ChatTypeOK'
  BY <1>2, <1>3, ChatAssumption DEF ChatTypeOK, linkVars, shownVars
<1>7. QED
  BY <1>3, <1>4, <1>5, <1>6 DEF ChatInv

LEMMA SetStep ==
    ASSUME ChatTypeOK, ChatInv,
           SetPrompt \/ \E i \in Instructions : SetInstruction(i)
    PROVE  ChatTypeOK' /\ ChatInv'
<1>1. ASSUME NEW i \in Instructions, SetInstruction(i)
      PROVE  ChatTypeOK' /\ ChatInv'
  <2> USE <1>1 DEF SetInstruction, ChatCall
  <2>1. settings' \in Settings /\ \A f \in Fields \ {"instruction"} : settings'[f] = settings[f]
    BY DEF ChatTypeOK, Settings, Fields
  <2>3. portQueue' \in Seq(Messages) /\ TellInv'
    <3>1. CASE port
      BY <2>1, <3>1, PostStep DEF ChatInv, linkVars, Fields
    <3>2. CASE ~port
      BY <3>2 DEF Post, TellInv, linkVars, ChatTypeOK
    <3>3. QED
      BY <3>1, <3>2
  <2>4. HeardInv'
    BY DEF ChatInv, HeardInv, ChatTypeOK, Settings, Fields
  <2>5. LinkInv'
    BY LinkKept DEF ChatInv
  <2>6. unsent' \subseteq {"instruction", "look"} /\ chatCalls' \in 0..MaxChatCalls
    BY ChatAssumption DEF ChatTypeOK
  <2>7. UNCHANGED <<selectedContainers, subscribed, heard, linkVars, shownVars, seen, openings>>
    OBVIOUS
  <2>8. ChatTypeOK'
    BY <2>1, <2>3, <2>6, <2>7 DEF ChatTypeOK, linkVars, shownVars
  <2>9. QED
    BY <2>3, <2>4, <2>5, <2>8 DEF ChatInv
<1>2. CASE SetPrompt
  <2> USE <1>2 DEF SetPrompt, ChatCall
  <2>1. portQueue' \in Seq(Messages) /\ TellInv'
    BY PostStep DEF ChatInv, hostVars, linkVars, ChatTypeOK, Settings
  <2>2. HeardInv'
    BY DEF ChatInv, HeardInv, hostVars
  <2>3. LinkInv'
    BY LinkKept DEF ChatInv
  <2>4. ChatTypeOK'
    BY <2>1, ChatAssumption DEF ChatTypeOK, hostVars, linkVars, shownVars
  <2>5. QED
    BY <2>1, <2>2, <2>3, <2>4 DEF ChatInv
<1>3. QED
  BY <1>1, <1>2

(* What the host does without a message. *)
LEMMA SilentStep ==
    ASSUME ChatTypeOK, ChatInv,
           \/ \E on \in BOOLEAN : Subscribe(on)
           \/ \E l \in Looks : SetLook(l)
           \/ \E i \in Instructions \cup {Undefined}, l \in Looks \cup {settings["look"]} :
                  OpenChat(i, l)
           \/ OpenChatAgain \/ OpeningFails
    PROVE  ChatTypeOK' /\ ChatInv'
<1>1. /\ UNCHANGED <<port, beats, heartbeatInterval, listening, portSent, forms, loaded, introduced,
                     portQueue, seen, selectedContainers, heard>>
      /\ settings' \in Settings /\ unsent \subseteq unsent'
      /\ unsent' \subseteq {"instruction", "look"}
      /\ \A f \in Fields \ unsent' : settings'[f] = settings[f]
      /\ subscribed' \in BOOLEAN /\ openings' \in Nat /\ chatCalls' \in 0..MaxChatCalls
  <2> USE DEF ChatTypeOK, Settings, Fields, ChatCall, linkVars, frameVars, shownVars, hostVars
  <2>1. ASSUME NEW on \in BOOLEAN, Subscribe(on)
        PROVE  <1>1!:
    BY <2>1, ChatAssumption DEF Subscribe
  <2>2. ASSUME NEW l \in Looks, SetLook(l)
        PROVE  <1>1!:
    BY <2>2, ChatAssumption DEF SetLook
  <2>3. ASSUME NEW i \in Instructions \cup {Undefined},
               NEW l \in Looks \cup {settings["look"]}, OpenChat(i, l)
        PROVE  <1>1!:
    <3>1. settings' = [[settings EXCEPT !["instruction"] = i] EXCEPT !["look"] = l]
      BY <2>3 DEF OpenChat
    <3>2. /\ [settings EXCEPT !["instruction"] = i] \in Settings
          /\ settings' \in Settings /\ settings'["dataSources"] = settings["dataSources"]
      BY <3>1
    <3>3. unsent' = unsent \cup {"instruction", "look"}
      BY <2>3 DEF OpenChat
    <3>4. \A f \in Fields \ unsent' : settings'[f] = settings[f]
      BY <3>2, <3>3
    <3>5. QED
      BY <2>3, <3>2, <3>3, <3>4, ChatAssumption DEF OpenChat
  <2>4. CASE OpenChatAgain
    BY <2>4, ChatAssumption DEF OpenChatAgain
  <2>5. CASE OpeningFails
    BY <2>5 DEF OpeningFails
  <2>6. QED
    BY <2>1, <2>2, <2>3, <2>4, <2>5
<1>2. TellInv' /\ HeardInv'
  BY <1>1 DEF ChatInv, TellInv, HeardInv, Fields
<1>3. LinkInv'
  BY <1>1 DEF ChatInv, LinkInv
<1>4. ChatTypeOK'
  BY <1>1 DEF ChatTypeOK
<1>5. QED
  BY <1>2, <1>3, <1>4 DEF ChatInv

(* A form is submitted, the page loads, and it is connected. *)
LEMMA ConnectStep ==
    ASSUME ChatTypeOK, ChatInv,
           TokenCame \/ PageLoads \/ Heartbeat \/ OnWindowMessage
    PROVE  ChatTypeOK' /\ ChatInv'
<1>1. forms \in Nat /\ beats \subseteq 1..forms /\ heartbeatInterval = forms
  BY ChatAssumption DEF ChatTypeOK
<1>2. CASE TokenCame
  <2> USE <1>2 DEF TokenCame, hostVars
  <2>1. ChatTypeOK'
    <3>1. listening' \in BOOLEAN
      BY Zenon
    <3>2. /\ forms' \in 0..MaxForms /\ beats' \subseteq 1..forms'
          /\ heartbeatInterval' = forms' /\ openings' \in Nat
      BY ChatAssumption DEF ChatTypeOK
    <3>3. QED
      BY <3>1, <3>2 DEF ChatTypeOK
  <2>2. TellInv' /\ HeardInv'
    BY DEF ChatInv, TellInv, HeardInv
  <2>3. ~introduced /\ ~port /\ ~portSent /\ beats = 1..forms
    BY DEF ChatInv, LinkInv
  <2>4. beats' = 1..forms' /\ forms' > 0
    BY <1>1, <2>3
  <2>5. LinkInv'
    BY <2>3, <2>4 DEF LinkInv
  <2>6. QED
    BY <2>1, <2>2, <2>5 DEF ChatInv
<1>3. CASE PageLoads \/ Heartbeat
  <2> USE <1>3 DEF PageLoads, Heartbeat, hostVars, linkVars
  <2>1. ChatTypeOK'
    BY DEF ChatTypeOK
  <2>2. TellInv' /\ HeardInv'
    BY DEF ChatInv, TellInv, HeardInv
  <2>3. LinkInv'
    BY DEF ChatInv, LinkInv
  <2>4. QED
    BY <2>1, <2>2, <2>3 DEF ChatInv
<1>4. CASE OnWindowMessage
  <2> USE <1>4 DEF OnWindowMessage, TakePort
  <2> DEFINE m == Message(Fields, settings)
  <2>1. m \in Messages /\ m.fields = Fields /\ m.values = settings
    BY DEF Message, Messages, ChatTypeOK
  <2>2. <<m>> = Append(<<>>, m) /\ <<>> \in Seq(Messages) /\ <<m>> \in Seq(Messages)
    BY <2>1
  <2>3. ChatTypeOK'
    BY <2>2 DEF ChatTypeOK, shownVars
  <2>4. TellInv'
    <3>1. ASSUME NEW f \in Fields
          PROVE  Told(portQueue', seen', f, settings'[f])
      <4>1. Told(Append(<<>>, m), seen, f, m.values[f])
        BY <2>1, <2>2, AppendTells
      <4>2. QED
        BY <2>1, <2>2, <4>1
    <3>2. QED
      BY <3>1 DEF TellInv
  <2>5. HeardInv'
    BY DEF ChatInv, HeardInv
  <2>6. ~port /\ beats = 1..forms /\ loaded /\ introduced
    BY DEF ChatInv, LinkInv
  <2>7. beats' = 1..(forms' - 1) /\ port' /\ ~portSent' /\ ~listening' /\ forms' > 0
    BY <1>1, <2>6 DEF shownVars, ChatInv, LinkInv
  <2>8. LinkInv'
    BY <2>6, <2>7 DEF LinkInv, shownVars
  <2>9. QED
    BY <2>3, <2>4, <2>5, <2>8 DEF ChatInv
<1>5. QED
  BY <1>2, <1>3, <1>4

(* What goes through the port. *)
LEMMA PortStep ==
    ASSUME ChatTypeOK, ChatInv,
           PageReads \/ \E query \in BOOLEAN : OnChatWindowMessage(query)
    PROVE  ChatTypeOK' /\ ChatInv'
<1>1. ASSUME NEW query \in BOOLEAN, OnChatWindowMessage(query)
      PROVE  ChatTypeOK' /\ ChatInv'
  <2> USE <1>1 DEF OnChatWindowMessage, ChatCall, hostVars
  <2> DEFINE m == Message({}, settings)
             q == Append(portQueue, m)
  <2>1. m \in Messages /\ m.fields = {} /\ q \in Seq(Messages)
    BY DEF Message, Messages, ChatTypeOK
  <2>2. ASSUME NEW f \in Fields, Told(portQueue, seen, f, settings[f])
        PROVE  Told(portQueue', seen', f, settings'[f])
    <3>1. Told(q, seen, f, settings[f])
      BY <2>1, <2>2, AppendKeeps DEF ChatTypeOK
    <3>2. Told(Append(q, m), seen, f, settings[f])
      BY <2>1, <3>1, AppendKeeps
    <3>3. QED
      BY <3>1, <3>2
  <2>3. TellInv' /\ HeardInv'
    BY <2>2 DEF ChatInv, TellInv, HeardInv, linkVars
  <2>4. LinkInv'
    BY LinkKept DEF ChatInv
  <2>5. ChatTypeOK'
    <3>1. portQueue' \in Seq(Messages)
      BY <2>1
    <3>2. QED
      BY <3>1, ChatAssumption DEF ChatTypeOK, linkVars, shownVars
  <2>6. QED
    BY <2>3, <2>4, <2>5 DEF ChatInv
<1>2. CASE PageReads
  <2> USE <1>2 DEF PageReads, hostVars
  <2>1. seen' = Learned(Head(portQueue), seen) /\ portQueue' = Tail(portQueue)
    BY DEF Learned
  <2>2. seen' \in Settings /\ portQueue' \in Seq(Messages)
    <3>1. Head(portQueue) \in Messages
      BY DEF ChatTypeOK
    <3>2. QED
      BY <2>1, <3>1 DEF ChatTypeOK, Learned, Messages, Settings
  <2>3. TellInv' /\ HeardInv'
    <3>1. /\ port' = port /\ UNCHANGED <<settings, unsent, heard, selectedContainers>>
          /\ portQueue \in Seq(Messages) /\ portQueue # <<>>
      BY DEF linkVars, ChatTypeOK
    <3>2. ASSUME port, NEW f \in Fields \ unsent
          PROVE  Told(portQueue', seen', f, settings[f])
      <4>1. Told(portQueue, seen, f, settings[f])
        BY <3>2 DEF ChatInv, TellInv
      <4>2. Told(Tail(portQueue), Learned(Head(portQueue), seen), f, settings[f])
        BY <3>1, <4>1, TailTells
      <4>3. QED
        BY <2>1, <4>2
    <3>3. QED
      BY <3>1, <3>2 DEF ChatInv, TellInv, HeardInv
  <2>4. LinkInv'
    BY LinkKept DEF ChatInv
  <2>5. ChatTypeOK'
    BY <2>2 DEF ChatTypeOK, linkVars, shownVars
  <2>6. QED
    BY <2>3, <2>4, <2>5 DEF ChatInv
<1>3. QED
  BY <1>1, <1>2

LEMMA ChatStep ==
    ChatTypeOK /\ ChatInv /\ [ChatNext]_chatVars => ChatTypeOK' /\ ChatInv'
<1> SUFFICES ASSUME ChatTypeOK, ChatInv, [ChatNext]_chatVars
             PROVE  ChatTypeOK' /\ ChatInv'
  OBVIOUS
<1>1. CASE ChatNext
  BY <1>1, SelectStep, SetStep, SilentStep, ConnectStep, PortStep DEF ChatNext
<1>2. CASE UNCHANGED chatVars
  BY <1>2 DEF chatVars, hostVars, linkVars, frameVars, shownVars, ChatTypeOK, ChatInv, TellInv, HeardInv,
              LinkInv
<1>3. QED
  BY <1>1, <1>2

(* All variables of ChatFrame keep their types. *)
THEOREM ChatTypes == ChatSpec => []ChatTypeOK
BY ChatStart, ChatStep, PTL DEF ChatSpec

(* A page that has read its messages has the settings of the API, but for  *)
(* those that changed without a message, and the data sources of the       *)
(* selected containers (ChatEmbeddedAPI.ts:131-145, 212-321).              *)
THEOREM SettingsAreShown == ChatSpec => []SettingsShown
<1>1. ChatTypeOK /\ ChatInv => SettingsShown
  BY DEF ChatTypeOK, ChatInv, TellInv, HeardInv, Told, TellsLast, SettingsShown, Fields
<1>2. QED
  BY <1>1, ChatStart, ChatStep, PTL DEF ChatSpec

(* A chat that was opened is connected, or the last heartbeat or the port  *)
(* will connect it; then only overtaken openings leave heartbeats          *)
(* (ChatEmbeddedAPI.ts:131-145, 249-275).                                  *)
THEOREM PagesAreReached == ChatSpec => []PageIsReached
<1>1. ChatTypeOK /\ ChatInv => PageIsReached
  BY DEF ChatTypeOK, ChatInv, LinkInv, PageIsReached
<1>2. QED
  BY <1>1, ChatStart, ChatStep, PTL DEF ChatSpec
=============================================================================
