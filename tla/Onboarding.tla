----------------------------- MODULE Onboarding -----------------------------
(***************************************************************************)
(* How asp.net-webservice records the tenants that consented to it         *)
(* (Controllers/OnboardingController.cs).  Onboard adds a provisional      *)
(* record under a fresh id and sends the browser to the consent page with  *)
(* the id as its state; ProcessCode gets the answer.  It asks for the      *)
(* tenant's record and for the state's in two queries and saves what it    *)
(* found.  The browser may deliver an answer again, and the user may go    *)
(* back to the consent page and answer differently.  The table has no      *)
(* unique key but the id.                                                  *)
(***************************************************************************)
EXTENDS Naturals, FiniteSets

CONSTANTS
    Tenants,
    Visits,         \* the ids of the provisional records
    MaxAnswers,     \* bound on answers of the consent page
    Absent,         \* no such record
    Provisional     \* a record with no tenant yet

ASSUME OnboardingAssumption ==
    /\ Absent \notin Tenants /\ Provisional \notin Tenants /\ Absent # Provisional
    /\ MaxAnswers \in Nat

VARIABLES
    sites,      \* the tenant of each record
    codes,      \* ProcessCode requests under way
    answered,   \* how often each visit was answered
    welcomed,   \* tenants whose admin was sent to the containers
    paired      \* history: tenants of which two requests ran at once

onboardingVars == <<sites, codes, answered, welcomed, paired>>

OnboardingInit ==
    /\ sites = [v \in Visits |-> Absent] /\ codes = {}
    /\ answered = [v \in Visits |-> 0]
    /\ welcomed = {} /\ paired = {}

-----------------------------------------------------------------------------
Onboard(v) ==
    /\ sites[v] = Absent /\ answered[v] = 0
    /\ sites' = [sites EXCEPT ![v] = Provisional]
    /\ UNCHANGED <<codes, answered, welcomed, paired>>

(* The consent page was sent to the visitor, whose record may be gone.     *)
Asked(v) == sites[v] # Absent \/ answered[v] > 0

Consent(v, t) ==
    /\ Asked(v) /\ answered[v] < MaxAnswers
    /\ answered' = [answered EXCEPT ![v] = @ + 1]
    /\ codes' = codes \cup {[visit |-> v, nth |-> answered[v], tenant |-> t, step |-> "asked"]}
    /\ paired' = paired \cup {u \in {t} : \E c \in codes : c.tenant = t}
    /\ UNCHANGED <<sites, welcomed>>

(* An error or no consent: RemoveProvisonalRecord, which takes the state's *)
(* record whether it is provisional or not.                                *)
Decline(v) ==
    /\ Asked(v) /\ answered[v] < MaxAnswers
    /\ answered' = [answered EXCEPT ![v] = @ + 1]
    /\ sites' = [sites EXCEPT ![v] = Absent]
    /\ UNCHANGED <<codes, welcomed, paired>>

-----------------------------------------------------------------------------
(* Mutant of FindTenant: the tenant is not looked for. *)
FindNothing(c) ==
    /\ c.step = "asked"
    /\ codes' = (codes \ {c}) \cup {[c EXCEPT !.step = "new"]}
    /\ UNCHANGED <<sites, answered, welcomed, paired>>

(* Mutant of FindTenant: the tenant is welcomed before it is saved. *)
FindTenantEarly(c) ==
    /\ c.step = "asked"
    /\ welcomed' = welcomed \cup {c.tenant}
    /\ codes' = (codes \ {c}) \cup
           (IF \E v \in Visits : sites[v] = c.tenant THEN {} ELSE {[c EXCEPT !.step = "new"]})
    /\ UNCHANGED <<sites, answered, paired>>

(* The first query: a tenant that has a record is welcome. *)
FindTenant(c) ==
    /\ c.step = "asked"
    /\ IF \E v \in Visits : sites[v] = c.tenant
       THEN codes' = codes \ {c} /\ welcomed' = welcomed \cup {c.tenant}
       ELSE codes' = (codes \ {c}) \cup {[c EXCEPT !.step = "new"]} /\ UNCHANGED welcomed
    /\ UNCHANGED <<sites, answered, paired>>

(* The second query: state verification. *)
FindState(c) ==
    /\ c.step = "new"
    /\ codes' = (codes \ {c}) \cup
           (IF sites[c.visit] = Absent THEN {} ELSE {[c EXCEPT !.step = "found"]})
    /\ UNCHANGED <<sites, answered, welcomed, paired>>

(* SaveChanges, which throws if the record is gone by now. *)
Save(c) ==
    /\ c.step = "found"
    /\ codes' = codes \ {c}
    /\ IF sites[c.visit] = Absent
       THEN UNCHANGED <<sites, welcomed>>
       ELSE /\ sites' = [sites EXCEPT ![c.visit] = c.tenant]
            /\ welcomed' = welcomed \cup {c.tenant}
    /\ UNCHANGED <<answered, paired>>

OnboardingNext ==
    \/ \E v \in Visits : Onboard(v) \/ Decline(v) \/ \E t \in Tenants : Consent(v, t)
    \/ \E c \in codes : FindTenant(c) \/ FindState(c) \/ Save(c)

OnboardingSpec == OnboardingInit /\ [][OnboardingNext]_onboardingVars
-----------------------------------------------------------------------------
OnboardingTypeOK ==
    /\ sites \in [Visits -> Tenants \cup {Absent, Provisional}]
    /\ answered \in [Visits -> 0..MaxAnswers]
    /\ codes \subseteq [visit : Visits, nth : 0..MaxAnswers, tenant : Tenants,
                        step : {"asked", "new", "found"}]
    /\ welcomed \subseteq Tenants /\ paired \subseteq Tenants

Records(t) == {v \in Visits : sites[v] = t}

(* A tenant has one record, unless two of its consents were processed at   *)
(* once (OnboardingController.cs:139-149).                                 *)
OneRecordEach == \A t \in Tenants \ paired : \A v, w \in Records(t) : v = w

(* A tenant that was welcomed keeps its record, unless the visit that made *)
(* it, or any other, was answered again: a second answer may turn the      *)
(* record into another tenant's, or remove it                              *)
(* (OnboardingController.cs:125-164).                                      *)
WelcomedStay ==
    \A t \in welcomed : Records(t) # {} \/ \E v \in Visits : answered[v] > 1
=============================================================================
