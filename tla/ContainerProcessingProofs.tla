--------------------- MODULE ContainerProcessingProofs ----------------------
(***************************************************************************)
(* Proofs about ContainerProcessing, for any items, columns, subscriptions *)
(* and numbers of calls and runs under way.                                *)
(***************************************************************************)
EXTENDS ContainerProcessing, TLAPS

CallPc == {"idle", "enable", "columns", "subscribe", "activate", "store",
           "disable", "remove", "clear"}

(* How a call goes on or ends keeps the types of its variables. *)
LEMMA CallTypes ==
    ASSUME TypeOK, NEW h \in Calls, NEW l \in SUBSET (Columns \cup Subs), NEW p \in CallPc,
           Answer(h, p, l) \/ Proceed(h, p, l) \/ Fail(h)
    PROVE  /\ cpc' \in [Calls -> CallPc]
           /\ left' \in [Calls -> SUBSET (Columns \cup Subs)]
           /\ sub' \in [Calls -> used \cup {None}]
           /\ alone' \in [Calls -> BOOLEAN]
           /\ trouble' \subseteq Trouble
  BY DEF CallPc, TypeOK, Answer, Proceed, Fail, End, Trouble, SwitchTrouble

(* All steps keep the types. *)
LEMMA TypeStep ==
    ASSUME TypeOK, LocalsInv, Next
    PROVE  TypeOK'
<1> USE ProcessingAssumption DEF Trouble, SwitchTrouble
<1>1. ASSUME NEW h \in Calls, Enable(h) PROVE TypeOK'
  BY <1>1 DEF TypeOK, Enable, Begin, driveVars, runVars
<1>2. ASSUME NEW h \in Calls, Disable(h) PROVE TypeOK'
  BY <1>2 DEF TypeOK, Disable, Begin, switchVars, driveVars, runVars
<1>3. ASSUME NEW h \in Calls, CallFails(h) PROVE TypeOK'
  BY <1>3 DEF TypeOK, CallFails, Fail, End, switchVars, driveVars, runVars
<1>4. ASSUME NEW h \in Calls, ReadColumns(h) PROVE TypeOK'
  BY <1>4 DEF TypeOK, ReadColumns, Proceed, switchVars, driveVars, runVars
<1>5. ASSUME NEW h \in Calls, AddColumn(h) PROVE TypeOK'
  <2>1. /\ columns' \subseteq Columns
        /\ \E p \in CallPc, l \in SUBSET (Columns \cup Subs) : Answer(h, p, l) \/ Fail(h)
    BY <1>5 DEF AddColumn, LocalsInv, TypeOK, CallPc
  <2>2. QED
    BY <1>5, <2>1, CallTypes DEF TypeOK, AddColumn, driveVars, runVars, CallPc
<1>6. ASSUME NEW h \in Calls, NEW r \in Runs, ValidateUrl(h, r) PROVE TypeOK'
  BY <1>6 DEF TypeOK, ValidateUrl, Proceed, switchVars, driveVars
<1>7. ASSUME NEW h \in Calls, Subscribe(h) PROVE TypeOK'
  <2>1. sub[h] \in used /\ Answer(h, "store", {})
    BY <1>7 DEF Subscribe, LocalsInv, Enabling
  <2>2. QED
    BY <1>7, <2>1, CallTypes DEF TypeOK, Subscribe, driveVars, runVars, CallPc
<1>8. ASSUME NEW h \in Calls, StoreId(h) PROVE TypeOK'
  BY <1>8 DEF TypeOK, StoreId, Fail, End, LocalsInv, Enabling, driveVars, runVars
<1>9. ASSUME NEW h \in Calls, ListSubscriptions(h) PROVE TypeOK'
  BY <1>9 DEF TypeOK, ListSubscriptions, Proceed, switchVars, driveVars, runVars
<1>10. ASSUME NEW h \in Calls, RemoveSubscription(h) PROVE TypeOK'
  <2>1. /\ live' \subseteq live
        /\ \E p \in CallPc, l \in SUBSET (Columns \cup Subs) : Answer(h, p, l) \/ Fail(h)
    BY <1>10 DEF RemoveSubscription, TypeOK, CallPc
  <2>2. QED
    BY <1>10, <2>1, CallTypes DEF TypeOK, RemoveSubscription, driveVars, runVars, CallPc
<1>11. ASSUME NEW h \in Calls, ClearId(h) PROVE TypeOK'
  BY <1>11 DEF TypeOK, ClearId, Fail, End, driveVars, runVars
<1>12. ASSUME NEW s \in Subs, Expire(s) \/ LoseNotification(s) PROVE TypeOK'
  BY <1>12 DEF TypeOK, Expire, LoseNotification, callVars, driveVars, runVars, switchVars
<1>13. ASSUME NEW s \in Subs, NEW r \in Runs, OnDriveChanged(s, r) PROVE TypeOK'
  BY <1>13 DEF TypeOK, OnDriveChanged, callVars, driveVars, switchVars
<1>14. ASSUME NEW f \in Files, Upload(f) \/ Delete(f) PROVE TypeOK'
  <2>1. uploads' \in [Files -> 0..MaxUploads]
    BY <1>14 DEF TypeOK, Upload, Delete
  <2>2. present' \subseteq Files /\ due' \subseteq used
    BY <1>14 DEF TypeOK, Upload, Delete
  <2>3. UNCHANGED <<switchVars, callVars, done, runVars, trouble>>
    BY <1>14 DEF Upload, Delete
  <2>4. QED
    BY <2>1, <2>2, <2>3 DEF TypeOK, callVars, runVars, switchVars
<1>15. ASSUME NEW r \in Runs, RunStep(r) PROVE TypeOK'
  <2>1. UNCHANGED <<switchVars, callVars, present, uploads>>
    BY <1>15 DEF RunStep, GetUnprocessedItems, SkipItem, TakeItem, ExtractFields, NoFields,
                 SetDriveItemFields, ItemGone, RunFails, AllProcessed, driveVars
  <2>2. trouble' \subseteq Trouble /\ due' \subseteq used
    BY <1>15 DEF RunStep, GetUnprocessedItems, SkipItem, TakeItem, ExtractFields, NoFields,
                 SetDriveItemFields, ItemGone, RunFails, AllProcessed, TypeOK
  <2>3. done' \in [Files -> 0..MaxUploads]
    BY <1>15 DEF RunStep, GetUnprocessedItems, SkipItem, TakeItem, ExtractFields, NoFields,
                 SetDriveItemFields, ItemGone, RunFails, AllProcessed, TypeOK, driveVars
  <2>4. /\ rpc' \in [Runs -> {"idle", "list", "items", "download", "write"}]
        /\ todo' \in [Runs -> SUBSET Files]
        /\ item' \in [Runs -> Supported \cup {None}]
        /\ stream' \in [Runs -> 0..MaxUploads]
    <3> USE DEF TypeOK
    <3>1. CASE GetUnprocessedItems(r)
      BY <3>1 DEF GetUnprocessedItems
    <3>2. CASE SkipItem(r) \/ TakeItem(r)
      BY <3>2 DEF SkipItem, TakeItem
    <3>3. CASE ExtractFields(r)
      BY <3>3 DEF ExtractFields
    <3>4. CASE NoFields(r) \/ SetDriveItemFields(r)
      BY <3>4 DEF NoFields, SetDriveItemFields, NextItem, EndRun
    <3>5. CASE ItemGone(r) \/ RunFails(r) \/ AllProcessed(r)
      BY <3>5 DEF ItemGone, RunFails, AllProcessed, EndRun
    <3>6. QED
      BY <1>15, <3>1, <3>2, <3>3, <3>4, <3>5 DEF RunStep
  <2>5. QED
    BY <2>1, <2>2, <2>3, <2>4 DEF TypeOK, switchVars, callVars
<1>16. QED
  BY <1>1, <1>2, <1>3, <1>4, <1>5, <1>6, <1>7, <1>8, <1>9, <1>10, <1>11, <1>12, <1>13,
     <1>14, <1>15 DEF Next, CallStep
-----------------------------------------------------------------------------
(* Steps of the drive and of the runs do not touch the switch. *)
LEMMA DriveSteps ==
    ASSUME SwitchInv, UNCHANGED <<live, used, prop, callVars>>,
           trouble' = trouble \/ trouble' = trouble \cup {"runFailed"}
    PROVE  SwitchInv'
  BY DEF SwitchInv, LocalsInv, AloneInv, RemoveInv, HonestInv, Honest, SwitchTrouble, callVars

(* A call that begins finds the switch as it is. *)
LEMMA CallsBegin ==
    ASSUME TypeOK, SwitchInv, NEW h \in Calls, Enable(h) \/ Disable(h)
    PROVE  SwitchInv'
<1> DEFINE p == cpc'[h]
<1>1. /\ cpc[h] = "idle" /\ p \in {"enable", "disable"}
      /\ cpc' = [cpc EXCEPT ![h] = p]
      /\ UNCHANGED <<live, prop, left>> /\ used \subseteq used'
  BY DEF Enable, Disable, Begin, switchVars, TypeOK
<1>2. LocalsInv'
  BY <1>1 DEF SwitchInv, LocalsInv, Enabling, TypeOK, Enable, Disable, Begin, switchVars
<1>3. CASE \A g \in Calls : cpc[g] = "idle"
  <2>1. alone' = [alone EXCEPT ![h] = TRUE] /\ trouble' = trouble
    BY <1>3 DEF Enable, Disable, Begin
  <2>2. \A g \in Calls \ {h} : cpc'[g] = "idle" /\ ~alone[g]
    BY <1>1, <1>3 DEF TypeOK, SwitchInv, AloneInv
  <2>3. AloneInv'
    BY <1>1, <2>1, <2>2 DEF AloneInv, TypeOK
  <2>4. RemoveInv'
    BY <1>1, <2>1, <2>2 DEF RemoveInv, TypeOK
  <2>5. HonestInv'
    BY <1>1, <1>3, <2>1, <2>2 DEF SwitchInv, HonestInv, Honest, Undecided, TypeOK
  <2>6. QED
    BY <1>2, <2>3, <2>4, <2>5 DEF SwitchInv
<1>4. CASE ~\A g \in Calls : cpc[g] = "idle"
  <2>1. alone' = [g \in Calls |-> FALSE] /\ trouble' = trouble \cup {"overlap"}
    BY <1>4 DEF Enable, Disable, Begin
  <2>2. QED
    BY <1>2, <2>1 DEF SwitchInv, AloneInv, RemoveInv, HonestInv, SwitchTrouble
<1>5. QED
  BY <1>3, <1>4

(* A call that fails leaves nothing that is relied upon. *)
LEMMA CallsFail ==
    ASSUME TypeOK, SwitchInv, NEW h \in Calls, cpc[h] # "idle", Fail(h), used' = used
    PROVE  SwitchInv'
<1>1. /\ cpc' = [cpc EXCEPT ![h] = "idle"] /\ alone' = [alone EXCEPT ![h] = FALSE]
      /\ left' = [left EXCEPT ![h] = {}] /\ sub' = [sub EXCEPT ![h] = None]
      /\ trouble' = trouble \cup {"callFailed"}
  BY DEF Fail, End
<1>2. LocalsInv'
  BY <1>1 DEF SwitchInv, LocalsInv, Enabling, TypeOK
<1>3. AloneInv'
  BY <1>1 DEF SwitchInv, AloneInv, TypeOK
<1>4. HonestInv'
  BY <1>1 DEF HonestInv, SwitchTrouble
<1>5. RemoveInv'
  BY <1>1 DEF SwitchInv, AloneInv, RemoveInv, TypeOK
<1>6. QED
  BY <1>2, <1>3, <1>4, <1>5 DEF SwitchInv

(* A call of enable goes on; only Subscribe adds to the subscriptions, and *)
(* the id that it is to store is then a living one.                        *)
LEMMA EnableSteps ==
    ASSUME TypeOK, SwitchInv, NEW h \in Calls,
           ReadColumns(h) \/ AddColumn(h) \/ (\E r \in Runs : ValidateUrl(h, r)) \/ Subscribe(h)
    PROVE  SwitchInv'
<1>1. used' = used /\ prop' = prop /\ cpc[h] \in {"enable", "columns", "subscribe", "activate"}
  BY DEF ReadColumns, AddColumn, ValidateUrl, Subscribe, switchVars
<1>2. CASE Fail(h)
  BY <1>1, <1>2, CallsFail
<1>3. CASE ~Fail(h)
  <2>1. PICK q \in {"columns", "subscribe", "activate", "store"}, l \in SUBSET (Columns \cup Subs) :
          /\ Proceed(h, q, l)
          /\ q = "columns" => l \subseteq Columns
          /\ q # "store" => live' = live
          /\ q = "store" => live' = live \cup {sub[h]}
    <3>1. CASE ReadColumns(h)
      BY <3>1 DEF ReadColumns, switchVars
    <3>2. CASE AddColumn(h)
      BY <1>3, <3>2 DEF AddColumn, Answer, SwitchInv, LocalsInv, TypeOK
    <3>3. CASE \E r \in Runs : ValidateUrl(h, r)
      BY <3>3 DEF ValidateUrl, switchVars
    <3>4. CASE Subscribe(h)
      BY <1>3, <3>4 DEF Subscribe, Answer
    <3>5. QED
      BY <3>1, <3>2, <3>3, <3>4
  <2>2. /\ cpc' = [cpc EXCEPT ![h] = q] /\ left' = [left EXCEPT ![h] = l]
        /\ UNCHANGED <<sub, alone, trouble>>
    BY <2>1 DEF Proceed
  <2>3. LocalsInv'
    BY <1>1, <2>1, <2>2 DEF SwitchInv, LocalsInv, Enabling, TypeOK
  <2>4. AloneInv'
    BY <1>1, <2>2 DEF SwitchInv, AloneInv, TypeOK
  <2>5. RemoveInv'
    BY <1>1, <2>1, <2>2 DEF SwitchInv, AloneInv, RemoveInv, TypeOK
  <2>6. HonestInv'
    <3>1. SUFFICES ASSUME trouble \cap SwitchTrouble = {}
                   PROVE  /\ (\A g \in Calls : cpc'[g] \in Undecided) => Honest'
                          /\ \A g \in Calls : cpc'[g] = "store" => sub'[g] \in live'
      BY <2>2 DEF HonestInv
    <3>2. \A g \in Calls \ {h} : cpc[g] = "idle" /\ cpc'[g] = "idle"
      BY <1>1, <2>2, <3>1 DEF SwitchInv, AloneInv, SwitchTrouble, TypeOK
    <3>3. Honest
      BY <1>1, <3>1, <3>2 DEF SwitchInv, HonestInv, Undecided
    <3>4. QED
      BY <1>1, <2>1, <2>2, <3>2, <3>3 DEF Honest, Undecided, TypeOK
  <2>7. QED
    BY <2>3, <2>4, <2>5, <2>6 DEF SwitchInv
<1>4. QED
  BY <1>2, <1>3

(* The id that is stored is that of a living subscription. *)
LEMMA StoreStep ==
    ASSUME TypeOK, SwitchInv, NEW h \in Calls, StoreId(h)
    PROVE  SwitchInv'
<1>1. /\ used' = used /\ live' = live /\ prop' = sub[h] /\ cpc[h] = "store"
  BY DEF StoreId
<1>2. CASE Fail(h)
  BY <1>1, <1>2, CallsFail
<1>3. CASE End(h) /\ trouble' = trouble
  <2>1. /\ cpc' = [cpc EXCEPT ![h] = "idle"] /\ alone' = [alone EXCEPT ![h] = FALSE]
        /\ left' = [left EXCEPT ![h] = {}] /\ sub' = [sub EXCEPT ![h] = None]
    BY <1>3 DEF End
  <2>2. LocalsInv'
    BY <1>1, <2>1 DEF SwitchInv, LocalsInv, Enabling, TypeOK
  <2>3. AloneInv'
    BY <1>3, <2>1 DEF SwitchInv, AloneInv, TypeOK
  <2>4. RemoveInv'
    BY <1>1, <2>1 DEF SwitchInv, RemoveInv, TypeOK
  <2>5. HonestInv'
    BY <1>1, <1>3, <2>1, ProcessingAssumption DEF SwitchInv, HonestInv, Honest, TypeOK
  <2>6. QED
    BY <2>2, <2>3, <2>4, <2>5 DEF SwitchInv
<1>4. QED
  BY <1>2, <1>3 DEF StoreId

(* A call of disable that is alone removes all that it has listed. *)
LEMMA DisableSteps ==
    ASSUME TypeOK, SwitchInv, NEW h \in Calls, ListSubscriptions(h) \/ RemoveSubscription(h)
    PROVE  SwitchInv'
<1>1. used' = used /\ prop' = prop /\ cpc[h] \in {"disable", "remove"}
  BY DEF ListSubscriptions, RemoveSubscription, switchVars
<1>2. CASE Fail(h)
  BY <1>1, <1>2, CallsFail
<1>3. CASE ~Fail(h)
  <2>1. PICK q \in {"remove", "clear"}, l \in SUBSET (Columns \cup Subs) :
          /\ Proceed(h, q, l) /\ live' \subseteq live
          /\ alone[h] /\ q = "remove" => live' \subseteq l
          /\ alone[h] /\ q = "clear" => live' = {}
    <3>1. CASE ListSubscriptions(h)
      BY <3>1 DEF ListSubscriptions, switchVars, TypeOK
    <3>2. CASE RemoveSubscription(h)
      <4>1. PICK s \in left[h] :
              /\ s \in live /\ live' = live \ {s}
              /\ Proceed(h, IF left[h] = {s} THEN "clear" ELSE "remove", left[h] \ {s})
        BY <1>3, <3>2 DEF RemoveSubscription, Answer
      <4>2. alone[h] => live \subseteq left[h]
        BY <3>2 DEF RemoveSubscription, SwitchInv, RemoveInv
      <4>3. CASE left[h] = {s}
        BY <4>1, <4>2, <4>3
      <4>4. CASE left[h] # {s}
        BY <4>1, <4>2, <4>4 DEF TypeOK
      <4>5. QED
        BY <4>3, <4>4
    <3>3. QED
      BY <3>1, <3>2
  <2>2. /\ cpc' = [cpc EXCEPT ![h] = q] /\ left' = [left EXCEPT ![h] = l]
        /\ UNCHANGED <<sub, alone, trouble>>
    BY <2>1 DEF Proceed
  <2>3. LocalsInv'
    BY <1>1, <2>1, <2>2 DEF SwitchInv, LocalsInv, Enabling, TypeOK
  <2>4. AloneInv'
    BY <1>1, <2>2 DEF SwitchInv, AloneInv, TypeOK
  <2>5. RemoveInv'
    BY <1>1, <2>1, <2>2 DEF SwitchInv, AloneInv, RemoveInv, TypeOK
  <2>6. HonestInv'
    <3>1. SUFFICES ASSUME trouble \cap SwitchTrouble = {}
                   PROVE  /\ ~\A g \in Calls : cpc'[g] \in Undecided
                          /\ \A g \in Calls : cpc'[g] # "store"
      BY <2>2 DEF HonestInv
    <3>2. \A g \in Calls \ {h} : cpc'[g] = "idle"
      BY <1>1, <2>2, <3>1 DEF SwitchInv, AloneInv, SwitchTrouble, TypeOK
    <3>3. QED
      BY <2>1, <2>2, <3>2 DEF Undecided, TypeOK
  <2>7. QED
    BY <2>3, <2>4, <2>5, <2>6 DEF SwitchInv
<1>4. QED
  BY <1>2, <1>3

(* A call of disable that was alone leaves the switch honest. *)
LEMMA ClearStep ==
    ASSUME TypeOK, SwitchInv, NEW h \in Calls, ClearId(h)
    PROVE  SwitchInv'
<1>1. used' = used /\ live' = live /\ prop' = None /\ cpc[h] = "clear"
  BY DEF ClearId
<1>2. CASE Fail(h)
  BY <1>1, <1>2, CallsFail
<1>3. CASE End(h) /\ trouble' = IF alone[h] THEN trouble \ SwitchTrouble ELSE trouble
  <2>1. /\ cpc' = [cpc EXCEPT ![h] = "idle"] /\ alone' = [alone EXCEPT ![h] = FALSE]
        /\ left' = [left EXCEPT ![h] = {}] /\ sub' = [sub EXCEPT ![h] = None]
    BY <1>3 DEF End
  <2>2. LocalsInv'
    BY <1>1, <2>1 DEF SwitchInv, LocalsInv, Enabling, TypeOK
  <2>3. RemoveInv'
    BY <1>1, <2>1 DEF SwitchInv, RemoveInv, TypeOK
  <2>4. CASE alone[h]
    <3>1. \A g \in Calls : cpc'[g] = "idle" /\ ~alone'[g]
      BY <2>1, <2>4 DEF SwitchInv, AloneInv, TypeOK
    <3>2. live' = {}
      BY <1>1, <2>4 DEF SwitchInv, RemoveInv
    <3>3. AloneInv' /\ HonestInv'
      BY <1>1, <3>1, <3>2 DEF AloneInv, HonestInv, Honest
    <3>4. QED
      BY <2>2, <2>3, <3>3 DEF SwitchInv
  <2>5. CASE ~alone[h]
    <3>1. "overlap" \in trouble /\ trouble' = trouble
      BY <1>1, <1>3, <2>5 DEF SwitchInv, AloneInv
    <3>2. HonestInv'
      BY <3>1 DEF HonestInv, SwitchTrouble
    <3>3. AloneInv'
      BY <1>1, <2>1, <3>1 DEF SwitchInv, AloneInv, TypeOK
    <3>4. QED
      BY <2>2, <2>3, <3>2, <3>3 DEF SwitchInv
  <2>6. QED
    BY <2>4, <2>5
<1>4. QED
  BY <1>2, <1>3 DEF ClearId

(* A subscription that expires is trouble, and a disable has one less to   *)
(* remove.                                                                 *)
LEMMA ExpireStep ==
    ASSUME SwitchInv, NEW s \in Subs, Expire(s)
    PROVE  SwitchInv'
<1>1. LocalsInv' /\ RemoveInv'
  BY DEF SwitchInv, LocalsInv, RemoveInv, Expire, callVars
<1>2. AloneInv' /\ HonestInv'
  BY DEF SwitchInv, AloneInv, HonestInv, SwitchTrouble, Expire, callVars
<1>3. QED
  BY <1>1, <1>2 DEF SwitchInv

(* All steps keep the invariant of the switch. *)
LEMMA SwitchStep ==
    ASSUME TypeOK, SwitchInv, Next
    PROVE  SwitchInv'
<1>1. ASSUME NEW h \in Calls, Enable(h) \/ Disable(h) \/ CallStep(h) PROVE SwitchInv'
  <2>1. CASE CallFails(h)
    BY <2>1, CallsFail DEF CallFails, switchVars
  <2>2. QED
    BY <1>1, <2>1, CallsBegin, EnableSteps, StoreStep, DisableSteps, ClearStep DEF CallStep
<1>2. ASSUME NEW r \in Runs, RunStep(r) PROVE SwitchInv'
  <2>1. /\ UNCHANGED <<live, used, prop, callVars>>
        /\ trouble' = trouble \/ trouble' = trouble \cup {"runFailed"}
    BY <1>2 DEF RunStep, GetUnprocessedItems, SkipItem, TakeItem, ExtractFields, NoFields,
                SetDriveItemFields, ItemGone, RunFails, AllProcessed, switchVars
  <2>2. QED
    BY <2>1, DriveSteps
<1>3. ASSUME NEW s \in Subs, LoseNotification(s) \/ (\E r \in Runs : OnDriveChanged(s, r))
      PROVE  SwitchInv'
  BY <1>3, DriveSteps DEF LoseNotification, OnDriveChanged, switchVars
<1>4. ASSUME NEW f \in Files, Upload(f) \/ Delete(f) PROVE SwitchInv'
  BY <1>4, DriveSteps DEF Upload, Delete, switchVars
<1>5. QED
  BY <1>1, <1>2, <1>3, <1>4, ExpireStep DEF Next
-----------------------------------------------------------------------------
(* The invariant holds in every reachable state. *)
THEOREM ProcessingInvariance == Spec => [](TypeOK /\ SwitchInv)
<1>1. Init => TypeOK /\ SwitchInv
  BY ProcessingAssumption DEF Init, TypeOK, SwitchInv, LocalsInv, Enabling, AloneInv, RemoveInv,
     HonestInv, Honest, Trouble
<1>2. TypeOK /\ SwitchInv /\ [Next]_vars => (TypeOK /\ SwitchInv)'
  <2> SUFFICES ASSUME TypeOK, SwitchInv, [Next]_vars PROVE (TypeOK /\ SwitchInv)'
    OBVIOUS
  <2>1. CASE Next
    BY <2>1, TypeStep, SwitchStep DEF SwitchInv
  <2>2. CASE UNCHANGED vars
    <3>1. TypeOK'
      BY <2>2 DEF vars, switchVars, callVars, driveVars, runVars, TypeOK
    <3>2. SwitchInv'
      BY <2>2, DriveSteps DEF vars, switchVars
    <3>3. QED
      BY <3>1, <3>2
  <2>3. QED
    BY <2>1, <2>2
<1>3. QED
  BY <1>1, <1>2, PTL DEF Spec

(* The variables keep their types. *)
THEOREM ProcessingTypes == Spec => []TypeOK
  BY ProcessingInvariance, PTL

-----------------------------------------------------------------------------
(* The refinement of ProcessingSwitch. *)

Reliable == trouble \cap SwitchTrouble = {}

(* While nothing is wrong, a call that is under way is the only one. *)
LEMMA OnlyCall ==
    ASSUME TypeOK, SwitchInv, Reliable, NEW h \in Calls, cpc[h] # "idle"
    PROVE  /\ \A g \in Calls \ {h} : cpc[g] = "idle"
           /\ alone[h]
           /\ Doing = IF cpc[h] \in Enabling THEN "enable" ELSE "disable"
<1>1. alone[h] /\ \A g \in Calls \ {h} : cpc[g] = "idle"
  BY DEF SwitchInv, AloneInv, Reliable, SwitchTrouble
<1>2. \A g \in Calls : cpc[g] \in Enabling => g = h
  BY <1>1 DEF Enabling
<1>3. QED
  BY <1>1, <1>2 DEF Doing

(* What a request of the only call leaves to do, if it did not fail.       *)
LEMMA CallGoesOn ==
    ASSUME TypeOK, SwitchInv, Reliable, NEW h \in Calls, cpc[h] # "idle",
           NEW p \in CallPc \ {"idle"}, cpc' = [cpc EXCEPT ![h] = p]
    PROVE  Doing' = IF p \in Enabling THEN "enable" ELSE "disable"
<1>1. cpc'[h] = p /\ \A g \in Calls \ {h} : cpc'[g] = "idle"
  BY OnlyCall DEF TypeOK
<1>2. \A g \in Calls : cpc'[g] \in Enabling => g = h
  BY <1>1 DEF Enabling
<1>3. QED
  BY <1>1, <1>2 DEF Doing

(* After the only call there is nothing to do. *)
LEMMA LastCallEnds ==
    ASSUME TypeOK, NEW h \in Calls, \A g \in Calls \ {h} : cpc[g] = "idle", End(h)
    PROVE  Doing' = "nothing"
<1>1. \A g \in Calls : cpc'[g] = "idle"
  BY DEF End, TypeOK
<1>2. QED
  BY <1>1 DEF Doing, Enabling

(* A step that makes the switch unreliable, or leaves it so, is one of     *)
(* those that may have had any effect.                                     *)
LEMMA WrongStep ==
    ASSUME ~Reliable'
    PROVE  Switch!Next
  BY DEF Reliable, Switch!Next, Switch!GoWrong

(* A call fails: nothing is promised any more. *)
LEMMA FailIsWrong ==
    ASSUME NEW h \in Calls, Fail(h)
    PROVE  ~Reliable'
  BY DEF Fail, Reliable, SwitchTrouble

(* A call begins alone, or overlaps with another. *)
LEMMA BeginRefines ==
    ASSUME TypeOK, NEW h \in Calls, Enable(h) \/ Disable(h)
    PROVE  Switch!Next
<1>1. CASE ~Reliable'
  BY <1>1, WrongStep
<1>2. CASE Reliable'
  <2>1. /\ \A g \in Calls : cpc[g] = "idle"
        /\ trouble' = trouble /\ live' = live /\ prop' = prop
    BY <1>2 DEF Enable, Disable, Begin, Reliable, SwitchTrouble, switchVars
  <2>2. Doing = "nothing"
    BY <2>1 DEF Doing, Enabling
  <2>3. PICK p \in {"enable", "disable"} : cpc' = [cpc EXCEPT ![h] = p]
    BY DEF Enable, Disable, Begin
  <2>4. cpc'[h] = p /\ \A g \in Calls \ {h} : cpc'[g] = "idle"
    BY <2>1, <2>3 DEF TypeOK
  <2>5. Doing' \in {"enable", "disable"}
    BY <2>4 DEF Doing, Enabling
  <2>6. Switch!Begin
    BY <1>2, <2>1, <2>2, <2>5 DEF Switch!Begin, Reliable
  <2>7. QED
    BY <2>6 DEF Switch!Next
<1>3. QED
  BY <1>1, <1>2

(* The requests of enable: only Graph's subscription and the stored id     *)
(* are steps of the switch.                                                *)
LEMMA EnableRefines ==
    ASSUME TypeOK, SwitchInv, NEW h \in Calls, Reliable', ~Fail(h),
           \/ ReadColumns(h) \/ AddColumn(h) \/ (\E r \in Runs : ValidateUrl(h, r))
           \/ Subscribe(h) \/ StoreId(h)
    PROVE  [Switch!Next]_(Switch!switch)
<1>1. trouble' = trouble /\ Reliable
  BY DEF ReadColumns, AddColumn, ValidateUrl, Subscribe, StoreId, Answer, Proceed, Reliable
<1>2. cpc[h] \in Enabling /\ cpc[h] # "idle"
  BY DEF ReadColumns, AddColumn, ValidateUrl, Subscribe, StoreId, Enabling
<1>3. Doing = "enable" /\ \A g \in Calls \ {h} : cpc[g] = "idle"
  BY <1>1, <1>2, OnlyCall
<1>4. CASE ReadColumns(h) \/ AddColumn(h) \/ (\E r \in Runs : ValidateUrl(h, r))
  <2>1. PICK p \in {"columns", "subscribe", "activate"} : cpc' = [cpc EXCEPT ![h] = p]
    BY <1>4 DEF ReadColumns, AddColumn, ValidateUrl, Answer, Proceed
  <2>2. Doing' = "enable"
    BY <1>1, <1>2, <2>1, CallGoesOn DEF CallPc, Enabling
  <2>3. live' = live /\ prop' = prop
    BY <1>4 DEF ReadColumns, AddColumn, ValidateUrl, switchVars
  <2>4. QED
    BY <1>1, <1>3, <2>2, <2>3 DEF Switch!switch, Reliable
<1>5. CASE Subscribe(h)
  <2>1. /\ cpc' = [cpc EXCEPT ![h] = "store"]
        /\ live' = live \cup {sub[h]} /\ prop' = prop
    BY <1>5 DEF Subscribe, Answer, Proceed
  <2>2. Doing' = "enable"
    BY <1>1, <1>2, <2>1, CallGoesOn DEF CallPc, Enabling
  <2>3. sub[h] \in Subs
    BY <1>2 DEF SwitchInv, LocalsInv, TypeOK
  <2>4. Switch!Serve(sub[h])
    BY <1>1, <1>3, <2>1, <2>2 DEF Switch!Serve, Reliable
  <2>5. QED
    BY <2>3, <2>4 DEF Switch!Next
<1>6. CASE StoreId(h)
  <2>1. End(h) /\ prop' = sub[h] /\ live' = live /\ cpc[h] = "store"
    BY <1>6 DEF StoreId
  <2>2. Doing' = "nothing"
    BY <1>3, <2>1, LastCallEnds
  <2>3. sub[h] \in live /\ sub[h] \in Subs
    BY <1>1, <1>2, <2>1 DEF SwitchInv, LocalsInv, HonestInv, TypeOK, Reliable
  <2>4. Switch!Show(sub[h])
    BY <1>1, <1>3, <2>1, <2>2, <2>3 DEF Switch!Show, Reliable
  <2>5. QED
    BY <2>3, <2>4 DEF Switch!Next
<1>7. QED
  BY <1>4, <1>5, <1>6

(* The requests of disable: each removal is a step of the switch, and so   *)
(* is the cleared id, which may also make up for what was wrong.           *)
LEMMA DisableRefines ==
    ASSUME TypeOK, SwitchInv, NEW h \in Calls, Reliable', ~Fail(h),
           ListSubscriptions(h) \/ RemoveSubscription(h) \/ ClearId(h)
    PROVE  [Switch!Next]_(Switch!switch)
<1>1. cpc[h] \notin Enabling /\ cpc[h] # "idle"
  BY DEF ListSubscriptions, RemoveSubscription, ClearId, Enabling
<1>2. CASE ListSubscriptions(h) \/ RemoveSubscription(h)
  <2>1. trouble' = trouble /\ Reliable
    BY <1>2 DEF ListSubscriptions, RemoveSubscription, Answer, Proceed, Reliable
  <2>2. PICK p \in {"remove", "clear"} : cpc' = [cpc EXCEPT ![h] = p]
    BY <1>2 DEF ListSubscriptions, RemoveSubscription, Answer, Proceed
  <2>3. Doing = "disable" /\ Doing' = "disable"
    BY <1>1, <2>1, <2>2, OnlyCall, CallGoesOn DEF CallPc, Enabling
  <2>4. prop' = prop
    BY <1>2 DEF ListSubscriptions, RemoveSubscription, switchVars
  <2>5. CASE ListSubscriptions(h)
    BY <2>1, <2>3, <2>5 DEF ListSubscriptions, switchVars, Switch!switch, Reliable
  <2>6. CASE RemoveSubscription(h)
    <3>1. PICK s \in live : live' = live \ {s}
      BY <2>6 DEF RemoveSubscription
    <3>2. s \in Subs
      BY DEF TypeOK
    <3>3. Switch!Remove(s)
      BY <2>1, <2>3, <2>4, <3>1 DEF Switch!Remove, Reliable
    <3>4. QED
      BY <3>2, <3>3 DEF Switch!Next
  <2>7. QED
    BY <1>2, <2>5, <2>6
<1>3. CASE ClearId(h)
  <2>1. /\ End(h) /\ prop' = None /\ live' = live /\ cpc[h] = "clear"
        /\ trouble' = IF alone[h] THEN trouble \ SwitchTrouble ELSE trouble
    BY <1>3 DEF ClearId
  <2>2. alone[h]
    BY <1>1, <2>1, OnlyCall DEF Reliable
  <2>3. live = {} /\ \A g \in Calls \ {h} : cpc[g] = "idle"
    BY <2>1, <2>2 DEF SwitchInv, AloneInv, RemoveInv
  <2>4. Doing' = "nothing"
    BY <2>1, <2>3, LastCallEnds
  <2>5. CASE Reliable
    <3>1. Doing = "disable" /\ Reliable'
      BY <1>1, <2>5, OnlyCall
    <3>2. Switch!Hide
      BY <2>1, <2>3, <2>4, <2>5, <3>1 DEF Switch!Hide, Reliable
    <3>3. QED
      BY <3>2 DEF Switch!Next
  <2>6. CASE ~Reliable
    <3>1. Switch!Recover
      BY <2>1, <2>3, <2>4, <2>6 DEF Switch!Recover, Reliable
    <3>2. QED
      BY <3>1 DEF Switch!Next
  <2>7. QED
    BY <2>5, <2>6
<1>4. QED
  BY <1>2, <1>3

(* What neither the calls nor Graph's subscriptions take part in. *)
LEMMA DriveRefines ==
    ASSUME UNCHANGED <<live, prop, cpc>>,
           trouble' = trouble \/ trouble' = trouble \cup {"runFailed"}
    PROVE  UNCHANGED Switch!switch
<1>1. Doing' = Doing
  BY DEF Doing
<1>2. trouble' \cap SwitchTrouble = trouble \cap SwitchTrouble
  BY DEF SwitchTrouble
<1>3. QED
  BY <1>1, <1>2 DEF Switch!switch

(* Every step is a step of the abstract switch, or a stutter. *)
LEMMA StepRefines ==
    ASSUME TypeOK, SwitchInv, Next
    PROVE  [Switch!Next]_(Switch!switch)
<1>1. ASSUME NEW h \in Calls, CallStep(h) PROVE [Switch!Next]_(Switch!switch)
  <2>1. CASE ~Reliable' \/ Fail(h)
    BY <2>1, WrongStep, FailIsWrong
  <2>2. CASE Reliable' /\ ~Fail(h)
    BY <1>1, <2>2, EnableRefines, DisableRefines DEF CallStep, CallFails
  <2>3. QED
    BY <2>1, <2>2
<1>2. ASSUME NEW s \in Subs, Expire(s) PROVE Switch!Next
  <2>1. ~Reliable'
    BY <1>2 DEF Expire, Reliable, SwitchTrouble
  <2>2. QED
    BY <2>1, WrongStep
<1>3. ASSUME NEW r \in Runs, RunStep(r) PROVE UNCHANGED Switch!switch
  <2>1. /\ UNCHANGED <<live, prop, cpc>>
        /\ trouble' = trouble \/ trouble' = trouble \cup {"runFailed"}
    BY <1>3 DEF RunStep, GetUnprocessedItems, SkipItem, TakeItem, ExtractFields, NoFields,
                SetDriveItemFields, ItemGone, RunFails, AllProcessed, switchVars, callVars
  <2>2. QED
    BY <2>1, DriveRefines
<1>4. ASSUME NEW s \in Subs, LoseNotification(s) \/ (\E r \in Runs : OnDriveChanged(s, r))
      PROVE  UNCHANGED Switch!switch
  BY <1>4, DriveRefines DEF LoseNotification, OnDriveChanged, switchVars, callVars
<1>5. ASSUME NEW f \in Files, Upload(f) \/ Delete(f) PROVE UNCHANGED Switch!switch
  BY <1>5, DriveRefines DEF Upload, Delete, switchVars, callVars
<1>6. QED
  BY <1>1, <1>2, <1>3, <1>4, <1>5, BeginRefines DEF Next

(* enable and disable implement the abstract switch, for any number of     *)
(* calls and whatever fails, overlaps or expires.                          *)
THEOREM SwitchIsImplemented == Spec => SwitchImplemented
<1>1. Init => Switch!Init
  BY DEF Init, Switch!Init, Doing, Enabling
<1>2. TypeOK /\ SwitchInv /\ [Next]_vars => [Switch!Next]_(Switch!switch)
  <2>1. ASSUME UNCHANGED vars PROVE UNCHANGED Switch!switch
    BY <2>1, DriveRefines DEF vars, switchVars, callVars
  <2>2. QED
    BY <2>1, StepRefines
<1>3. QED
  BY <1>1, <1>2, ProcessingInvariance, PTL DEF Spec, SwitchImplemented, Switch!Spec

(* What the abstract switch keeps, the calls keep: also while an enable is *)
(* under way, the subscription that the switch shows is one that Graph has.*)
THEOREM SwitchIsKept == Spec => []Switch!Kept
<1>1. Switch!Init => Switch!Kept
  BY DEF Switch!Init, Switch!Kept
<1>2. Switch!Kept /\ [Switch!Next]_(Switch!switch) => Switch!Kept'
  BY ProcessingAssumption DEF Switch!Kept, Switch!Next, Switch!switch, Switch!Begin, Switch!Hide,
     Switch!GoWrong, Switch!Recover, Switch!Serve, Switch!Show, Switch!Remove
<1>3. QED
  BY <1>1, <1>2, SwitchIsImplemented, PTL DEF SwitchImplemented, Switch!Spec

(* SwitchHonest, for any number of calls of enable and disable under way:  *)
(* the switch is honest since the last disable that ran alone, as long as  *)
(* no calls overlapped, none failed and no subscription expired.  Between  *)
(* calls it is what the abstract switch keeps.                             *)
THEOREM SwitchIsHonest == Spec => []SwitchHonest
<1>1. Switch!Kept => SwitchHonest
  BY DEF Switch!Kept, SwitchHonest, Honest, Doing, Enabling
<1>2. QED
  BY <1>1, SwitchIsKept, PTL
=============================================================================
