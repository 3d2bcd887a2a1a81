---------------------------- MODULE OcrProofs -------------------------------
(***************************************************************************)
(* Proofs about the OCR sample: its server (ReceiptProcessor), for any     *)
(* files, names and number of runs, and its web client (OcrPage), for any  *)
(* tree of folders and any number of listings and uploads.                 *)
(***************************************************************************)
EXTENDS ReceiptProcessor, OcrPage, PathLemmas

(* All steps keep the types. *)
LEMMA TypeStep ==
    ASSUME TypeOK, RunInv, Next
    PROVE  TypeOK'
<1> USE ReceiptAssumption DEF TypeOK, Items, driveVars, runVars
<1>1. ASSUME NEW f \in Files, Upload(f) PROVE TypeOK'
  <2>1. uploads' \in [Files -> 0..MaxUploads]
    BY <1>1 DEF Upload
  <2>2. QED
    BY <1>1, <2>1 DEF Upload, Change, Extract
<1>2. ASSUME NEW f \in Files, Delete(f) PROVE TypeOK'
  BY <1>2 DEF Delete, Change
<1>3. CASE SetGraphClient \/ Expire \/ LoseNotification
  BY <1>3 DEF SetGraphClient, Expire, LoseNotification
<1>4. CASE Restart
  BY <1>4 DEF Restart, Existing
<1>5. ASSUME NEW r \in Runs, Notify(r) \/ Fetch(r) \/ FetchFails(r) \/ Receive(r) PROVE TypeOK'
  <2>1. CASE Notify(r)
    BY <2>1 DEF Notify
  <2>2. CASE Fetch(r) \/ FetchFails(r)
    BY <2>2 DEF Fetch, FetchFails
  <2>3. CASE Receive(r)
    BY <2>3 DEF Receive
  <2>4. QED
    BY <1>5, <2>1, <2>2, <2>3
<1>6. ASSUME NEW r \in Runs, Serve(r) PROVE TypeOK'
  BY <1>6 DEF Serve, Existing
<1>7. ASSUME NEW r \in Runs, GetDriveItem(r) \/ PassOver(r) \/ EndRun(r) PROVE TypeOK'
  BY <1>7 DEF GetDriveItem, PassOver, EndRun
<1>8. ASSUME NEW r \in Runs, Analyze(r) \/ Abandon(r) PROVE TypeOK'
  BY <1>8 DEF Analyze, Abandon, NextItem, RunInv
<1>9. ASSUME NEW r \in Runs, AddDriveItem(r) PROVE TypeOK'
  <2>1. item[r] \in Files /\ Stem[item[r]] \in Stems
    BY <1>9 DEF AddDriveItem, RunInv
  <2>2. json' \in [Stems -> Extract \cup {NoItem}]
    BY <1>9, <2>1 DEF AddDriveItem, Extract
  <2>3. QED
    BY <1>9, <2>1, <2>2 DEF AddDriveItem, NextItem, Change
<1>10. QED
  BY <1>1, <1>2, <1>3, <1>4, <1>5, <1>6, <1>7, <1>8, <1>9 DEF Next, ProcessDrive
-----------------------------------------------------------------------------
(* A run has a page only between a response and its receipt, and an item   *)
(* only from getDriveItem to the end of the item.                          *)
LEMMA RunStep ==
    ASSUME TypeOK, RunInv, Next
    PROVE  RunInv'
<1> USE ReceiptAssumption DEF TypeOK, RunInv
<1>1. CASE UNCHANGED <<pc, item, page>>
  BY <1>1
<1>2. CASE Restart
  BY <1>2 DEF Restart
<1>3. ASSUME NEW r \in Runs, Notify(r) \/ Fetch(r) \/ FetchFails(r) \/ EndRun(r) PROVE RunInv'
  BY <1>3 DEF Notify, Fetch, FetchFails, EndRun
<1>4. ASSUME NEW r \in Runs, Serve(r) \/ Receive(r) PROVE RunInv'
  BY <1>4 DEF Serve, Receive
<1>5. ASSUME NEW r \in Runs, GetDriveItem(r) PROVE RunInv'
  BY <1>5 DEF GetDriveItem
<1>6. ASSUME NEW r \in Runs, Analyze(r) \/ Abandon(r) \/ AddDriveItem(r) PROVE RunInv'
  BY <1>6 DEF Analyze, Abandon, AddDriveItem, NextItem
<1>7. QED
  BY <1>1, <1>2, <1>3, <1>4, <1>5, <1>6
     DEF Next, ProcessDrive, Upload, Delete, SetGraphClient, Expire, LoseNotification,
         PassOver, driveVars, runVars

(* What a run has in hand it keeps, hands on within itself, or settles.    *)
LEMMA HandledStays ==
    ASSUME TypeOK, RunInv, NEW r \in Runs, ProcessDrive(r), NEW f \in Files, Handled(f)
    PROVE  Handled(f)'
<1> USE ReceiptAssumption DEF TypeOK, RunInv
<1>1. settled \subseteq settled' /\ uploads' = uploads
  BY DEF ProcessDrive, Fetch, Serve, FetchFails, Receive, GetDriveItem, PassOver, Analyze,
         Abandon, AddDriveItem, EndRun, driveVars
<1>2. CASE f \in settled
  BY <1>1, <1>2 DEF Handled
<1>3. ASSUME NEW q \in Runs \ {r}, InHand(q, f) PROVE InHand(q, f)'
  <2>1. /\ pc'[q] = pc[q] /\ page'[q] = page[q] /\ changed'[q] = changed[q]
        /\ item'[q] = item[q] /\ stream'[q] = stream[q]
    BY DEF ProcessDrive, Fetch, Serve, FetchFails, Receive, GetDriveItem, PassOver, Analyze,
           Abandon, AddDriveItem, EndRun, NextItem, driveVars
  <2>2. QED
    BY <1>1, <1>3, <2>1 DEF InHand
<1>4. CASE InHand(r, f)
  <2> USE <1>4 DEF InHand
  <2>1. CASE Fetch(r) \/ FetchFails(r) \/ EndRun(r)
    <3>1. item[r] = NoItem /\ page' = page /\ changed' = changed
      BY <2>1 DEF Fetch, FetchFails, EndRun
    <3>2. QED
      BY <3>1 DEF Handled
  <2>2. CASE Serve(r) \/ Receive(r)
    <3>1. item[r] = NoItem /\ f \in page[r] \cup changed[r]
      BY <2>2 DEF Serve, Receive
    <3>2. f \in page'[r] \cup changed'[r]
      BY <2>2, <3>1 DEF Serve, Receive
    <3>3. QED
      BY <3>2 DEF Handled
  <2>3. CASE GetDriveItem(r)
    <3>1. item[r] = NoItem /\ page' = page
      BY <2>3 DEF GetDriveItem
    <3>2. f \in changed'[r] \/ (item'[r] = f /\ pc'[r] = "download") \/ f \in page'[r]
      BY <2>3, <3>1 DEF GetDriveItem
    <3>3. QED
      BY <3>2 DEF Handled
  <2>4. CASE PassOver(r)
    <3>1. item[r] = NoItem /\ page' = page
      BY <2>4 DEF PassOver
    <3>2. f \in changed'[r] \cup page'[r] \/ f \in settled'
      BY <2>4, <3>1 DEF PassOver
    <3>3. QED
      BY <3>2 DEF Handled
  <2>5. CASE Analyze(r)
    <3>1. page' = page /\ changed' = changed /\ item' = item
      BY <2>5 DEF Analyze
    <3>2. item[r] = f => stream'[r] = uploads'[f]
      BY <1>1, <2>5 DEF Analyze
    <3>3. QED
      BY <3>1, <3>2 DEF Handled
  <2>6. CASE Abandon(r)
    BY <2>6 DEF Abandon, Handled
  <2>7. CASE AddDriveItem(r)
    <3>1. page' = page /\ changed' = changed
      BY <2>7 DEF AddDriveItem
    <3>2. item[r] = f /\ stream[r] = uploads[f] => f \in settled'
      BY <2>7 DEF AddDriveItem
    <3>3. pc[r] # "download"
      BY <2>7 DEF AddDriveItem
    <3>4. QED
      BY <3>1, <3>2, <3>3 DEF Handled
  <2>8. QED
    BY <2>1, <2>2, <2>3, <2>4, <2>5, <2>6, <2>7 DEF ProcessDrive
<1>5. QED
  BY <1>2, <1>3, <1>4 DEF Handled

(* A step by which no token forgets a file, and no file comes or is no     *)
(* longer handled, keeps both covers.                                      *)
LEMMA CoversKept ==
    ASSUME TokenCovers, RequestCovers, present' = present, token \subseteq token',
           \A f \in Supported \cap present : Handled(f) => Handled(f)',
           \A r \in Runs : Asking(r)' => Asking(r) /\ request[r] \subseteq request'[r]
    PROVE  TokenCovers' /\ RequestCovers'
BY DEF TokenCovers, RequestCovers

(* Stored and requested tokens cover: each step of a run. *)
LEMMA RunCovers ==
    ASSUME IInv, NEW r \in Runs, ProcessDrive(r)
    PROVE  TokenCovers' /\ RequestCovers'
<1> USE ReceiptAssumption DEF TypeOK, IInv
<1>1. \A f \in Supported \cap present : Handled(f) => Handled(f)'
  BY HandledStays
<1>2. present' = present
  BY DEF ProcessDrive, Fetch, Serve, FetchFails, Receive, GetDriveItem, PassOver, Analyze,
         Abandon, AddDriveItem, EndRun, driveVars
<1>3. CASE Fetch(r)
  <2>1. token' = token /\ request'[r] = token
    BY <1>3 DEF Fetch
  <2>2. \A q \in Runs \ {r} : request'[q] = request[q] /\ (Asking(q)' <=> Asking(q))
    BY <1>3 DEF Fetch, Asking
  <2>3. QED
    BY <1>1, <1>2, <2>1, <2>2 DEF TokenCovers, RequestCovers
<1>4. CASE Serve(r)
  <2>1. PICK p \in SUBSET request[r] : /\ page' = [page EXCEPT ![r] = p \cap Existing]
                                       /\ request' = [request EXCEPT ![r] = @ \ p]
    BY <1>4 DEF Serve
  <2>2. token' = token /\ \A q \in Runs \ {r} : request'[q] = request[q] /\ (Asking(q)' <=> Asking(q))
    BY <1>4, <2>1 DEF Serve, Asking
  <2>3. \A f \in (Supported \cap present) \ request'[r] : Handled(f)'
    <3>1. TAKE f \in (Supported \cap present) \ request'[r]
    <3>2. CASE f \in p
      <4>1. f \in page'[r]
        BY <2>1, <3>2 DEF Existing
      <4>2. QED
        BY <4>1 DEF Handled, InHand
    <3>3. CASE f \notin p
      <4>1. f \notin request[r] /\ Asking(r)
        BY <1>4, <2>1, <3>3 DEF Serve, Asking
      <4>2. QED
        BY <1>1, <4>1 DEF RequestCovers
    <3>4. QED
      BY <3>2, <3>3
  <2>4. QED
    BY <1>1, <1>2, <2>2, <2>3 DEF TokenCovers, RequestCovers
<1>5. CASE Receive(r)
  <2>1. token' = request[r] /\ Asking(r) /\ ~Asking(r)'
    BY <1>5 DEF Receive, Asking
  <2>2. \A q \in Runs \ {r} : request'[q] = request[q] /\ (Asking(q)' <=> Asking(q))
    BY <1>5 DEF Receive, Asking
  <2>3. QED
    BY <1>1, <1>2, <2>1, <2>2 DEF TokenCovers, RequestCovers
<1>6. CASE FetchFails(r)
  BY <1>1, <1>2, <1>6, CoversKept DEF FetchFails, Asking
<1>7. CASE GetDriveItem(r) \/ PassOver(r) \/ Analyze(r) \/ Abandon(r) \/ EndRun(r)
  <2>1. token' = token /\ request' = request
    BY <1>7 DEF GetDriveItem, PassOver, Analyze, Abandon, EndRun
  <2>2. \A q \in Runs : Asking(q)' => Asking(q)
    BY <1>7 DEF GetDriveItem, PassOver, Analyze, Abandon, EndRun, NextItem, Asking
  <2>3. QED
    BY <1>1, <1>2, <2>1, <2>2, CoversKept
<1>8. CASE AddDriveItem(r)
  <2>1. token \subseteq token' /\ \A q \in Runs : request[q] \subseteq request'[q]
    BY <1>8 DEF AddDriveItem, Change
  <2>2. \A q \in Runs : Asking(q)' => Asking(q)
    BY <1>8 DEF AddDriveItem, NextItem, Asking
  <2>3. QED
    BY <1>1, <1>2, <2>1, <2>2, CoversKept
<1>9. QED
  BY <1>3, <1>4, <1>5, <1>6, <1>7, <1>8 DEF ProcessDrive

(* Stored and requested tokens cover: all steps. *)
LEMMA CoverStep ==
    ASSUME IInv, Next
    PROVE  TokenCovers' /\ RequestCovers'
<1> USE ReceiptAssumption DEF TypeOK, IInv
<1>1. ASSUME NEW f \in Files, Upload(f) \/ Delete(f) PROVE TokenCovers' /\ RequestCovers'
  <2>1. \A g \in Files \ {f} : Handled(g) => Handled(g)'
    BY <1>1 DEF Upload, Delete, Handled, InHand
  <2>2. present' \subseteq present \cup {f} /\ pc' = pc
    BY <1>1 DEF Upload, Delete
  <2>3. /\ token' = token \cup {f}
        /\ \A r \in Runs : Asking(r) => request'[r] = request[r] \cup {f}
    BY <1>1 DEF Upload, Delete, Change
  <2>4. QED
    BY <2>1, <2>2, <2>3 DEF TokenCovers, RequestCovers, Asking
<1>2. CASE SetGraphClient \/ Expire \/ LoseNotification
  BY <1>2, CoversKept
     DEF SetGraphClient, Expire, LoseNotification, driveVars, runVars, Handled, InHand, Asking
<1>3. CASE Restart
  BY <1>3 DEF Restart, TokenCovers, RequestCovers, Existing, Asking, driveVars
<1>4. ASSUME NEW r \in Runs, Notify(r) PROVE TokenCovers' /\ RequestCovers'
  <2>1. \A q \in Runs : pc[q] = "download" => pc'[q] = "download"
    BY <1>4 DEF Notify
  <2>2. \A f \in Files : Handled(f) => Handled(f)'
    BY <1>4, <2>1 DEF Notify, Handled, InHand
  <2>3. \A q \in Runs : Asking(q)' => Asking(q)
    BY <1>4 DEF Notify, Asking
  <2>4. QED
    BY <1>4, <2>2, <2>3, CoversKept DEF Notify
<1>5. ASSUME NEW r \in Runs, ProcessDrive(r) PROVE TokenCovers' /\ RequestCovers'
  BY <1>5, RunCovers
<1>6. QED
  BY <1>1, <1>2, <1>3, <1>4, <1>5 DEF Next

(* IInv is inductive: it holds of every reachable state. *)
THEOREM ReceiptInvariance == Spec => []IInv
<1>1. ASSUME Init PROVE IInv
  <2>1. TypeOK
    <3>1. \A S, T : \A c \in T : [x \in S |-> c] \in [S -> T]
      OBVIOUS
    <3>2. NoItem \in Supported \cup {NoItem} /\ NoItem \in Extract \cup {NoItem} /\ 0 \in 0..MaxUploads
      BY ReceiptAssumption
    <3>3. QED
      BY <1>1, <3>1, <3>2 DEF Init, TypeOK
  <2>2. RunInv
    BY <1>1 DEF Init, RunInv
  <2>3. TokenCovers /\ RequestCovers
    BY <1>1 DEF Init, TokenCovers, RequestCovers, Asking
  <2>4. QED
    BY <2>1, <2>2, <2>3 DEF IInv
<1>2. IInv /\ [Next]_vars => IInv'
  <2>1. ASSUME IInv, Next PROVE IInv'
    BY <2>1, TypeStep, RunStep, CoverStep DEF IInv
  <2>2. ASSUME IInv, UNCHANGED vars PROVE IInv'
    BY <2>2 DEF IInv, TypeOK, RunInv, TokenCovers, RequestCovers, Handled, InHand, Asking,
                vars, driveVars, runVars, Items, Extract
  <2>3. QED
    BY <2>1, <2>2
<1>3. QED
  BY <1>1, <1>2, PTL DEF Spec

(* All variables of ReceiptProcessor keep their types. *)
THEOREM ReceiptTypes == Spec => []TypeOK
<1>1. IInv => TypeOK
  BY DEF IInv
<1>2. QED
  BY <1>1, ReceiptInvariance, PTL

(* No overlap of runs makes the stored delta token pass over a change that *)
(* no run has collected.                                                   *)
THEOREM TokenNeverPasses == Spec => []TokenCovers
<1>1. IInv => TokenCovers
  BY DEF IInv
<1>2. QED
  BY <1>1, ReceiptInvariance, PTL
-----------------------------------------------------------------------------
(* DrivePage: the listings under way. *)
LoadRecord == [place : Places, late : BOOLEAN, closing : {None, "folder", "delete"}]

LEMMA LoadItemsType ==
    ASSUME PageTypeOK, NEW p \in Places, NEW here, NEW cause,
           NEW closing \in {None, "folder", "delete"}, LoadItems(p, here, cause, closing)
    PROVE  loads' \in Seq(LoadRecord)
BY DEF PageTypeOK, LoadItems, LoadRecord

LEMMA AnsweredType ==
    ASSUME PageTypeOK, NEW k \in DOMAIN loads
    PROVE  Answered(k) \in Seq(LoadRecord)
<1> DEFINE marked == [j \in DOMAIN loads |->
                         IF j < k THEN [loads[j] EXCEPT !.late = TRUE] ELSE loads[j]]
<1>1. loads \in Seq(LoadRecord)
  BY DEF PageTypeOK, LoadRecord
<1>2. \A j \in DOMAIN loads : /\ loads[j] \in LoadRecord
                              /\ [loads[j] EXCEPT !.late = TRUE] \in LoadRecord
  <2>1. \A j \in DOMAIN loads : loads[j] \in LoadRecord
    BY <1>1
  <2>2. \A l \in LoadRecord : [l EXCEPT !.late = TRUE] \in LoadRecord
    BY DEF LoadRecord
  <2>3. QED
    BY <2>1, <2>2
<1>3. marked \in Seq(LoadRecord) /\ Len(marked) = Len(loads)
  BY <1>1, <1>2
<1>4. k \in 1..Len(marked)
  BY <1>1, <1>3
<1> HIDE DEF marked
<1>5. RemoveAt(marked, k) \in Seq(LoadRecord)
  BY <1>3, <1>4, RemovedPlace
<1>6. QED
  BY <1>5 DEF Answered, marked

(* Counters within their bounds. *)
LEMMA ClickType ==
    ASSUME PageTypeOK, Click
    PROVE  events' \in 0..MaxEvents
BY PageAssumption DEF PageTypeOK, Click

LEMMA FailsType ==
    ASSUME PageTypeOK, NEW must, Fails(must)
    PROVE  failures' \in 0..MaxFailures
BY PageAssumption DEF PageTypeOK, Fails

(* What the screen will show: the page's place, when the last listing is   *)
(* answered, or what it shows now, for all others have been overtaken.     *)
PlaceComing ==
    /\ loads # <<>>
    /\ loads[Len(loads)].place = Here /\ ~loads[Len(loads)].late
Overtaken == \A k \in DOMAIN loads : loads[k].late

(* A listing of the page's place is coming, or there is a cause.           *)
LEMMA AskedPlace ==
    ASSUME PageTypeOK, NEW p, NEW here, NEW cause, NEW closing,
           LoadItems(p, here, cause, closing), here = Here'
    PROVE  PlaceComing' \/ (p # here /\ causes' = causes \cup {cause})
<1> DEFINE asked == [place |-> p, late |-> FALSE, closing |-> closing]
<1>1. loads' = Append(loads, asked) /\ loads \in Seq(LoadRecord)
  BY DEF LoadItems, PageTypeOK, LoadRecord
<1>2. loads' # <<>> /\ loads'[Len(loads')] = asked
  BY <1>1
<1>3. CASE p = here
  BY <1>2, <1>3 DEF PlaceComing
<1>4. CASE p # here
  BY <1>4 DEF LoadItems
<1>5. QED
  BY <1>3, <1>4

(* An answer that was not overtaken is the page's place, and overtakes all *)
(* the others, or that is still coming.                                    *)
LEMMA AnsweredPlace ==
    ASSUME PageTypeOK, NEW k \in DOMAIN loads, ~loads[k].late, PlaceComing \/ Overtaken,
           loads' = Answered(k), UNCHANGED <<container, crumbs>>
    PROVE  PlaceComing' \/ (Overtaken' /\ loads[k].place = Here)
<1> DEFINE n == Len(loads)
           marked == [j \in DOMAIN loads |->
                         IF j < k THEN [loads[j] EXCEPT !.late = TRUE] ELSE loads[j]]
<1>1. loads \in Seq(LoadRecord) /\ n \in Nat /\ DOMAIN loads = 1..n /\ k \in 1..n
  BY DEF PageTypeOK, LoadRecord
<1>2. PlaceComing
  BY DEF Overtaken
<1>3. \A j \in 1..n : loads[j] \in LoadRecord /\ [loads[j] EXCEPT !.late = TRUE] \in LoadRecord
  <2>1. \A j \in 1..n : loads[j] \in LoadRecord
    BY <1>1
  <2>2. \A l \in LoadRecord : [l EXCEPT !.late = TRUE] \in LoadRecord
    BY DEF LoadRecord
  <2>3. QED
    BY <2>1, <2>2
<1>4. marked \in Seq(LoadRecord) /\ Len(marked) = n
  BY <1>1, <1>3
<1>5. \A j \in 1..n : IF j < k THEN marked[j].late ELSE marked[j] = loads[j]
  <2>1. \A l \in LoadRecord : [l EXCEPT !.late = TRUE].late
    BY DEF LoadRecord
  <2>2. \A j \in 1..n : marked[j] = IF j < k THEN [loads[j] EXCEPT !.late = TRUE] ELSE loads[j]
    BY <1>1
  <2>3. QED
    BY <1>3, <2>1, <2>2
<1>6. loads' = RemoveAt(marked, k)
  BY DEF Answered
<1> HIDE DEF marked
<1>7. /\ Len(loads') = n - 1 /\ loads' \in Seq(LoadRecord)
      /\ \A i \in 1..(n - 1) : loads'[i] = IF i < k THEN marked[i] ELSE marked[i + 1]
  <2>1. k \in 1..Len(marked)
    BY <1>1, <1>4
  <2>2. /\ RemoveAt(marked, k) \in Seq(LoadRecord) /\ Len(RemoveAt(marked, k)) = Len(marked) - 1
        /\ \A i \in 1..(Len(marked) - 1) :
               RemoveAt(marked, k)[i] = IF i < k THEN marked[i] ELSE marked[i + 1]
    BY <1>4, <2>1, RemovedPlace
  <2>3. QED
    BY <1>4, <1>6, <2>2
<1> HIDE DEF n
<1>8. CASE k = n
  <2>1. \A i \in 1..(n - 1) : loads'[i].late
    BY <1>1, <1>5, <1>7, <1>8
  <2>2. DOMAIN loads' = 1..(n - 1)
    BY <1>1, <1>7
  <2>3. QED
    BY <1>2, <1>8, <2>1, <2>2 DEF PlaceComing, Overtaken, n
<1>9. CASE k # n
  <2>1. n - 1 \in 1..(n - 1) /\ ~(n - 1 < k) /\ (n - 1) + 1 = n /\ n \in 1..n /\ ~(n < k)
    BY <1>1, <1>9
  <2>2. loads'[n - 1] = loads[n]
    BY <1>5, <1>7, <2>1
  <2>3. loads' # <<>>
    BY <1>7, <2>1
  <2>4. loads[n].place = Here /\ ~loads[n].late
    BY <1>2 DEF PlaceComing, n
  <2>5. Here' = Here
    BY DEF Here
  <2>6. QED
    BY <1>7, <2>2, <2>3, <2>4, <2>5 DEF PlaceComing
<1>10. QED
  BY <1>8, <1>9

-----------------------------------------------------------------------------
(* OcrPage. *)
DeleteRecord == [at : Containers \X (Folders \cup {None}), then : Places]

(* The folder of the page is where the user went last, or one of another   *)
(* container, as long as the user does not come back to that; and a dialog *)
(* for a new folder that is open over another container than when it       *)
(* opened is over one that was not known then.                             *)
PlaceInv ==
    /\ ~cameBack => \/ folderId = Last(crumbs)
                    \/ folderId \in Folders /\ Home[folderId] # container
    /\ newFolder = "open" => /\ promised[1] \in choices
                             /\ promised[1] = container => promised = Here
    /\ LandsWhereLast

LEMMA OcrParts ==
    ASSUME OcrTypeOK
    PROVE  /\ loads \in Seq(LoadRecord) /\ deletes \in Seq(DeleteRecord)
           /\ events \in 0..MaxEvents /\ failures \in 0..MaxFailures
           /\ gone \in SUBSET Folders /\ container \in Containers
           /\ <<container, Root>> \in Places /\ <<container, folderId>> \in Places
           /\ Here \in Places
<1>1. Last(crumbs) \in Folders \cup {Root}
  BY DEF OcrTypeOK, PageTypeOK, Last
<1>2. QED
  BY <1>1 DEF OcrTypeOK, PageTypeOK, LoadRecord, DeleteRecord, Here, Places

(* Steps that leave the place of the page and the uploads.                 *)
LEMMA DialogStep ==
    ASSUME OcrTypeOK, PlaceInv,
           UNCHANGED <<container, crumbs, folderId, uploadingVars, cameBack>>,
           gone' \in SUBSET Folders, shown' \in Places \cup {<<"nothing">>, <<"results">>},
           loads' \in Seq(LoadRecord), events' \in 0..MaxEvents, failures' \in 0..MaxFailures,
           choices' = choices, createDialog' \in BOOLEAN,
           creation' \in {"none", "asked", "hung"},
           newFolder' \in {"closed", "listing", "hung"} \/ UNCHANGED folderVars,
           UNCHANGED <<target, promised>>,
           deleteDialog' \in BOOLEAN, row' \in Folders \cup {None},
           deletes' \in Seq(DeleteRecord)
    PROVE  OcrTypeOK' /\ PlaceInv'
<1> USE DEF uploadingVars, folderVars
<1>1. OcrTypeOK'
  BY DEF OcrTypeOK, PageTypeOK, LoadRecord, DeleteRecord
<1>2. PlaceInv'
  BY DEF PlaceInv, LandsWhereLast, InContainer, Here
<1>3. QED
  BY <1>1, <1>2

(* Containers shows a container, with what it has to choose from.          *)
LEMMA ShowStep ==
    ASSUME OcrTypeOK, PlaceInv, NEW c \in Containers, ShowContainer(c),
           events' \in 0..MaxEvents,
           UNCHANGED <<gone, shown, failures, folderId, folderVars, deleteVars, uploadingVars>>,
           choices' = choices \cup {c}, newFolder # "open" \/ c \notin choices,
           createDialog' \in BOOLEAN, creation' \in {"none", "asked", "hung"}
    PROVE  OcrTypeOK' /\ PlaceInv'
<1> USE DEF uploadingVars, folderVars, deleteVars
<1>1. /\ container' = c /\ crumbs' = <<Root>>
      /\ cameBack' = (cameBack \/ (folderId \in Folders /\ Home[folderId] = c))
      /\ LoadItems(<<c, Root>>, <<c, Root>>, "unexpected", None)
  BY DEF ShowContainer
<1>2. loads' \in Seq(LoadRecord)
  BY <1>1, LoadItemsType DEF Places, OcrTypeOK
<1>3. OcrTypeOK'
  BY <1>1, <1>2 DEF OcrTypeOK, PageTypeOK, LoadRecord
<1>4. Last(crumbs') = Root
  BY <1>1 DEF Last
<1>5. ~cameBack' => \/ folderId' = Last(crumbs')
                    \/ folderId' \in Folders /\ Home[folderId'] # container'
  BY <1>1, <1>4 DEF OcrTypeOK
<1>6. LandsWhereLast'
  BY <1>1 DEF PlaceInv, LandsWhereLast, InContainer
<1>7. newFolder' = "open" => /\ promised'[1] \in choices'
                             /\ promised'[1] = container' => promised' = Here'
  BY <1>1 DEF PlaceInv
<1>8. QED
  BY <1>3, <1>5, <1>6, <1>7 DEF PlaceInv

LEMMA ContainersStepSound ==
    ASSUME OcrTypeOK, PlaceInv, ContainersStep
    PROVE  OcrTypeOK' /\ PlaceInv'
<1> USE DEF uploadingVars, folderVars, deleteVars, listVars
<1>1. ASSUME NEW c \in Containers, OnContainerDropdownChange(c)
      PROVE  OcrTypeOK' /\ PlaceInv'
  <2>1. ShowContainer(c) /\ Click /\ c \in choices /\ newFolder # "open"
    BY <1>1 DEF OnContainerDropdownChange, OcrClick
  <2>2. events' \in 0..MaxEvents
    BY <2>1, ClickType DEF OcrTypeOK
  <2>3. choices' = choices \cup {c}
    BY <1>1, <2>1 DEF OnContainerDropdownChange, creationVars
  <2>4. createDialog' \in BOOLEAN /\ creation' \in {"none", "asked", "hung"}
    BY <1>1 DEF OnContainerDropdownChange, creationVars, OcrTypeOK
  <2>5. UNCHANGED <<gone, shown, failures, folderId, folderVars, deleteVars, uploadingVars>>
    BY <1>1 DEF OnContainerDropdownChange
  <2>6. QED
    BY <2>1, <2>2, <2>3, <2>4, <2>5, ShowStep
<1>2. ASSUME NEW c \in Containers, ContainerCreated(c)
      PROVE  OcrTypeOK' /\ PlaceInv'
  <2>1. /\ ShowContainer(c) /\ c \notin choices /\ choices' = choices \cup {c}
        /\ createDialog' = FALSE /\ creation' = "none" /\ events' = events
        /\ UNCHANGED <<gone, shown, failures, folderId, folderVars, deleteVars, uploadingVars>>
    BY <1>2 DEF ContainerCreated
  <2>2. events' \in 0..MaxEvents
    BY <2>1, OcrParts
  <2>3. QED
    BY <2>1, <2>2, ShowStep
<1>3. ASSUME LoadItems(<<container, Root>>, Here, "rerender", None),
             events' \in 0..MaxEvents, failures' \in 0..MaxFailures,
             createDialog' \in BOOLEAN, creation' \in {"none", "asked", "hung"},
             UNCHANGED <<gone, container, crumbs, shown, choices, folderId, folderVars, deleteVars,
                         uploadingVars, cameBack>>
      PROVE  OcrTypeOK' /\ PlaceInv'
  <2>1. loads' \in Seq(LoadRecord)
    BY <1>3, OcrParts, LoadItemsType DEF OcrTypeOK
  <2>2. QED
    BY <1>3, <2>1, OcrParts, DialogStep DEF OcrTypeOK, PageTypeOK
<1>4. CASE OpenCreateDialog \/ TypeContainerName \/ DismissCreateDialog
  <2>1. PICK isOpen \in BOOLEAN : Rerender(isOpen)
    BY <1>4 DEF OpenCreateDialog, TypeContainerName, DismissCreateDialog
  <2>2. events' \in 0..MaxEvents
    BY <2>1, ClickType DEF Rerender, OcrTypeOK
  <2>3. QED
    BY <1>3, <2>1, <2>2, OcrParts DEF Rerender, OcrTypeOK
<1>5. CASE CreateContainerClick
  BY <1>3, <1>5, OcrParts DEF CreateContainerClick, OcrTypeOK
<1>6. CASE ContainerRefused
  <2>1. failures' \in 0..MaxFailures
    BY <1>6, FailsType DEF ContainerRefused, OcrTypeOK
  <2>2. QED
    BY <1>3, <1>6, <2>1, OcrParts DEF ContainerRefused, OcrTypeOK
<1>7. CASE ContainerThrows
  <2>1. failures' \in 0..MaxFailures
    BY <1>7, FailsType DEF ContainerThrows, OcrTypeOK
  <2>2. QED
    BY <1>7, <2>1, OcrParts, DialogStep DEF ContainerThrows, OcrTypeOK, PageTypeOK
<1>8. QED
  BY <1>1, <1>2, <1>4, <1>5, <1>6, <1>7 DEF ContainersStep

LEMMA FolderLinkStep ==
    ASSUME OcrTypeOK, PlaceInv, NEW f \in Folders, FolderLink(f)
    PROVE  OcrTypeOK' /\ PlaceInv'
<1> USE DEF uploadingVars, folderVars, deleteVars, creationVars
<1>1. /\ Click /\ newFolder = "closed" /\ crumbs' = <<Root, f>> /\ folderId' = f
      /\ LoadItems(<<container, f>>, <<container, f>>, "unexpected", None)
      /\ UNCHANGED <<gone, container, shown, failures, creationVars, folderVars, deleteVars,
                     uploadingVars, cameBack>>
  BY DEF FolderLink, OcrClick
<1>2. loads' \in Seq(LoadRecord) /\ events' \in 0..MaxEvents
  BY <1>1, LoadItemsType, ClickType DEF Places, OcrTypeOK, PageTypeOK
<1>3. OcrTypeOK'
  BY <1>1, <1>2 DEF OcrTypeOK, PageTypeOK, LoadRecord
<1>4. Last(crumbs') = folderId'
  BY <1>1 DEF Last
<1>5. LandsWhereLast'
  BY <1>1 DEF PlaceInv, LandsWhereLast, InContainer
<1>6. QED
  BY <1>1, <1>3, <1>4, <1>5 DEF PlaceInv

LEMMA ItemsStep ==
    ASSUME OcrTypeOK, PlaceInv, NEW k \in DOMAIN loads, ItemsAnswered(k) \/ ItemsFail(k)
    PROVE  OcrTypeOK' /\ PlaceInv'
<1> USE DEF uploadingVars, creationVars
<1>1. loads[k] \in LoadRecord
  BY OcrParts
<1>2. PICK s, cause : ItemsLoaded(k, s, cause) /\ s \in {loads[k].place, shown}
  BY DEF ItemsAnswered, ItemsFail
<1>3. /\ shown' = s /\ loads' = Answered(k)
      /\ newFolder' = "closed" \/ newFolder' = newFolder
      /\ deleteDialog' \in BOOLEAN
      /\ UNCHANGED <<gone, container, crumbs, events, creationVars, folderId, target, promised, row,
                     deletes, uploadingVars, cameBack>>
  BY <1>2 DEF ItemsLoaded
<1>4. loads' \in Seq(LoadRecord)
  BY <1>3, AnsweredType DEF OcrTypeOK
<1>5. failures' \in 0..MaxFailures
  BY FailsType, OcrParts DEF ItemsAnswered, ItemsFail, OcrTypeOK
<1>6. shown' \in Places \cup {<<"nothing">>, <<"results">>}
  BY <1>1, <1>2, <1>3 DEF LoadRecord, OcrTypeOK, PageTypeOK
<1>7. newFolder' \in {"closed", "listing", "hung"} \/ UNCHANGED folderVars
  BY <1>3 DEF folderVars
<1>8. QED
  BY <1>3, <1>4, <1>5, <1>6, <1>7, OcrParts, DialogStep DEF OcrTypeOK

LEMMA NewFolderStep ==
    ASSUME OcrTypeOK, PlaceInv,
           \/ OpenFolderDialog \/ CancelFolderDialog \/ OnFolderCreateClick
           \/ FolderMade \/ FolderThrows
    PROVE  OcrTypeOK' /\ PlaceInv'
<1> USE DEF uploadingVars, deleteVars, creationVars, pageVars, listVars
<1>1. CASE OpenFolderDialog
  <2>1. /\ newFolder' = "open" /\ promised' = Here /\ Click
        /\ UNCHANGED <<gone, container, crumbs, listVars, failures, creationVars, folderId, target,
                       deleteVars, uploadingVars, cameBack>>
    BY <1>1 DEF OpenFolderDialog, OcrClick
  <2>2. events' \in 0..MaxEvents
    BY <2>1, ClickType DEF OcrTypeOK
  <2>3. OcrTypeOK'
    BY <2>1, <2>2, OcrParts DEF OcrTypeOK, PageTypeOK
  <2>4. promised' = Here' /\ promised'[1] \in choices'
    BY <2>1 DEF Here, OcrTypeOK
  <2>5. LandsWhereLast'
    BY <2>1 DEF PlaceInv, LandsWhereLast, InContainer
  <2>6. QED
    BY <2>1, <2>3, <2>4, <2>5 DEF PlaceInv
<1>2. CASE CancelFolderDialog
  BY <1>2, OcrParts, DialogStep DEF CancelFolderDialog, OcrTypeOK, PageTypeOK
<1>3. CASE OnFolderCreateClick
  <2>1. /\ newFolder = "open" /\ newFolder' = "creating" /\ target' = <<container, folderId>>
        /\ UNCHANGED <<pageVars, creationVars, folderId, promised, deleteVars, uploadingVars, cameBack>>
    BY <1>3 DEF OnFolderCreateClick
  <2>2. OcrTypeOK'
    BY <2>1, OcrParts DEF OcrTypeOK, PageTypeOK
  <2>3. ~cameBack /\ InContainer(target') /\ target'[1] = promised[1] => target' = promised
    <3> SUFFICES ASSUME ~cameBack, InContainer(target'), target'[1] = promised[1]
                 PROVE  target' = promised
      OBVIOUS
    <3>1. promised = Here
      BY <2>1 DEF PlaceInv
    <3>2. folderId = Root \/ (folderId \in Folders /\ Home[folderId] = container)
      BY <2>1 DEF InContainer
    <3>3. folderId = Last(crumbs)
      BY <3>2, TreeAssumption DEF PlaceInv
    <3>4. QED
      BY <2>1, <3>1, <3>3 DEF Here
  <2>4. LandsWhereLast'
    BY <2>1, <2>3 DEF PlaceInv, LandsWhereLast, InContainer
  <2>5. QED
    BY <2>1, <2>2, <2>4 DEF PlaceInv
<1>4. CASE FolderMade
  <2>1. LoadItems(target, Here, "cameBack", "folder") /\ target \in Places
    BY <1>4 DEF FolderMade, OcrTypeOK
  <2>2. loads' \in Seq(LoadRecord)
    BY <2>1, LoadItemsType DEF OcrTypeOK
  <2>3. QED
    BY <1>4, <2>2, OcrParts, DialogStep DEF FolderMade, OcrTypeOK, PageTypeOK
<1>5. CASE FolderThrows
  <2>1. failures' \in 0..MaxFailures
    BY <1>5, FailsType DEF FolderThrows, OcrTypeOK
  <2>2. QED
    BY <1>5, <2>1, OcrParts, DialogStep DEF FolderThrows, OcrTypeOK, PageTypeOK
<1>6. QED
  BY <1>1, <1>2, <1>3, <1>4, <1>5

LEMMA DeleteStep ==
    ASSUME OcrTypeOK, PlaceInv,
           \/ \E f \in Folders : OpenDeleteDialog(f)
           \/ \E isOpen \in BOOLEAN : DismissDeleteDialog(isOpen)
           \/ OnDeleteItemClick
           \/ \E k \in DOMAIN deletes : ItemRemoved(k) \/ DeleteThrows(k)
    PROVE  OcrTypeOK' /\ PlaceInv'
<1> USE DEF uploadingVars, folderVars, creationVars, pageVars, listVars
<1>1. ASSUME NEW f \in Folders, OpenDeleteDialog(f)
      PROVE  OcrTypeOK' /\ PlaceInv'
  <2>1. events' \in 0..MaxEvents
    BY <1>1, ClickType DEF OpenDeleteDialog, OcrClick, OcrTypeOK
  <2>2. QED
    BY <1>1, <2>1, OcrParts, DialogStep DEF OpenDeleteDialog, OcrTypeOK, PageTypeOK
<1>2. ASSUME NEW isOpen \in BOOLEAN, DismissDeleteDialog(isOpen)
      PROVE  OcrTypeOK' /\ PlaceInv'
  BY <1>2, OcrParts, DialogStep DEF DismissDeleteDialog, OcrTypeOK, PageTypeOK
<1>3. CASE OnDeleteItemClick
  <2>1. events' \in 0..MaxEvents
    BY <1>3, ClickType DEF OnDeleteItemClick, OcrTypeOK
  <2>2. [at |-> <<container, row>>, then |-> <<container, folderId>>] \in DeleteRecord
    BY OcrParts DEF DeleteRecord, OcrTypeOK
  <2>3. deletes' \in Seq(DeleteRecord)
    BY <1>3, <2>2, OcrParts DEF OnDeleteItemClick
  <2>4. QED
    BY <1>3, <2>1, <2>3, OcrParts, DialogStep DEF OnDeleteItemClick, OcrTypeOK, PageTypeOK
<1>4. ASSUME NEW k \in DOMAIN deletes, ItemRemoved(k) \/ DeleteThrows(k)
      PROVE  OcrTypeOK' /\ PlaceInv'
  <2>1. deletes[k] \in DeleteRecord /\ k \in 1..Len(deletes)
    BY OcrParts
  <2>2. deletes' = RemoveAt(deletes, k)
    BY <1>4 DEF ItemRemoved, DeleteThrows
  <2>3. deletes' \in Seq(DeleteRecord)
    BY <2>1, <2>2, OcrParts, RemovedPlace
  <2>4. CASE ItemRemoved(k)
    <3>1. LoadItems(deletes[k].then, Here, "cameBack", "delete") /\ deletes[k].then \in Places
      BY <2>1, <2>4 DEF ItemRemoved, DeleteRecord
    <3>2. loads' \in Seq(LoadRecord)
      BY <3>1, LoadItemsType DEF OcrTypeOK
    <3>3. deletes[k].at[2] \in Folders
      BY <2>1, <2>4, TreeAssumption DEF ItemRemoved, Valid, InContainer, DeleteRecord
    <3>4. gone' \in SUBSET Folders
      BY <2>4, <3>3, OcrParts DEF ItemRemoved
    <3>5. QED
      BY <2>3, <2>4, <3>2, <3>4, OcrParts, DialogStep DEF ItemRemoved, OcrTypeOK, PageTypeOK
  <2>5. CASE DeleteThrows(k)
    <3>1. failures' \in 0..MaxFailures
      BY <2>5, FailsType DEF DeleteThrows, OcrTypeOK
    <3>2. QED
      BY <2>3, <2>5, <3>1, OcrParts, DialogStep DEF DeleteThrows, OcrTypeOK, PageTypeOK
  <2>6. QED
    BY <1>4, <2>4, <2>5
<1>5. QED
  BY <1>1, <1>2, <1>3, <1>4

LEMMA UploadStep ==
    ASSUME OcrTypeOK, PlaceInv, NEW u \in Uploads,
           OnUploadFileSelected(u) \/ Uploaded(u) \/ NotUploaded(u)
    PROVE  OcrTypeOK' /\ PlaceInv'
<1> USE DEF folderVars, deleteVars, creationVars, listVars
<1>1. CASE OnUploadFileSelected(u)
  <2>1. /\ put' = [put EXCEPT ![u] = <<container, folderId>>]
        /\ aimed' = [aimed EXCEPT ![u] = Here] /\ uploading' = uploading \cup {u}
        /\ UNCHANGED <<gone, container, crumbs, listVars, failures, creationVars, folderId,
                       folderVars, deleteVars, cameBack>>
    BY <1>1 DEF OnUploadFileSelected
  <2>2. events' \in 0..MaxEvents
    BY <1>1, ClickType DEF OnUploadFileSelected, OcrClick, OcrTypeOK
  <2>3. /\ put'[u] = <<container, folderId>> /\ aimed'[u] = Here
        /\ \A v \in Uploads \ {u} : put'[v] = put[v] /\ aimed'[v] = aimed[v]
    BY <2>1 DEF OcrTypeOK
  <2>4. OcrTypeOK'
    BY <2>1, <2>2, <2>3, OcrParts DEF OcrTypeOK, PageTypeOK
  <2>5. ~cameBack /\ InContainer(put'[u]) => put'[u] = aimed'[u]
    <3> SUFFICES ASSUME ~cameBack, InContainer(<<container, folderId>>)
                 PROVE  <<container, folderId>> = Here
      BY <2>3
    <3>1. folderId = Root \/ (folderId \in Folders /\ Home[folderId] = container)
      BY DEF InContainer
    <3>2. folderId = Last(crumbs)
      BY <3>1, TreeAssumption DEF PlaceInv
    <3>3. QED
      BY <3>2 DEF Here
  <2>6. \A v \in uploading \ {u} : ~cameBack /\ InContainer(put'[v]) => put'[v] = aimed'[v]
    BY <2>3 DEF PlaceInv, LandsWhereLast, OcrTypeOK
  <2>7. LandsWhereLast'
    BY <2>1, <2>5, <2>6 DEF PlaceInv, LandsWhereLast, InContainer
  <2>8. PlaceInv'
    BY <2>1, <2>7 DEF PlaceInv, Here
  <2>9. QED
    BY <2>4, <2>8
<1>2. ASSUME uploading' = uploading \ {u}, loads' \in Seq(LoadRecord), failures' \in 0..MaxFailures,
             UNCHANGED <<gone, container, crumbs, shown, events, creationVars, folderId, folderVars,
                         deleteVars, put, aimed, cameBack>>
      PROVE  OcrTypeOK' /\ PlaceInv'
  <2>1. OcrTypeOK'
    BY <1>2, OcrParts DEF OcrTypeOK, PageTypeOK, LoadRecord
  <2>2. PlaceInv'
    BY <1>2 DEF PlaceInv, LandsWhereLast, InContainer, Here
  <2>3. QED
    BY <2>1, <2>2
<1>3. CASE Uploaded(u)
  <2>1. put[u] \in Places /\ LoadItems(put[u], Here, "upload", None)
    BY <1>3 DEF Uploaded, OcrTypeOK
  <2>2. loads' \in Seq(LoadRecord)
    BY <2>1, LoadItemsType DEF OcrTypeOK
  <2>3. QED
    BY <1>2, <1>3, <2>2, OcrParts DEF Uploaded
<1>4. CASE NotUploaded(u)
  <2>1. failures' \in 0..MaxFailures
    BY <1>4, FailsType DEF NotUploaded, OcrTypeOK
  <2>2. QED
    BY <1>2, <1>4, <2>1, OcrParts DEF NotUploaded
<1>5. QED
  BY <1>1, <1>3, <1>4

LEMMA OcrInvariant == OcrSpec => [](OcrTypeOK /\ PlaceInv)
<1>1. OcrInit => OcrTypeOK /\ PlaceInv
  <2> SUFFICES ASSUME OcrInit
               PROVE  OcrTypeOK /\ PlaceInv
    OBVIOUS
  <2>1. /\ gone = {} /\ container \in Containers /\ crumbs = <<Root>>
        /\ shown = <<"nothing">>
        /\ loads = << [place |-> <<container, Root>>, late |-> FALSE, closing |-> None] >>
        /\ events = 0 /\ failures = 0
    BY DEF OcrInit, PageInit
  <2>2. loads \in Seq(LoadRecord)
    BY <2>1 DEF LoadRecord, Places
  <2>3. PageTypeOK
    BY <2>1, <2>2, PageAssumption DEF PageTypeOK, LoadRecord
  <2>4. deletes \in Seq(DeleteRecord)
    BY DEF OcrInit
  <2>5. OcrTypeOK
    BY <2>1, <2>3, <2>4 DEF OcrInit, OcrTypeOK, DeleteRecord, Places
  <2>6. folderId = Last(crumbs)
    BY <2>1 DEF OcrInit, Last
  <2>7. QED
    BY <2>5, <2>6 DEF OcrInit, PlaceInv, LandsWhereLast
<1>2. OcrTypeOK /\ PlaceInv /\ [OcrNext]_ocrVars => OcrTypeOK' /\ PlaceInv'
  <2> SUFFICES ASSUME OcrTypeOK, PlaceInv, [OcrNext]_ocrVars
               PROVE  OcrTypeOK' /\ PlaceInv'
    OBVIOUS
  <2>1. CASE ContainersStep
    BY <2>1, ContainersStepSound
  <2>2. ASSUME NEW f \in Folders, FolderLink(f)
        PROVE  OcrTypeOK' /\ PlaceInv'
    BY <2>2, FolderLinkStep
  <2>3. ASSUME NEW k \in DOMAIN loads, ItemsAnswered(k) \/ ItemsFail(k)
        PROVE  OcrTypeOK' /\ PlaceInv'
    BY <2>3, ItemsStep
  <2>4. CASE \/ OpenFolderDialog \/ CancelFolderDialog \/ OnFolderCreateClick
             \/ FolderMade \/ FolderThrows
    BY <2>4, NewFolderStep
  <2>5. CASE \/ \E f \in Folders : OpenDeleteDialog(f)
             \/ \E isOpen \in BOOLEAN : DismissDeleteDialog(isOpen)
             \/ OnDeleteItemClick
             \/ \E k \in DOMAIN deletes : ItemRemoved(k) \/ DeleteThrows(k)
    BY <2>5, DeleteStep
  <2>6. ASSUME NEW u \in Uploads, OnUploadFileSelected(u) \/ Uploaded(u) \/ NotUploaded(u)
        PROVE  OcrTypeOK' /\ PlaceInv'
    BY <2>6, UploadStep
  <2>7. CASE UNCHANGED ocrVars
    BY <2>7 DEF ocrVars, pageVars, listVars, creationVars, folderVars, deleteVars, uploadingVars,
                OcrTypeOK, PageTypeOK, PlaceInv, LandsWhereLast, InContainer, Here
  <2>8. QED
    BY <2>1, <2>2, <2>3, <2>4, <2>5, <2>6, <2>7 DEF OcrNext
<1>3. QED
  BY <1>1, <1>2, PTL DEF OcrSpec

(* All variables of OcrPage keep their types. *)
THEOREM OcrTypes == OcrSpec => []OcrTypeOK
BY OcrInvariant, PTL

(* An upload or a new folder goes where the user went last, or is refused, *)
(* unless the user came back to the container of folderId, or a container  *)
(* came up under the dialog (files.tsx:110-127, 147-165, 200-203).         *)
THEOREM MadeWhereLast == OcrSpec => []LandsWhereLast
<1>1. PlaceInv => LandsWhereLast
  BY DEF PlaceInv
<1>2. QED
  BY <1>1, OcrInvariant, PTL

(* What the screen shows is where the user went last, or that is coming,   *)
(* unless something broke it.                                              *)
OcrSettled == causes = {} => PlaceComing \/ (Overtaken /\ shown = Here)

LEMMA OcrSettledStep ==
    ASSUME OcrTypeOK, OcrSettled, [OcrNext]_ocrVars
    PROVE  OcrSettled'
<1> USE DEF listVars, pageVars
<1>1. PageTypeOK
  BY DEF OcrTypeOK
<1>2. ASSUME UNCHANGED <<container, crumbs, shown, loads, causes>>
      PROVE  OcrSettled'
  BY <1>2 DEF OcrSettled, PlaceComing, Overtaken, Here
<1>3. ASSUME NEW p, NEW cause, NEW closing, LoadItems(p, Here', cause, closing)
      PROVE  OcrSettled'
  BY <1>1, <1>3, AskedPlace DEF OcrSettled
<1>4. ASSUME NEW p, NEW cause, NEW closing, LoadItems(p, Here, cause, closing),
             UNCHANGED <<container, crumbs>>
      PROVE  OcrSettled'
  BY <1>3, <1>4 DEF Here
<1>5. ASSUME NEW c, ShowContainer(c)
      PROVE  OcrSettled'
  <2>1. Here' = <<c, Root>>
    BY <1>5 DEF ShowContainer, Here, Last
  <2>2. QED
    BY <1>3, <1>5, <2>1 DEF ShowContainer
<1>6. CASE ContainersStep
  <2>1. CASE \E c \in Containers : OnContainerDropdownChange(c) \/ ContainerCreated(c)
    BY <1>5, <2>1 DEF OnContainerDropdownChange, ContainerCreated
  <2>2. CASE OpenCreateDialog \/ TypeContainerName \/ DismissCreateDialog
    BY <1>4, <2>2 DEF OpenCreateDialog, TypeContainerName, DismissCreateDialog, Rerender
  <2>3. CASE CreateContainerClick \/ ContainerRefused
    BY <1>4, <2>3 DEF CreateContainerClick, ContainerRefused
  <2>4. CASE ContainerThrows
    BY <1>2, <2>4 DEF ContainerThrows
  <2>5. QED
    BY <1>6, <2>1, <2>2, <2>3, <2>4 DEF ContainersStep
<1>7. ASSUME NEW f \in Folders, FolderLink(f)
      PROVE  OcrSettled'
  <2>1. Here' = <<container, f>>
    BY <1>7 DEF FolderLink, Here, Last
  <2>2. QED
    BY <1>3, <1>7, <2>1 DEF FolderLink
<1>8. ASSUME NEW k \in DOMAIN loads, ItemsAnswered(k) \/ ItemsFail(k)
      PROVE  OcrSettled'
  <2>1. PICK s, cause :
            /\ ItemsLoaded(k, s, cause)
            /\ cause = {"loadFailed"} \/ s = loads[k].place
    BY <1>8 DEF ItemsAnswered, ItemsFail
  <2>2. /\ shown' = s /\ loads' = Answered(k) /\ UNCHANGED <<container, crumbs>>
        /\ causes' = causes \cup cause \cup (IF loads[k].late THEN {"overtaken"} ELSE {})
    BY <2>1 DEF ItemsLoaded
  <2>3. SUFFICES ASSUME causes' = {}
                 PROVE  PlaceComing' \/ (Overtaken' /\ shown' = Here')
    BY DEF OcrSettled
  <2>4. ~loads[k].late /\ s = loads[k].place
    BY <2>1, <2>2, <2>3
  <2>5. PlaceComing \/ Overtaken
    BY <2>2, <2>3 DEF OcrSettled
  <2>6. Here' = Here
    BY <2>2 DEF Here
  <2>7. QED
    BY <1>1, <2>2, <2>4, <2>5, <2>6, AnsweredPlace
<1>9. CASE OpenFolderDialog \/ CancelFolderDialog \/ OnFolderCreateClick \/ FolderThrows
  BY <1>2, <1>9 DEF OpenFolderDialog, CancelFolderDialog, OnFolderCreateClick, FolderThrows
<1>10. CASE \/ FolderMade \/ \E k \in DOMAIN deletes : ItemRemoved(k)
            \/ \E u \in Uploads : Uploaded(u)
  BY <1>4, <1>10 DEF FolderMade, ItemRemoved, Uploaded
<1>11. CASE \/ \E f \in Folders : OpenDeleteDialog(f)
            \/ \E isOpen \in BOOLEAN : DismissDeleteDialog(isOpen)
            \/ OnDeleteItemClick
            \/ \E k \in DOMAIN deletes : DeleteThrows(k)
  BY <1>2, <1>11 DEF OpenDeleteDialog, DismissDeleteDialog, OnDeleteItemClick, DeleteThrows
<1>12. CASE \E u \in Uploads : OnUploadFileSelected(u) \/ NotUploaded(u)
  BY <1>2, <1>12 DEF OnUploadFileSelected, NotUploaded
<1>13. CASE UNCHANGED ocrVars
  BY <1>2, <1>13 DEF ocrVars
<1>14. QED
  BY <1>6, <1>7, <1>8, <1>9, <1>10, <1>11, <1>12, <1>13 DEF OcrNext

(* With no listing under way Files shows where the user went last,         *)
(* whatever the order of the answers was, unless Containers rendered, an   *)
(* answer was overtaken or failed, or something was made or deleted        *)
(* elsewhere (files.tsx:70-99, 123, 137, 156).                             *)
THEOREM FilesShowWhereLast == OcrSpec => []OcrShown
<1>1. OcrInit => OcrSettled
  BY DEF OcrInit, PageInit, OcrSettled, PlaceComing, Here, Last
<1>2. OcrTypeOK /\ OcrSettled /\ [OcrNext]_ocrVars => OcrSettled'
  BY OcrSettledStep
<1>3. OcrTypeOK /\ OcrSettled => OcrShown
  BY DEF OcrSettled, OcrShown, PlaceComing
<1>4. QED
  BY <1>1, <1>2, <1>3, OcrInvariant, PTL DEF OcrSpec
=============================================================================
