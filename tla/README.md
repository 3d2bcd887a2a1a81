# SharePoint Embedded samples: a TLA+ verification project

The repository is a collection of sample applications for SharePoint Embedded:
console programs, web services and single-page applications that keep files in
*containers*, drives that Microsoft Graph serves. Much of it forwards one request
per click. What can go wrong is in the parts that carry state of their own, run
concurrently or have to survive failures: the blob migrator, two servers that
process documents on notifications, the onboarding and the session of the
ASP.NET service, a key cache, and the pages whose handlers await Graph while the
user goes on clicking. This project models these, checks them with TLC and
proves what matters most with TLAPS.

Paths are relative to `src/Samples/` unless they begin with `src/`.

## 1. Inventory

| Application | Part | State it keeps | Modules | Section |
|---|---|---|---|---|
| `migrate-abs-to-spe` (C#) | `FileMigrator`, `GraphClientManager`, `AzureBlobManager` | directory cache, three lists, countdown; the drive | `FileMigrator`, `GraphClientManager`, `MigrationLedger` | 3 |
| | `Program` | command line, files between runs | `MigrationProgram` | 3 |
| `spe-ocr-sample` (TypeScript) | server: `onReceiptAdded`, `GraphProvider`, `ReceiptProcessor` | delta tokens, Graph client | `ReceiptProcessor` | 4 |
| | web client: `containers.tsx`, `files.tsx` | container, folder, listing, dialogs | `DrivePage`, `OcrPage` | 4, 7 |
| `spe-typescript-react-azurefunction` (TypeScript) | function API: `changeNotifications.ts` | the switch and its subscriptions, in Graph | `ContainerProcessing`, `ProcessingSwitch` | 5 |
| | function API: `JwtProvider` | signing keys | `TokenGate` | 8 |
| | function API: `containers.ts` | none | `SpeApi` | 7 |
| | client: `ContainerBrowser`, `ContainerActionBar` | folder, listing, sockets, preview, uploads, switch | `ContainerBrowser`, `ContainerActionBar` | 6 |
| | client: `routes/Containers.tsx` | containers, navigation, selection | `ContainersRoute` | 7 |
| | client: `ChatController`, `sdk/` | settings, port, heartbeats, the page in the frame | `ChatFrame` | 7 |
| `asp.net-webservice` (C#) | `OnboardingController` | tenant records | `Onboarding` | 8 |
| | `ContainerController` | drive and path in the session | `DriveTree`, `FolderSession` | 8 |
| `spa-azurefunction` (JavaScript) | client: `files.js` | folder, listing, search, uploads | `DrivePage`, `FilesPage` | 7 |
| | the same: links, permissions and previews of a file | dialogs | `FileSharing` | 7 |
| | client: `containers.js`, `permissions.js` | containers, permissions | `SpaPermissions` | 7 |
| | Azure functions | none | `SpaApi` | 7 |
| `src/DevSummit` (TypeScript) | client: `Container.tsx` | folder, listing, dialogs | `DrivePage`, `SummitContainer` | 7 |
| | client: `Containers.tsx`, `dialogs/Search.tsx`, `NewContainer.tsx` | containers | `SummitContainers` | 7 |
| | client: dialogs for permissions, properties, columns, column values | the list of each | `SummitDialogs` | 7 |
| | server | none | `SummitApi` | 7 |

How they interact: each application talks to Graph, and no application to
another. The migrator's program calls the migrator, whose work items share lists
and cache with the main flow; the OCR server and the document processing are
called by Graph's notifications, which their own writes cause; the React client's
switch calls the function API's `enable` and `disable`; pages of one application
share the component above them, and tabs of the ASP.NET service share a session.

What makes each part hard, and what makes it correct:

* **Blob migrator.** The main flow makes folders and queues one work item per blob;
  the work items run on the thread pool at the same time, share the lists without
  a lock, and release the main flow through a countdown; any Graph call may fail
  before or after its effect; folders are cached by path and found by case-folded
  name; the process may be killed and is run again on what failed. Correct if every
  name is settled once and reported once, nothing in the drive is overwritten, each
  file is in its own folder, the run ends, and a failed blob is in the file for
  the re-run.
* **OCR server.** Runs overlap; the token is read before an await and written after
  it; the server notifies itself; notifications get lost or doubled; tokens expire;
  the process restarts. Correct if the token never passes over a change that nobody
  collected, the feedback dies out, and the JSON file has the fields of the file's
  last version.
* **Document processing.** Enable against disable, enable twice, a failure between
  subscription and property, an item that always fails, the write of a field as the
  next notification. Correct if a container that shows as enabled has one live
  subscription and one that shows as disabled has none, and a file that can be
  processed is in the end.
* **Key cache.** Keys are fetched once, by requests that wait for them together.
  Correct if nothing is refused but tokens of keys that came or went since.
* **Onboarding.** A provisional record per visit, found and saved by separate
  queries; two consents at once, one that is answered twice. Correct if a tenant has
  one record and keeps it.
* **Session.** Requests of several tabs move in one path. Correct if a request acts
  where its page is.
* **Pages.** Handlers hold the container and the folder of the render that they were
  made in, or read the page's state when an answer arrives; listings overtake each
  other; dialogs wait for requests that throw. Correct if what the user makes lands
  where the user saw it going, and the page shows its folder once all is quiet.
* **Dialogs about one file.** They open with an answer, and ask for the file whose row
  is selected by then. Correct if a link is revoked of the file it leads to and the
  link that is copied is the one shown.
* **Page of the containers.** A navigation interrupts the one before it. Correct if
  what was created is listed.
* **Chat.** What the host sets comes before or after the page in the frame has been
  connected; a heartbeat runs until then; openings overtake each other. Correct if the
  page has the settings of the API and is reached, however often it is opened.

### Not modelled

* **`ChatSidebar`**, which would start the chat: it renders an empty fragment, and its
  use of the chat is commented out. `ChatFrame` has the host as any caller of the
  public functions.
* **What nothing reaches**: `CreateContainerButton` and `ContainerSelector` (rendered if
  `isSignedIn && false`), `update` of `ContainersApiProvider` and `updateContainer`
  of `containers.ts` (one sends PUT, the other serves PATCH).
* **Handlers that only forward** (`containerTypes.ts`, the other controllers of the ASP.NET service, the OCR server's routes but for their one
  effect on `graphClient`): they check a token, send one request and render or
  return its answer. There is no state that two of them could disagree about. Where
  the outcome of such a handler decides what a page does next, it is an operator:
  `SpaApi`, `SpeApi`, `SummitApi`.
* **Views that show their last answer** (the settings dialog, the pages of the ASP.NET
  service outside the session).
* **Checkpoints 01 to 03 of the DevSummit sample** are the same application with
  fewer parts (about 5000 lines). What differs in 03's file page is the constant
  `RowPrefix`.
* **API collections, labs, the starter kit**: request collections, slides and a
  packaged Power Platform solution hold no program.

## 2. Plan

Each module comes with an instance for TLC, properties aimed at the hazards in
`PROJECT.json`, and a mutant of the code for each property. Abstract state that
several components share is a module of its own, which they extend: `DriveTree`
(containers with a tree of folders) and `DrivePage` (a page that lists its folder
by requests which answer late).

| Order | Modules | Checked in | Proved in |
|---|---|---|---|
| 1 | `GraphClientManager`, `FileMigrator`, `MigrationLedger` | `migration`, `fault_free`, `failed_claim` | `FileMigratorInv`, `FileMigratorProofs` |
| 2 | `MigrationProgram` (composes the migrator with kills and re-runs) | `program` | `MigrationProgramProofs` |
| 3 | `ReceiptProcessor` | `ocr_sample`, `receipts_overlap` | `OcrProofs` |
| 4 | `ContainerProcessing`, `ProcessingSwitch` | `switch`, `processing` | `ContainerProcessingProofs` |
| 5 | `ContainerBrowser`, `ContainerActionBar` (on top of it) | `browser` | `BrowserProofs` |
| 6 | `DriveTree`, `DrivePage`, `FilesPage`, `SummitContainer`, `OcrPage` | `parts`, `summit`, `delete_claim`, `ocr_sample` | `PathLemmas`, `PagesProofs`, `OcrProofs` |
| 7 | `SpaApi`, `SpaPermissions`, `SummitApi`, `SummitContainers`, `SummitDialogs` | `parts` | `PagesProofs` |
| 8 | `FolderSession`, `Onboarding`, `TokenGate` | `parts` | `ServicesProofs` |
| 9 | `ChatFrame`, `SpeApi`, `ContainersRoute`, `FileSharing` | `parts` | `ServicesProofs` |

Every safety property of the runs is proved, and so are the two refinements: the
migrator implements `MigrationLedger`, the calls of enable and disable implement
`ProcessingSwitch`.

Type invariants are not properties of the runs. Each is part of a proved
invariant. Neither are four safety properties that follow from few steps of the
code and that TLC agreed to before they were proved: `ReturnsLast`,
`PathEndsAtFolder`, `CrumbMatchesFolder` and `PathLeadsDown`. Their theorems
(`ReturnsLastHolds`, `PathMatchesFolder`, `CrumbsMatchFolder`,
`SessionPathLeadsDown`) stay. Nor is `SwitchHonest`, which follows from
`SwitchImplemented` and is proved to.

## 3. The blob migrator

### Correspondence

`GraphClientManager` gives each Graph call as an operator from the drive to the
set of its possible outcomes. The drive is a function from item ids to contents
(a folder, a blob's content, or a foreign file). An id is the case-folded path of
the item: SharePoint compares names without case, and nothing in the program
renames or deletes. `NullItem` is the null that every error becomes. When
`Faulty`, a lookup may miss what exists, an addition may fail without effect or
with a lost reply, and an upload may answer `false` (line 164).

`FileMigrator` is one call of `MigrateFiles`. `mpc` is the main flow: the top
folder (`CheckContainer`, `CreateContainer`), the loop (`SkipEmptyLine`,
`QueueRootBlob`, `QueueFromFullPath`, `StartWalk`), the walk down one path
(`WalkCached`, `WalkLookup`, `WalkCreate`, `WalkEnds`), the end (`ListExhausted`,
`WaitReturns`). `jpc[i]` is entry `i`: a work item (`CheckFile`, `DownloadBlob`,
`UploadBlob`) and then, on whatever path it failed or succeeded, its `Add` and
`Signal`. Where the main flow itself reports a failed walk it does so through
the same `BeginAdd`, `EndAdd`, `Signal` and stands at `failing` meanwhile.

Each action is one stretch between two points at which another thread can be
seen: an awaited call, an `Add`, a `Signal`. `List<string>.Add` is two steps,
because it reads the size and writes it back without a lock: if two Adds to one
list overlap, one of them at least survives, and another one may be lost or
leave a blank slot (the size moved twice, one cell written).

`MigrationProgram` adds `Main`: `ParseArguments` and `Validate`, `Authenticate`,
`ListBlobs`, the steps of `FileMigrator`, `MigrateEnds` and `SaveFailed`; `Kill`
ends the process at any point, and while it saves leaves a prefix of the file;
`Start` is the user who runs it again with a command of his own or the suggested
one. File names are numbers, because all that matters of the derivation is that
"1" is appended.

`MigrationLedger` is what a migration promises: each name goes from open to one
outcome, once; the result is read when none is open; it can be given up only
before any was touched. `SettlesEachOnce` is the refinement, with `entry` read
off `jpc` and `outcome`, and `phase` off `mpc`.

### Assumptions

* Blob names have no `\` and no trailing `/`; the URL and the client id that the
  user passes are well formed.
* `conflictBehavior: fail` is honoured, and Graph's name lookup ignores case.
* Nobody renames or deletes in the drive during a run. Others may have put
  files there before.
* Every blob that is named exists in the storage account unless `Faulty`.
* Every awaited call completes: HTTP calls time out and the SDK's retries are
  bounded; the interactive login ends. This is what weak fairness of the main
  flow and of each work item says, with a thread pool that runs what is ready.
* The upload that ends without success and without an exception is taken from
  the `else` branch of the code; when the SDK does so is not in the repository.

### Runs

| Run | Question | Instance |
|---|---|---|
| `migration` | Do countdown, cache, lists and drive agree at every step under faults; is nothing overwritten; is the ledger implemented? | 5 lists of up to 3 names, 3 drives, faults |
| `fault_free` | Without faults, does a blob fail only for what is in its way in the drive, also where `GetDirectoryName` changes the separator, and does the call always end? | the same, `SlashIsNative = FALSE`, fairness |
| `program` | Killed and re-run, is a blob ever forgotten by a run that ends, is anything overwritten by another run, and does a run that is not killed end? | 2 runs, lists of 2 names, an empty drive and one with a foreign file in the way, faults, kills, fairness of the process |

The lists contain a path in two spellings, a blob below another, a blob with the
name of a folder, an empty line, the same name twice and no name at all; the
drives are empty, left by an earlier run with a file of somebody else, and with
a file where a folder should be. Two names per folder and three in all are
enough for every pair of work items to meet at every pair of steps, for a cache
entry of one depth to be used at another, and for an entry to be lost while a
third thread goes on. `MaxFiles` bounds the lists, `MaxRuns` the runs; two runs are a first one and
one that finds what it left. `EveryBlobReported` and `NothingForgotten` except
entries whose `Add` raced, and the run `failed_claim` shows why they have to.
`failed_claim` has the instance of `migration` without faults.

### Where the code does not do what it says

`failed_claim` ends in a counterexample to a comment of the code
(`FileMigrator.cs:131`): two Adds race and a failed blob is in no list. The
quotation is in the findings of `PROJECT.json`.

The models have more steps that a reader of the code may not expect, and that
have no run of their own:

* the `bool` of the upload is dropped (`FileMigrator.cs:118`), so that a blob which
  was not uploaded is listed as uploaded (`SucceededInDrive` is about uploads that
  Graph confirmed);
* the command that is printed for the re-run (`Program.cs:121`) leaves out a
  required option (`Program.cs:10`): typed as printed, it is refused;
* an item that is a folder passes for the migrated file of the same name
  (`CheckFile`, hence the wording of `ExistTaken`);
* `MigrateFiles` throws when the top folder can be neither found nor made
  (`CreateContainer`);
* with neither `--blobfile` nor `--outputfile` the saving of the failed names ends
  in an unhandled exception (`SaveFailed`).

### Proofs

`FileMigratorProofs` proves `IInv` of `FileMigratorInv` inductive, for every set
of names, every fold, all lists and drives, with or without faults. None of the
properties is inductive alone. `CacheFaithful` needs to know where the walk
stands (`WalkInv`), because what is cached is `folderId`; `FilesAtHome` needs the
parent of each work item (`ParentInv`), which comes from the cache;
`SucceededInDrive` and `ExistTaken` need the evidence kept from the decision to
the `Add` (`EvidenceInv`), stable because no step removes from the drive;
`CountdownExact` needs that each entry is at one place of the main flow's order
(`CursorInv`); `EveryBlobReported` follows from `OutcomeInv`, `ListInv` and
`CountdownExact` at the end. The proof has one step per action of `Main` and
`Work`, grouped by the part of the state that the action moves, over lemmas on
`Bind`, `Child`, `FoldPath` and on the results of each Graph call. Assumed are
`NamesAssumption`, `ListsAssumption` and `DrivesAssumption` (an earlier run left
its files where they belong); TLC evaluates all three.

`NeverOverwrites` follows from the results of the calls alone.
`FailuresExplained` has an invariant of its own on top of `IInv` (`WhyInv`): the
folders that the main flow and the work items hold are in the drive
(`FolderInv`), and without faults a folder is created only where the lookup found
none, which other threads can spoil only by a file (`MissingInv`); so a call that
is refused was refused for what is there, and what is there stays.
`LedgerImplemented` is the refinement, `Spec => SettlesEachOnce`: initial states map to initial states, and under `IInv` each step is a `Settle`, a
`Close`, a `GiveUp` or a stutter.

`MigrationProgramProofs` proves `NothingForgotten` for any number of runs and
kills. Each run's migrator starts fresh (`Fresh`) over a drive that an earlier one
left well formed, so that `IInv` holds again (`FreshInv`) and its steps keep it
(`NextInv`); `ProgramInv` adds the types, that nothing has returned before
`Migrate`, and that after a normal end the file for the re-run covers the failed
list, in whatever order its entries stand (`SeqsCover`). Assumed is
`ProgramAssumption` as well.

Model-checked only are `Termination` and `RunsEnd`, which are liveness. `RunsEnd`
assumes less than `Termination`: a process that is not killed takes *some* next
step, whichever thread it belongs to, and that is enough since each step makes
progress.

## 4. The OCR sample

### The server: correspondence

A delta token is opaque, and what matters of it is what it still delivers: it is
the set of items whose last change it has not delivered yet. A change adds its
item to every token in existence, in the store and in the requests under way; a
page is a subset of the request's token, in the order of the changes (`before`),
and the link of its response is the token without the page. No token at all
delivers every item of the drive. `token` is `changeTokens.get(driveId)`.

Each run `r` is one `processDrive`: `Fetch` reads the token and sends, `Serve` is
Graph's answer, `Receive` collects the page and stores the token, `FetchFails`
the logged exception after which what was collected is processed. Then the loop:
`GetDriveItem`, `PassOver`, `Analyze`, `AddDriveItem`, with `Abandon` for an
exception at any of its awaits, and `EndRun`. `Notify` is `onReceiptAdded`,
`SetGraphClient` what the container routes do. `Upload` and `Delete` are the
users, `Expire`, `Restart` and `LoseNotification` what goes wrong. `settled` is a
history variable, files whose last version was extracted or given up, which the
code does not have and no guard reads.

Not distinguished: an item that two pages of one run repeat is in `changed` once
(the code does it twice in a row); the recogniser is a function of the content,
which its version stands for; download and analysis are one step, because no
state is read between them. One drive with one folder; several differ in keys
only. Users do not touch the JSON files. The client is signed in at first, as
the sample's README subscribes when the application runs; after a restart it
is not.

### The web client: correspondence

`OcrPage` is `Containers` with the `Files` of the container that is chosen, on top
of `DriveTree` and `DrivePage` (see section 7). It has no breadcrumb; `crumbs` is
history there, where the user went last. Its peculiarity is an effect that
depends on `props` as a whole: each render of `Containers` (`Rerender`) lists the
root again while `folderId` stays. Handlers go on, to their last await, with the
container and the folder of the render that they were made in: an upload, a new
folder and a delete carry both in `put`, `target`, `deletes`. A request that fails
where no `catch` is leaves a dialog with its spinner (`"hung"`).

### Runs

The server and the page share no state, only Graph. `MCOcrSample` puts them side
by side: a behaviour is one of one of them, as the variable `part` says, and a
configuration chooses with `Parts` which of them to check.

| Run | Question | Instance |
|---|---|---|
| `ocr_sample` | With overlapping runs, failing calls, expiry and restarts, does the stored token ever pass over a change nobody collected? Does what the user of the page makes land where the user is, and does the list show it? | 2 files of one stem, 2 runs, faults, symmetric runs; 2 containers with a folder in a folder, 2 uploads, 5 events, 2 listings at once, 1 failure |
| `receipts_overlap` | Does the feedback die out, does a file that stays get a JSON file, and does that have the last version's fields if runs do not overlap? | the server; 1 file uploaded twice, 2 runs, no faults, fairness |

That results of runs which do overlap may come in the other order is in the
model, and contradicts what the sample's README promises (line 234); only files
that no overlapping run touched are covered by `LastVersionUnlessOverlap`, and of
those not `a.pdf` and `a.png`, which share `a.json` whatever the order of the runs.

`Runs` bounds the overlap and `MaxUploads` the uploads of one file. Two runs show
every race on the token and on the JSON file, which are between a read of one and
a write of another; the theorem `TokenNeverPasses` holds for any number of runs
and uploads. The runs are interchangeable, and the symmetry is used for
invariants only. The server waits for notifications for ever, so these
configurations do not check for deadlock. Fairness: Graph notifies in the end of
a change that is due, and each run takes its next step, as every await completes;
the users, expiry and restarts are not fair, and sign-in is not needed since in
the fair runs the client does not expire.

`TokenCovers` is the property that one would doubt: the token is written by each
run over whatever a later run stored. It holds since a token that goes back only
delivers more, and one that goes forward was returned with the page that the run
holds.

`LandsWhereLast` and `OcrShown` name what they except: a container that is chosen
again while `folderId` is still a folder in it, a render of `Containers`, an answer
that was overtaken or failed, the listing after something made elsewhere. Each
exception does happen in the instance.

### Proofs

`OcrProofs` proves, for the server, `TypeOK` and `TokenCovers`. The invariant adds
to `TokenCovers` that the token *in a request or response under way* covers as well
(`RequestCovers`), for that is what will be stored, and that a run has a page or
an item only where its code has one (`RunInv`). For the page it proves
`OcrTypeOK`; `LandsWhereLast`, from an invariant (`PlaceInv`) that says of which
container `folderId` can be a folder when the user did not come back to it; and
`OcrShown`, from one that says what will be shown as long as no exception happened
(`OcrSettled`: the last listing under way is of the user's place, or that place is
shown and every listing under way has been overtaken).
Assumed are `ReceiptAssumption`, `TreeAssumption` and `PageAssumption`.
`FeedbackEnds`, `SomeJson` and `LastVersionUnlessOverlap` are liveness and stay
with TLC.

## 5. Document processing of the Azure Functions sample

### Correspondence

`ContainerProcessing` has one container. Its switch is `prop`, the custom
property with a subscription's id, and `live`, the subscriptions that Graph
holds. Each call `h` of the two handlers goes from request to request: `Enable`,
`ReadColumns`, `AddColumn`, `ValidateUrl`, `Subscribe`, `StoreId`; `Disable`,
`ListSubscriptions`, `RemoveSubscription`, `ClearId`. Any request may fail
(`CallFails`), take effect and lose its reply (`Answer`), or be refused for what
another call did meanwhile: a column that exists, a subscription that is gone.
`Expire` ends a subscription. When Graph validates the notification url,
`onDriveChanged` starts a run as it does for any request (`ValidateUrl`), which is
how items from before the subscription get processed.

A run `r` is `processDrive`: `GetUnprocessedItems`, then `SkipItem` or `TakeItem`,
`ExtractFields`, `NoFields`, `SetDriveItemFields`, until `AllProcessed`, or until an
exception ends it (`ItemGone`, `RunFails`). Every change of the drive, the written
fields among them, is due for every living subscription. `alone` and `trouble` are
history: whether another call was under way, and what has gone wrong; no guard
reads them.

`ProcessingSwitch` is what the two calls promise together, without columns, lists
and runs: one call at a time, the switch shows a subscription that Graph has, and
is off when Graph has none left. Overlap, failure and expiry take the promise back
(`GoWrong`, after which anything may happen), and only a disable that removes all
there is gives it again (`Recover`). In `Switch`, `shown` is `prop`, `serving` is
`live`, `reliable` says that `trouble` has none of the three, and `Doing` is the
kind of the only call. `Subscribe` implements `Serve`, `StoreId` `Show`,
`RemoveSubscription` `Remove`, `ClearId` `Hide` or `Recover`; the other requests
and all of the runs stutter.

Assumed: Graph refuses a column name that is taken, delivers a notification that
is due even if its subscription ends meanwhile, and the list of subscriptions and
of unprocessed items each fit one response (the code reads one page). The caller's
token is checked before any effect and is left out. An item's id is never used
again; a replacement of its content leaves its columns as they are, so a replaced
item is not processed again.

### Runs

| Run | Question | Instance |
|---|---|---|
| `switch` | Does the switch show what there is, request by request? | 2 calls, 2 subscription ids, 1 run, 2 items, faults, symmetric calls |
| `processing` | Is an item that is there when a notification is due processed; do the runs end? | 1 call, 1 subscription, 2 runs, 2 supported items and another one, no faults, fairness |

`SwitchImplemented` does not say that the switch is always right, for it is not: calls
that overlap, which the user interface permits, requests that fail and
subscriptions that expire can leave it on without a subscription or off with one.
It says that nothing *else* does, enable called twice for one, and that a disable
that ran alone and came to its end repairs all of it, because it removes what it
finds and not what the property names. Two calls show every overlap, two ids a
second enable before or after a disable; the theorem is for any number. Notifications
are delivered in the end and every await of a run ends; users and calls are not
fair. `Subs` bounds the calls of enable, `MaxUploads` the uploads of an item.

### Proofs

`ContainerProcessingProofs` proves `TypeOK` and `SwitchImplemented` from
`ProcessingAssumption`. `SwitchInv` is the invariant that the refinement needs: a
call that is alone is the only one, and without an overlap each call is
(`AloneInv`), so that `Doing` changes only when the call does; a disable that is
alone has every living subscription in its list, and none is left when it clears
the property (`RemoveInv`), which is the guard of `Hide` and `Recover`; without
trouble the switch is honest before any call has changed it, and the id to be
stored is living (`HonestInv`), which is the guard of `Show`. What the abstract
switch keeps of its own accord (`Kept`) carries over (`SwitchIsKept`), and
between calls it is `SwitchHonest`: set to a living subscription, or not set and
no subscription at all (`SwitchIsHonest`).
`NotifiedIsProcessed` and `ProcessingEnds` are liveness and stay with TLC.

## 6. The React client's page of a container

### Correspondence

`ContainerBrowser` is the page: `folderPath` and `parentId`, the listing in
`driveItems`, the requests for listings under way (`loads`), the sockets, the
selection and the preview. Items of the drive are created at most once and move
from `Unborn` through a folder to `Gone`; other users change the drive at any
time. A click on a crumb (`OnBreadcrumbClick`) cuts the path in place,
and `SetLocation` may then return early. Each listing is answered by what the folder has when Graph
reads it, and arrives in any order; the sockets of folders shown earlier are never
closed and list those folders again.

`ContainerActionBar` extends it with the toolbar. `uploads` is the Map of the last
render; a selection keeps the Map of the render that it was made in (`captured`),
and its callbacks delete from that one and render it. An upload that failed is
deleted by nobody: it stays in the Map, later selections carry it on, and it can be
tried again in its folder (`Again`; a file of which only the reply was lost is in the
drive, and is not uploaded again here). The dialogs for folders,
documents, renaming and deleting send one request each, and then the page lists
again. The switch (`processingEnabled`) is set at the click, sends its call, asks
for the container again, and its `catch` puts it back to a guess. A call that was
rejected before the function did anything may still be served, or never is
(`rejected`, `ServeRejected`). The property that the bar's effect depends on is an
object, a new one with each answer, so the effect runs whenever there is or was one,
and not while there is none (`Revalidated`).

Its `mixed`, `crossed`, `behind`, `left` and `causes` are history, which no guard
reads: selections that overlapped, clicks that crossed, a rejected call that was
served since the container was loaded, a preview closed while urls were awaited, and
why the screen may show something old. `UploadsTold` claims after any number of
failures and retries that the badge has the uploads under way and those that failed,
and excepts only `mixed`. `ShownIsCurrent` waits for the badge to go, and needs no
exception for selections: as long as a failed upload, or what selections that
overlapped left, is in the badge, no listing follows the other uploads, and the
property claims nothing.

### Run

`browser`: one folder with a file in it, another folder and two files still to
come, 2 listings at once, 4 events of users or failures, 2 selections of files. The
preview, the uploads, the dialogs and the switch meet only in the listings they ask
for, so that a behaviour of `MCContainerBrowser` uses the folders and one of them
(`part`). New files are alike (`NewFileSymmetry`). Four events are enough to
open a folder, go back and be overtaken by the first listing, and for a second
selection to overlap the first while one of its files is under way. A page waits
for its user for ever, hence no check for deadlock.

### Proofs

`BrowserProofs` proves all four properties of the run and `PathEndsAtFolder`, for every
drive and any number of requests, files and selections, and the type invariant. The invariant
has a part for each of them: `PreviewInv` (of which file a url is that is still
awaited), `SwitchInv` (what the switch will say when the call or the
revalidation under way is over: one of the two at most, and where the effect is not
going to run the switch is off), `UploadInv` (without overlapping selections the
rendered Map has what is under way or failed, the uploads under way are of one
selection, and it is that selection's Map), `ListInv` (without
one of the causes the latest listing under way, or else the screen, has what is
in the folder). Assumed are `BrowserAssumption` and `BarAssumption`.

## 7. The file pages and dialogs

### Correspondence

`DriveTree` has containers with a fixed tree of folders; `DrivePage` is what the file
pages of three samples share: the container chosen above the page, the
breadcrumb, the place whose listing is shown (`shown`), the listings under way
(`loads`), and the folders that were deleted (`gone`). Of a listing it matters whose
it is, not what is in it. No page of the samples reads more than the first page of
an answer of Graph's, and neither do the models: where the content of a list matters
(`ContainerBrowser`, `ContainersRoute`, `SummitContainers`, `SpaPermissions`) that
page has all of it.

| Module | Code | What is particular |
|---|---|---|
| `FilesPage` | `spa-azurefunction`, `files.js` | A class: an answer reads the page's state when it arrives. Search, dialogs to create, delete and rename, uploads whose callbacks count pending files from what they captured. |
| `SpaPermissions` | the same, `containers.js`, `permissions.js` | The view lists the permissions of its container at each render of the page above; what it asks for goes on with the container of its render. |
| `SummitContainer` | `src/DevSummit`, `Container.tsx` | A function component: handlers keep the container and the folder of their render. A new container resets the breadcrumb and not `folderId`. |
| `SummitContainers` | the same, `Containers.tsx` and two dialogs | Containers are listed once; created ones are added, found ones are only shown. |
| `SummitDialogs` | the same, four dialogs | They stay mounted with their last list; a row can be chosen from the old one. |
| `OcrPage` | `spe-ocr-sample`, `containers.tsx`, `files.tsx` | Section 4. |
| `FileSharing` | `spa-azurefunction`, `files.js` | Of the list it has the selected row only: a listing deselects it, a dialog covers it, an answer may come after another row was selected. |
| `ContainersRoute` | `spe-typescript-react-azurefunction`, `routes/Containers.tsx` | The router's loader and action. A navigation ends what the one before it was loading; a creation goes on, but nobody waits for it. |
| `ChatFrame` | the same, `sdk/`, `ChatController.ts` | The API object and the page in its frame, with messages between them in order; the host calls what it likes. The frame is blank until the last form that was submitted is answered (`PageLoads`). Then its document is of another origin: an opening still under way, or made later, throws with its settings set (`OpeningFails`). |
| `SpaApi`, `SpeApi`, `SummitApi` | the stateless handlers and the client functions that call them | What comes back for which failure, as operators. |

### Runs

| Run | Question | Instance |
|---|---|---|
| `summit` | Do uploads land where the breadcrumb said; does the page show its place once it is quiet; does each dialog close or stand refused? | 2 containers, a folder in a folder, 2 uploads, 5 events, 1 failure, fairness |
| `delete_claim` | Does the Delete dialog close, as the lab's text says? Refuted | 1 upload, 3 events, no failures, `RowPrefix` |
| `parts` | The properties of the SPA sample, the dialogs and the list of the DevSummit sample, the chat and the page of the containers of the React client, and those of section 8 | for each part two or three of everything; see the cfg |

`MCParts` holds ten components that do not interact: a behaviour is one of one of
them (`part`), and the variables of the others stand still in an initial state. So
the state space is the sum of ten, not their product, and none is restricted.

Two containers, one of them with a folder below a folder, are what it takes to be
in the wrong one, to come back and to have a folder of another container; two
listings at once overtake each other; `SummitDialogs` has three, for two chains of
choices and fields with the listing after a save between them. Three forms and four
calls are enough for openings that overtake each other in the blank frame, for one
that comes too late, and to set something before and after the page is connected
(`MaxForms`, `MaxChatCalls`); three containers and
four clicks for a creation that interrupts another one and a third that stands in the
list (`MaxRouteClicks`); two files and five clicks to ask for the permissions of one,
select the other and revoke a link (`MaxSharingClicks`). `MaxEvents`, `MaxRequests`,
`MaxClicks`, `MaxOpens`, `MaxCalls` and `MaxCreations` bound what users do, `MaxFailures` the
requests that fail. Fairness (`SummitFairness`): every request is answered; users are
not fair. None of the pages has an end, hence no check for deadlock.

Each property names its exceptions, as an operator over history variables, and each
exception was met by TLC before it was written: `cameBack` (a container chosen
again while `folderId` is a folder in it), `causes` (an answer that was overtaken or
failed, the listing after something made elsewhere, a search that was over),
`overlapped` (selections), `early` and `hasty` (rows chosen before the list had
settled), `forgot` (a container created before the listing answered), `crossed` (a
dialog that opened after another row had been selected), `relinked` (a link that came
while the dialog of another one was open), `interrupted` (a creation that another
navigation interrupted), `unsent` (settings that `openChat` and the setters of the look
change without a message). `PageIsReached` has no exception: it says that of openings
that overlap all heartbeats but the last go on, as they do, for ever. What is left
is what the code does get right, and what a change to it would break.

### Where the code does not do what it says

`delete_claim` refutes `hands-on-labs/03-office-collab.md:299` for the last
checkpoint: the row's id has a prefix there, Graph knows no such item, the await
throws, and the modal dialog stays. Read off the code while modelling, without a
run of their own:

* Properties of a container are never added: `createContainerProperty.ts:23` wants
  `propertyName`, `propertyValue` and `isSearchable`, the client sends one field
  named for the property, and each request is refused
  (`hands-on-labs/02-working-containers-files-core.md:1362` has the client).
* That a token could not be exchanged is sent with status 200
  (`createContainer.ts:29`), and the client shows it as a container (`Failure`).
* `hands-on-labs/02-working-containers-files-core.md:1903` has a "View Container"
  that shows the container found; it need not be in the list.
* `ContainersApiProvider.update` sends PUT to a function that is registered for GET and
  PATCH (`containers.ts:104`); nothing calls it.
* `useSubmit` returns nothing, so that `await submit(...)` in `routes/Containers.tsx:55`
  does not wait: the dialog closes before the container exists.
* In `files.js`, Refresh lists the root under a folder's breadcrumb, the end of
  creating a folder toggles the dialog whatever was opened meanwhile, the listing
  after an upload is of the current container with the captured folder, and search
  results that are late replace a listing.

### Proofs

`PagesProofs` proves the type invariants and `CrumbMatchesFolder`, `UploadsCounted`
(`FilesInv`), `LandsWhereShown` (`PlaceInv`: unless the user came back,
`folderId` is a folder of another container or agrees with the breadcrumb),
`ShownIsKnown` (`KnownInv`), `DeletesOwn` (`SpaInv`: what the view's list is of,
until it settles) and `OwnDataSent` (`DialogsInv`: each list of the open dialog has
failed, or the last listing of it under way that counts is of what is open, or the
rows are; the fields of a file come after its choices, which may be under way
still). `PathLemmas` has the lemmas on the fronts and ends of paths that
three proof modules use. Assumed are the named assumptions of the modules.
The theorems about `FileSharing`, `ContainersRoute` and `ChatFrame` are in
`ServicesProofs`. `DialogsActAsShown` needs
that an open dialog shows the links of the selected file unless `crossed`, which holds
since what would select another row is covered then (`SharingInv`).
`ContainersListed` needs what the loader will have when it ends: each container is
to be got, got, skipped, interrupted or still awaited (`Reached`), and the page waits
for no container but one whose creation is under way (`RouteInv`). `SettingsShown`
says of a page that has read all its messages what `TellInv` says of any: of each field
the last message on the way that names it, or else the page, has the setting
(`TellsLast`); `HeardInv` relates the settings to the selection; `PageIsReached` follows
from `LinkInv`: the listener is there from the first form until the port is taken, the
page has been introduced if its port is taken or under way, and the heartbeats are
those of all forms, but for the last once the port is taken.
`FilesShown` and `SummitShown` follow from `FilesSettled` and `SummitSettled`, which
say of these pages what `OcrSettled` says of the OCR page. `DialogsEnd` is liveness
and stays with TLC.

## 8. The ASP.NET service and the key cache

### Correspondence

`FolderSession`: `session` is the drive and the path, `page[t]` what a tab shows. A
request reads the session at its first use and writes it when it ends; in between it
awaits a token or Graph. A tab that sends another request drops the answer of the
first, which goes on. `Onboarding`: `Onboard` adds a provisional record under a fresh
id, `ProcessCode` asks for the tenant's record and for the visit's, in two
queries, and saves what it found (`FindTenant`, `FindState` and `Save` are steps of their own); the
browser may deliver an answer again, and the user may answer differently.
`TokenGate`: the first requests of a process fetch the keys while the issuer
publishes and takes back; each adds what it got; a restart forgets them.

### Properties

In the run `parts`: `ActsWhereShown` (2 tabs, 4 requests), `OneRecordEach` and `WelcomedStay` (2 tenants, 3 visits, 2 answers),
`RefusedIsNew` (3 keys, 3 requests). Two tabs and two answers are the least that
can disagree, the third visit and key are there to be neither of the two.
`ServicesProofs` proves them for any number of tabs, requests, tenants, visits
and keys, and `PathLeadsDown`, and that an accepted key stays known. `ActsWhereShown` needs to know of
each request under way whether another one has written since its page was served
(`SessionInv`); `OneRecordEach` and `WelcomedStay` that without two at once a
request's findings are still true when it saves (`AnswersInv`, `RecordsInv`).

Observed, and excepted by these properties: two consents of one tenant that return
at once make two records; an answer that declines removes a record that was
accepted before; a folder opened from search results is appended to the path of
another folder; after a key rollover every valid token is refused until the process
restarts. `MSGraphService.cs:304` returns from a sliced upload without a report
when a slice fails; in the model it matters only whether a request works. In
`changeNotifications.ts:193` a replaced file keeps the fields of the old one (see
the assumptions of section 5).

## 9. Reading the project

Twelve runs: `migration`, `fault_free`, `program`, `failed_claim`, `ocr_sample`,
`receipts_overlap`, `switch`, `processing`, `browser`, `parts`, `summit`,
`delete_claim`; the two claims end in the counterexamples that the findings quote.

`PROJECT.json` lists the components, the runs with their properties, for each
property a mutant of the code that breaks it, the source lines of every
definition, the findings, the hazards with the properties that would catch them
(or why none does), and the theorems. Mutants stand before the definition that
they change. `tlc -config MCFileMigrator.cfg MCFileMigrator` runs a
configuration, `tlapm FileMigratorProofs.tla` checks proofs.

Only model-checked are the liveness properties (`Termination`, `RunsEnd`,
`FeedbackEnds`, `SomeJson`, `LastVersionUnlessOverlap`, `NotifiedIsProcessed`,
`ProcessingEnds`, `DialogsEnd`), which are out of the provers' reach. All other
properties of the runs are theorems for every value of the constants.
