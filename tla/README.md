# LocalMediaTransfer: a TLA+ verification project

LocalMediaTransfer moves photos and videos from an iPhone, a browser or another
Windows PC to a Windows PC on the same network. This directory models the parts
of it in which threads, callbacks, failures and restarts meet, checks the models
with TLC, and proves the most important invariants with TLAPS.

Paths below are relative to the repository, `docs/...` and `src/...`.

## The system and how its parts interact

A sender prepares files, asks the receiver which of them it already has, and
sends the others in chunks to the HTTP server of the receiver. The worker threads
of that server call the upload writer, which keeps a temporary file per upload,
hashes it as it grows, and renames it into the upload directory when it is
complete. The writer asks the inventory for duplicates and records what it
stored. The HTTP server tells the Windows GUI about progress and requests through
a named pipe, and the GUI answers with commands. The sender reports the outcome,
and the receiver keeps it as history.

Two senders are modelled. The page that the receiver serves to a browser has a
queue, workers, retries and a history report. The iPhone app has a picker, a
pipeline from preparation to upload, a transfer screen, a connection to the
receiver with pairing and a health monitor, and stores on the phone for
diagnostic reports, previews of problem files and preferences.

| Part | Source | Module |
|---|---|---|
| Upload writer, inventory | `src/Server/src/io` | `FileWriter` |
| What the writer promises | `docs/UPLOAD_PROTOCOL.md` and the code above | `UploadLifecycle` |
| Pipe to the GUI | `src/Server/src/ipc/PipeServer.cpp` | `PipeServer` |
| Browser sender | `src/Server/static/js` | `BrowserUpload` |
| iPhone upload pipeline | `src/LocalMediaTransfer.iOS/src/services/UploadManager.ts`, `services/upload` | `TransferPipeline` |
| iPhone duplicate preflight | `services/upload/duplicatePreflight.ts` | `DuplicatePreflight` |
| iPhone picker and transfer screen | `features/media`, `features/transfer` | `MediaSelection`, `TransferScreen`, composed in `PickAndTransfer` |
| iPhone connection and pairing | `app/hooks`, `app/AppShell.tsx` | `Connection` |
| iPhone diagnostic reports | `services/diagnostics` | `DiagnosticReports` |
| iPhone problem previews | `services/history/ProblemPreviewStore.ts` | `ProblemPreviews` |
| iPhone view of the history | `features/history/useReceiverHistory.ts` | `ReceiverHistory` |
| iPhone preferences, discovery | `app/hooks/use*Preferences.ts`, `useDiscoveryController.ts` | `AppPreferences` |

`PROJECT.json` lists every part of the repository with what is modelled of it
("components"), the source lines of every definition ("map"), and what is hard
to test in the code, at its line, with the properties that would notice
("hazards").

A definition marked "Wrong:" is used by no specification. It is the definition
below it with a plausible mistake, and `PROJECT.json` ("mutants") says which
property of which run notices the mistake.

## The receiver

### FileWriter

*State.* An upload is the pair of a `FileHandle` and a `FinalizationState` that
`initFile` allocates. `handles` and `sessions` are `m_handles` and `m_sessions`,
`order` is `m_completedSessionOrder`. Boolean fields (`finalizing`, `completed`,
`failed`, `reserved`, and the validity of the streaming hash) are sets of uploads.
`tmp`, `disk` and `index` are the temporary files, the upload directory and the
inventory. `published` is a history variable: what each upload was renamed to.

*Steps.* A section of code under `m_mutex`, or under the mutex of one
`FinalizationState`, is one step. `writeMutex` (one per file) and
`m_finalizeMutex` are held across steps and are variables. `pc` names the place
between two sections that a thread has reached:

| Source | Actions |
|---|---|
| `initFile` | `InitFile` (created; failed with nothing left; failed with a file left) |
| `writeChunk` | `WriteChunk`, `WriteLocked`, `WriteMappedRange`, `CommitChunk`, `AwaitReturn`, `AbortFile` |
| `finalizeFileResult` | `FinalizeFile`, `FinalizeLocked`, `Seal`, `Decide`, `Publish`, `Complete`, `FailFinalization`, `RetireTemporary`, `RememberCompleted` |
| `abortFile`, `abortFilesWithPrefix` | `RequestAbort`, `AbortFilesWithPrefix`, `NextInLoop`, `CloseAborted`, `RetireTemporary`, `RememberCompleted` |
| `expireIdleFiles` | `ExpireIdleFiles`, then the same loop, then the sweep of undeleted files |
| constructor | `Restart` |
| elsewhere | `TimePasses`, `ExternalChange`, `IndexFile` |

*Abstractions.* A chunk is some bytes of one value, a content is a sequence of
byte values, a digest is the content itself (SHA-256 taken as injective).
`sanitizeFilename` is a constant function that maps two names to one. Times are
abstracted to "idle for longer than the timeout" and "the 15 s wait is over". A
call that only refuses changes nothing and is no step. The Windows semantics of
files apply: an open file cannot be deleted, a rename does not replace. The
free-space test of `initFile` is one more reason to refuse and is left out.
`IndexFile` reads and records a file in one step.

*Switches.* `ReuseIds` lets a client come back with the id of a session that the
server has evicted; it is FALSE in the runs and in the proofs. `External` is what
other programs may put in the directory. `Restarts` lets the process die at any
step.

`FileWriterInv` has the inductive invariants of the proofs. `UploadLifecycle` is the
abstract specification of one upload: its phases, its charge and its file.
`FileWriterLive` has the refinement mapping to it, the fairness and the liveness
properties.

### PipeServer

*State.* `queue` is `m_outQueue`; `inFlight` is the message that the pipe thread
has popped and not yet written; `pending` holds the message of a sender that has
passed the unlocked checks of `sendMessage`; `running`, `mRunning`, `connected`,
`authenticated` and `handle` are the flags. `accepted` and `delivered` are
history variables. A message is a type and a stamp that stands for its payload.

*Steps.* The pipe thread goes through `Start`, `LoopTop`, `Listen`, `Accept`,
`ProcessIncoming`, `Reply`, `Pop`, `StartWrite`, `Written` or `WriteFails`,
`Requeue`, `ClosePipe`; a sender through `SendMessage` (checks without a lock)
and `SendLocked`; main through `HttpServerReturns`, `StopFlags`,
`CancelSynchronousIo`, `Join`. The start of a blocking call is a step of its own
because `CancelSynchronousIo` reaches only a call that is already blocked. The
commands of `main.cpp` are modelled by what they send and what they do to
`authenticated` and `running`. Of the GUI (`PipeConnectionLoop`) the model has what
the server sees: it connects, reads, sends commands and leaves. A `PeekNamedPipe`
that fails for another reason than a broken pipe leaves the connection as it is.

## The senders

JavaScript runs one callback at a time, so in these modules an action is what
happens from one `await` to the next, and whatever a function read before an
`await` may be old after it. React renders, and runs the effects of a change,
after each event and before the next one; the models of screens assume this.

### TransferPipeline

`uploadFilesConcurrent` from its call to an idle manager. `main` is where the
function is, `producer` the loop that prepares window after window and pushes the
files (`NextWindow`, `PrepareWindow`, `CheckWindow`, `PushFile`, `ResumePush` and
their failures), `queue` the `BoundedAsyncQueue` with its waiting producer and
consumers, `worker` the upload workers (`Shift`, `TakeFile`, `BeginChunk`,
`AcknowledgeChunk`, `RetryChunk`, `UploadDone`, `UploadFails`,
`UploadUnauthorized`). `outcome` is `TransferOutcomes`, `held` the prepared files
that the native session owns, `left` the released ones that it could not delete
(those of `Undeletable` may fail), `planned` and `acknowledged` the byte counts. A
failed release is swallowed and the file left to the teardown, which removes the
directory of the session; should that fail too, the next start of the app removes
it, which is not modelled. The user may cancel and the phone may get hot at any
moment. Names, MIME types, real
sizes and durations are left out; a file is `Size` chunks.

### DuplicatePreflight

`runDuplicatePreflightWindow`: `Metadata`, `Hash`, `Verify` and `Resolve` for one
window after the other, each with any answer and any failure, beside the uploads
(`Transfer`) that earlier decisions lead to. `outgoingHashes` is the registry that
lives across the windows. A hash is the content.

### BrowserUpload

The page, its queue and its runs. `main` is where `uploadFiles` is
(configuration, metadata, hashing, verification, uploading, cleanup, history),
`worker` the upload workers with their request, retry and backoff, `meta` and
`shown` what the manager knows of a file and what its row says, `stray` the files
of a hash runner that goes on after the check was given up. The credential of the
page, reloads, resets and retries of the user are steps, and so is the refusal of a
file with too many chunks or too many bytes. Files have a size above
zero; speed samples, the stall watchdog and display timers are left out.

### MediaSelection, TransferScreen, PickAndTransfer

`MediaSelection` has the grid (`media`, `cursor`, `hasNext`), the requests in
flight with the operation number they belong to, the selection, and a drag with
the first state of each cell it passed (`drag.baseline`). Answers come late, out
of order or not at all, and the library may change so that pages overlap. An app
without permission to read the library sees albums that are empty. `abandoned` has
the assets that a failed Select All had fetched.
`TransferScreen` has the refs that the callbacks of the manager fill
(`statusById`, `counts`, `pending`), what is on display (`shown`), the timers and
the queue notice; the manager is seen through its callbacks. `PickAndTransfer`
composes the two: the hand-over unmounts the picker and mounts the screen with
exactly the assets that were selected.

### Connection

An attempt to connect is a slot whose field `at` names the `await` it is
suspended at: QR or manual pairing, a discovered receiver, the saved receiver, or
HTTP. Attempts overlap, as they can in the code. Beside them run the health
monitor (`health`), the alert gate, authentication failures of requests in flight,
the receiver's decision on the credential, and the navigation of the user.
`scanner` says whether the camera is open, whether the timer that asks for a scan
runs (several at once are one) and whether a scan was requested (`qrScanRequestId`),
which opens the camera again whenever the connect screen is shown with its button
enabled. The permission for the camera is taken as granted. The ping of a monitor
that was stopped is left out, since its answer is ignored. The installed app is
modelled, with its native module present.

### DiagnosticReports, ProblemPreviews, ReceiverHistory, AppPreferences

`DiagnosticReports`: a report in memory with its revision, the write chain with
every file operation as a step that may fail or be the last one before the app is
killed, the prune after a write and the one of the listing in Settings. The
thermal listener goes on after `finish()`, until the transfer has cleaned up
(`progress` is "ending"); the next transfer begins after its last write.
`ProblemPreviews`: the chain of jobs (`work`) and the `await` of the first
(`step`), the index and the images in storage, clears by generation, the list with
its overtaking loads, and restarts; a batch of thumbnails is one asset.
`ReceiverHistory`: the address that an attempt sets (`SetConfig`), also while the
app is connected, and the connection, which are two things in the code; refreshes
and their request number, reports of transfers with one retry, and deletion. The
history clears what it shows on a disconnection only, so that after an address
that changed under the connection it shows another receiver's sessions until a
request made since has answered; `astray` marks that time. An acknowledged deletion also clears
previews, which changes nothing in this module. `AppPreferences`: load at launch,
choices with revision and write chain, the discovery preference without either,
the discoveries it allows, and restarts.

## Runs

All bounds are in the `.cfg` files. A run that passes has no error and no
deadlock, except that `CHECK_DEADLOCK FALSE` stands where the system really may
stop: a transfer, a run of the page or a behaviour of the user is over, and a
bound on what the user or the environment begins is used up.

| Run | Instance | Properties | Distinct states |
|---|---|---|---|
| `race` | 1 upload of 2 chunks, 2 HTTP threads and the reaper, 2 byte values | `NoWriteAfterClose SavedIntact FullInv` | 413,833 |
| `shared` | 2 uploads of 2 clients with colliding names, sizes 1 and 2, 1 HTTP thread and the reaper, eviction after 1 session | `TempIsCharged CompletedIsStored NoStrandedReservation WithinByteLimits` | 2,173,958 |
| `directory` | 1 upload; others create, change and delete files; the process dies at any step; fair | `NeverReplaces ImplementsLifecycle EveryUploadSettles SpaceIsReleased` | 71,264 |
| `pipe` | queue of 3 with 1 reserved slot, 1 sender beside the pipe thread and main, 3 messages, 1 broken connection, fair | `QueueBounded ImportantInOrder ImportantDelivered` | 759,386 |
| `transfer` | a Live Photo with 2 components and a picture, 2 workers, 2 chunks per file, 1 retry, 1 file that may be undeletable, both modes with and without the native module, fair | `HeldIsOwned CompletionAccounts ProgressWithinPlan TransferEnds` | 1,054,312 |
| `services` | see below | `SkipIsBacked OneUploadPerHash ReportsAreCurrent CompletionFlushes ImagesAreOwned ClearedStaysCleared HistoryIsOfReceiver DeletedStaysGone ChoiceStands DiscoveryIsConsented` | 1,701,245 |
| `browser` | a whole and a chunked file, 1 or 2 workers, 2 hash workers, 1 retry, 2 runs, 1 reload, fair | `RowsAreTruthful CountersAgree ProgressIsExact RunEnds` | 367,030 |
| `selection` | albums of 3 and 2 assets that share one and an empty album, pages of 1 that may overlap by 1, 3 album switches, 2 failures, then the screen of a selection of up to 3 transfer entries | `GridIsOfAlbum DragIsExact ResultsAddUp QuietAfterEnd` | 977,223 |
| `connection` | 2 overlapping attempts of any kind, 2 polls, 2 activations, 2 failures, 3 taps, fair | `BusyIsReal TrustIsEarned AttemptEnds FalseConnectionIsCorrected` | 460,245 |
| `cancel` | as `transfer`, not fair | `CancellationIsRecorded`: violated | |
| `crash` | 1 report, the app is killed once | `CrashKeepsCheckpoint`: violated | |
| `interrupted` | 1 attempt, 4 taps | `TransferStaysOnScreen`: violated | |

*`services`* is one run over five modules that share no state:
`DuplicatePreflight`, `DiagnosticReports`, `ProblemPreviews`, `ReceiverHistory`
and `AppPreferences`. A step of one of them is taken while the four others are in
an initial state. Every behaviour of one module is in the run, and since no action
reads or writes a variable of another module, nothing that a product of the five
could reach is missed by an invariant that speaks of one of them. Instances: 3
files in 2 windows with 2 contents of one size; 2 reports of which 1 may stay, one
of them at and one above the total size, with one failing file operation or kill and
one listing; 2 transfers to different
receivers with a problem file each, room for 1 preview, one clear and one fault; 2
receivers, 1 reported transfer, 3 refreshes and 2 deletions; one transfer
preference and the discovery preference with 2 choices and 1 fault.

*What the properties say.* The comment above each definition states it. In short:
nothing is written into a closed mapping, and a published file is whole and is
what was reported (`NoWriteAfterClose`, `SavedIntact`, `CompletedIsStored`,
`NeverReplaces`); space is charged exactly as long as it is occupied, is limited,
and comes back (`TempIsCharged`, `WithinByteLimits`, `NoStrandedReservation`,
`SpaceIsReleased`); an upload follows the lifecycle and comes to an end
(`ImplementsLifecycle`, `EveryUploadSettles`); the queue of the pipe is bounded and
keeps the order of important messages (`QueueBounded`, `ImportantInOrder`,
`ImportantDelivered`). For the senders: each file has one owner and one upload
(`HeldIsOwned`), what is reported adds up (`CompletionAccounts`, `CountersAgree`,
`ResultsAddUp`), progress is exact and bounded (`ProgressWithinPlan`,
`ProgressIsExact`), a skipped file is not lost (`SkipIsBacked`,
`OneUploadPerHash`, `RowsAreTruthful`), late answers change nothing that they
should not (`GridIsOfAlbum`, `QuietAfterEnd`, `HistoryIsOfReceiver`,
`DeletedStaysGone`, `ClearedStaysCleared`, `ChoiceStands`), and what began ends
(`TransferEnds`, `RunEnds`, `AttemptEnds`, `FalseConnectionIsCorrected`).
The type invariant of a module is a conjunct of one of these properties, or of the
inductive invariant where the module has proofs.

*Why the bounds are enough for the cases of interest.* Two HTTP threads and the
reaper give writer against retry, writer against abort, finalizer against retry
and finalizer against reaper. Two chunks give a first, a last and a repeated
chunk, and chunk sizes 1 and 2 give one that is too large. Two uploads with an
eviction queue of one give evictions during a finalization and names that
collide. A queue of three with one reserved slot reaches every branch of
`sendMessage`, and one broken connection the requeue into a full queue. A window
and a ready queue of one make the producer of a transfer wait at every file, and
an asset with two components gives components of one asset in different states.
Two runs of the page give retries of failed files; two configurations give a file
that is refused. Two overlapping attempts give every
pair of kinds; what a third one adds is below, under `TrustIsEarned`. By hand, a
larger instance of the stores with two assets per transfer and room for 3 previews
was explored without an error (5,957,219 states of `ProblemPreviews`). Of the
invariants that the proofs use and no run names, `StoredInv` and `PreferenceInv` hold
on the instances of `race`, `shared` and `services`.

### What the violated runs show

* `cancel`: `cancel()` closes the queue under a producer that waits for room. `push`
  throws, `UploadManager.ts:611` takes the throw for a fatal preflight error, and
  the cancelled transfer is not recorded. `docs/DEDUPLICATION.md:120` says that an
  iPhone cancellation is recorded "rather than disappearing from history".
* `interrupted`: an HTTP attempt whose ping is answered late calls
  `setAppState('home')` (`usePairingController.ts:210`; a trusted reconnection does
  the same at `useTrustedConnection.ts:80`) while the user, who was already shown as
  connected by the health monitor, has begun a transfer. What the user does on
  purpose, answering an alert or turning HTTP off included, and a refused credential
  are no violations. `docs/ux/IOS_TRANSFER_UX.md:16`
  says that the Transfers tab stays selected until cancellation or completion.
* `crash`: a report is deleted before its successor is moved in its place
  (`DiagnosticStorage.ts:210`). An app killed in between has lost every earlier
  checkpoint; the comment at `TransferDiagnostics.ts:210` promises the loss of one
  at most.

### What the passing properties leave out

Some properties have exceptions, because the code does not keep the stronger
promise:

* `GridIsOfAlbum` excepts `abandoned`. A Select All that fails has already marked
  what it fetched as loaded (`useMediaSelection.ts:571`). The alert asks the user to
  try again (line 585), and the second Select All passes over those assets (line
  570): they are neither shown nor selected, until the album is chosen anew. This is
  a defect; `src/LocalMediaTransfer.iOS/README.md:245` says that Select All
  "deliberately finishes loading the album before selecting it".
* `HistoryIsOfReceiver` and `DeletedStaysGone` except the time between a change of
  the address under the connection and the next answer (`astray`).
* `DiscoveryIsConsented` excepts a choice that met the load or another write
  (`raced`): that preference has no revision and no write chain.
* `CompletionFlushes` excepts a file operation that failed, a listing that deleted a
  file of the transfer, and a report that alone exceeds the total size.
* `ReportsAreCurrent` states the number and size of the reports, not their age.
* `TrustIsEarned` is about the approval. A receiver that revokes it before the record
  is stored is in the model, and the record is stored all the same.
* `CompletedIsStored` is checked where no other program writes to the directory.

### Fairness

`directory`: weak fairness for every step of a thread that is inside a call (the
operating system schedules threads), for the passing of time, and for
`ExpireIdleFiles`, which `HttpServer::run` calls every 30 s. Strong fairness for
the success of a deletion that the reaper retries for ever. No fairness for
clients. `std::mutex` is not fair, so nothing is claimed about the return of
each single request; what is claimed is that uploads settle and that space is
released.

`pipe`: weak fairness for the pipe thread, for main, for a sender past its
checks, and for a GUI that connects again (`PipeConnectionLoop` reconnects for
ever). The number of broken connections is bounded.

`transfer`, `browser`, `connection`: weak fairness for what the program does by
itself, because the event loop serves every callback that is due and every request
ends by an answer, an error or a timeout. None for the user, for the decision of
the receiver or for the temperature of the phone: `TransferEnds` is about transfers
whose thermal policy only monitors, and `AttemptEnds` excuses an attempt that waits
for the user's answer.

## Theorems

Eight modules hold proofs that TLAPS checks. They are about every value of the
constants: any number of clients, uploads, threads, attempts or receivers, and
any limit.

### FileWriter

The assumptions are `ConstantsAssumption` and that ids of forgotten sessions are
not reused (`~ReuseIds`); `CompletedFilesAreStored` also assumes that no other
program changes the directory (`External = {}`).

| Theorem | Module | States |
|---|---|---|
| `Invariance` | `FileWriterInvProofs` | `IInv` |
| `TypeCorrect` | `FileWriterInvProofs` | `TypeOK` |
| `SpaceStaysCharged` | `FileWriterInvProofs` | `TempIsCharged` |
| `MappingsOutliveWriters` | `FileWriterInvProofs` | `NoWriteAfterClose` |
| `WritesAreSerial` | `FileWriterInvProofs` | `SerialWrites`: one writer per upload, at the end of what was accepted |
| `FailureIsClean` | `FileWriterInvProofs` | `NoPublishAfterFailure`: a failed upload leaves no file |
| `OutcomesAreFinal` | `FileWriterInvProofs` | `OutcomeIsFinal`: the outcome of an upload never changes |
| `FilesAreNeverReplaced` | `FileWriterInvProofs` | `NeverReplaces` |
| `FileLimitsHold` | `FileWriterInvProofs` | `WithinFileLimits`: temporary files never outnumber the limits |
| `ByteLimitsHold` | `FileWriterInvProofs` | `WithinByteLimits`: their announced sizes never add up to more than the limits |
| `ContentsAreRight` | `FileWriterProofs` | `ContentInv` |
| `SavedFilesAreIntact` | `FileWriterProofs` | `SavedIntact` |
| `ReservationsAreNeverStranded` | `FileWriterProofs` | `NoStrandedReservation` |
| `CompletedFilesAreStored` | `FileWriterProofs` | `CompletedIsStored` |
| `FullInvariance` | `FileWriterProofs` | `FullInv`, which is `IInv`, `ContentInv` and `QueueInv` |
| `LifecycleIsImplemented` | `FileWriterProofs` | `ImplementsLifecycle`: the writer refines `UploadLifecycle` |

*Who may touch an upload (`IInv`).* None of the properties is inductive. That no
one writes into a closed mapping depends on who may close it: a finalizer, which
takes the handle out of `m_handles` only while it holds `writeMutex`, or an
aborting thread, which takes it out first and locks `writeMutex` after.
`IInv` therefore says of every upload which phase it is in (`ActiveIsIntact`,
`FreshIsClean`, `OutcomesGood`), of the maps that they agree (`MapsAgree`,
`IdsUnique`), of reservations that the session map names them until they are
released (`ReservationsKept`), and of every thread what it may rely on at its
`pc` (`PointerGood`, `WriterGood`, `FinalizerGood`, `OneFinalizer`).
`SecondLook` is the central lemma: what a thread finds under its id in the second
lookup is the upload of the first one, or nothing. This is where reused ids would
break the argument. The proof has one lemma per action: those of `writeChunk` and
`finalizeFileResult` in `FileWriterWriteProofs`, the others in
`FileWriterInvProofs`; steps that touch only one thread's variables share the
lemmas at the start of the first. `FileLimitsHold` adds that the charged sessions
never outnumber the limits (`ChargesBounded`), by cardinalities of finite sets, and
`ByteLimitsHold` that their announced sizes never exceed them in sum
(`BytesBounded`), by lemmas on the sum over a finite set: it does not depend on the
order, grows by the size of what is added, and is smaller on a subset. A temporary
file that exists is charged, so the limits hold of the files on disk, whatever was
aborted, has expired or could not be deleted.

*What is in the files (`ContentInv`).* That a published file is whole is decided
long before the rename. `ContentInv` follows the bytes: a temporary file has the
announced size and is filled up to `bytesWritten` (`TmpGood`), or further by the
chunk that is about to be committed (`ChunkGood`); the streaming hash, while it is
valid, has seen exactly those bytes, or already the chunk to be committed
(`StreamGood`); and from the moment the handle is moved out, the digest a
finalizer carries is the one of the file (`DigestGood`, `PublishedGood`).
`FileWriterContentProofs` has one lemma per action. It uses `IInv` at each step:
that nobody else writes, or closes the file, between the copy and the commit.

*What is remembered (`QueueInv`, `StoredInv`).* A charged upload has a handle, a
finalizer or the mark that the reaper looks for (`ReservedGood`); the eviction
queue names a session once, after its space is released (`QueueGood`), and so do
the threads about to add to it (`RememberGood`). `StoredInv` says that the file a
finalizer has found or renamed is still in the directory, which follows from
`NeverReplaces` when nobody else writes there.

*The refinement.* Under the mapping of `FileWriterLive` every action is a step of
`UploadLifecycle` for one upload, for several at once (the prefix abort, the
reaper, a restart), or a stutter. `FileWriterLifecycleProofs` shows which, action
by action, from `IInv` alone.

### PipeServer

`QueuedWriteProofs` is about the two components that write what others have
queued. Its first part assumes `PipeAssumption` and holds for every queue limit and
any senders.

| Theorem | States |
|---|---|
| `PipeInvariance` | `PipeInv` |
| `QueueStaysBounded` | `QueueBounded` |
| `SnapshotsStayCoalesced` | `SnapshotsAtMostTwice` |
| `ImportantStaysInOrder` | `ImportantInOrder` |

`QueueBounded` needs that `sendMessage` leaves one slot whether or not a message
is in hand, and that at most one is in hand (`PipeInv`). `SnapshotsAtMostTwice`
needs that snapshots behind the front are of distinct types. `ImportantInOrder`
says that the important messages accepted are those delivered followed by those in
hand and in the queue. The filter of the important messages is a recursive
function; lemmas say what it makes of an append, of a removed snapshot, of a
replaced one and of a message put back in front, and the order follows action by
action (`InOrder`).

### DiagnosticReports

The second part of `QueuedWriteProofs` assumes `ReportAssumption` (sizes and limits
are above zero) and holds for any transfers, sizes and limits, any failing file
operation and any kill.

| Theorem | States |
|---|---|
| `ReportInvariant` | `ReportInv` |
| `ReportsStayCurrent` | `ReportsAreCurrent` |
| `CompletionAlwaysFlushes` | `CompletionFlushes` |

A report reaches the phone by way of a snapshot, a temporary file, a deletion and a
move, while the transfer goes on changing it. `ReportInv` orders these copies by
what they contain (`Covers`): the report in memory covers the snapshot, and both
cover what the last write that returned had written (`MemoryGood`, `WriterGood`);
a file, if there is one, covers that write too and is never partial (`FilesGood`).
Revisions say which is newer, so that `finish()`, which returns only at the last
revision, leaves the last report; a thermal state that is noted after that replaces
a final report by a final report. `PruneGood` is about the deletions: what the
prune has listed includes every report present, and what it does not delete is
within the number and the total size. That rests on lemmas about the recursive
choice of the reports that stay (`Retained`): they are limited, and the newest is
one of them if it fits into the total size.

### DuplicatePreflight

The first part of `PhoneProofs` assumes `WindowAssumption` and `SizeAssumption` and
is about any files, windows and contents: `PreflightInvariant`,
`SkippedFilesAreBacked` (`SkipIsBacked`) and `HashedDuplicatesSentOnce`
(`OneUploadPerHash`). A skip rests on bytes that the receiver has or on another file
of the transfer. `PreflightInv` adds what makes this last: the registry tells the
truth about each content (`RegistryIsSound`), where an entry "outgoing" is backed by
a file that is still to be uploaded, is stored, or is reported as failed; and inside
a window every candidate and hash belongs to the window (`WindowIsSound`), so that
after verification every file is decided. That one of several equal files of a
window is sent is an argument on the first of them.

### MediaSelection, TransferScreen

The second part of `PhoneProofs` is about `PickAndTransfer`, from
`LibraryAssumption`, `BoundAssumption`, `PartsAssumption` and `FlowAssumption`: any
albums, any number of overlapping pages, requests and failures, and any selection
whose assets have any number of components.

| Theorem | States |
|---|---|
| `FlowInvHolds` | `FlowInv`, which is `PickInv` and `ScreenInv` |
| `GridStaysOfAlbum` | `GridIsOfAlbum` |
| `DragStaysExact` | `DragIsExact` |
| `ResultsAlwaysAddUp` | `ResultsAddUp` |
| `ScreenIsQuietAfterEnd` | `QuietAfterEnd`, an action property |

*The picker (`PickInv`).* An answer is applied when its operation number is still
the present one. What makes this right is that at most one request carries that
number, that it is for the album on display (`RequestsGood`), and that what it
captured when it was sent is still so when the answer comes: the grid is empty for a
first page, and ends where a next page begins (`CapturedGood`). What Select All has
collected so far contains the grid (`CollectedGood`), and the grid has everything up
to its cursor (`GridGood`). A drag that goes back and forth is exact because the
state a cell had when the drag first passed it is what it had when the drag began
(`DragTypes`, `DragGood`). Select All and Deselect All during a drag replace the
selection, and the property says nothing of that drag from then on.

*The screen (`ScreenInv`).* The counters are the numbers of entries per status
(`EntriesGood`). What is shown is never ahead of them, and equals them when nothing
is marked as changed and when the transfer has ended (`ShownGood`). A change that is
not shown yet has a timer, and after the end there is no timer (`TimersGood`). The
lemmas on cardinality say how the counters move with one status, and when the errors
of a whole selection are entered at once.

### ReceiverHistory, AppPreferences, Connection

`AppProofs` has three parts.

| Theorem | States |
|---|---|
| `HistoryInvariant` | `HistoryInv` |
| `ShownHistoryIsOfReceiver` | `HistoryIsOfReceiver` |
| `DeletedSessionsStayGone` | `DeletedStaysGone` |
| `IndicatorIsReal` | `LoadingIsReal` |
| `PreferenceInvariant` | `PreferenceInv` |
| `ChoicesStand` | `ChoiceStands` |
| `DiscoveriesAreConsented` | `DiscoveryIsConsented` |
| `ConnectionInvariant` | `ConnectionInv` |
| `IndicatorsAreReal` | `BusyIsReal` |
| `TrustIsAlwaysEarned` | `TrustIsEarned` |

*History.* What is shown is right because only the newest request may change it.
`HistoryInv` says this of the answers that are still in flight: a request that
still counts asked the receiver in use, its answer has only sessions of that
receiver (`RequestsAreSound`) and none whose deletion was acknowledged, and a
deleted session is neither on the receiver nor being reported (`DeletionIsSound`).
Requests made before the address changed under the connection are excepted until
one made since has answered, after which their answers no longer count.

*Preferences* (from `PreferenceAssumption`). For a transfer preference the last
write of the chain is of the last choice, so the storage is right when the chain
is empty; and until the user chooses, the load in flight holds what is stored
(`TransferPreferenceGood`). Nearby discovery has neither a chain nor a revision:
`NearbyGood` holds only until a choice meets the load, another write or a failure,
which is what the ghost `raced` records and what `DiscoveryIsConsented` excuses.

*Connecting.* The flags are shared by all attempts and each attempt clears them at
its end, so `BusyIsReal` needs an invariant on who has set them. `ConnectionInv`
says of every attempt what it may rely on where it is suspended (`AttemptGood`:
which kinds reach which stage, and that an attempt past the approval was approved),
that an attempt which holds the claim, shows the banner or has asked a question is
one that will give it back (`IndicatorsGood`), and of the monitor when it has a
ping or a timer (`MonitorGood`). The lemmas on steps say how these follow when one
attempt moves and the others stay.

`TrustIsEarned` was first stated without its second alternative: a record of a
receiver appears only after an approval. The proof attempt failed, and TLC then
found a counterexample with 3 attempts and 5 taps, beyond the instance of the run.
A nearby reconnection reads the saved receiver, another request fails its
authentication and removes the record (`AppShell.tsx:136`), and the reconnection,
whose ping is answered on the session of an overlapping pairing, writes back what
it had read (`usePairingController.ts:274`). Nothing in the repository rules this
out, and the record had been earned before, so the property now names the case.

### Induction

The library's induction theorems take an operator as a parameter, which the
installed provers cannot instantiate. The proofs about sums, filters and counts use
set versions instead, derived from the well-foundedness of the naturals: a non-empty
set of naturals has a least element (`LeastNumber`), a set that contains 0 and with
each number the next contains all of them (`CountUp`, `CountUpTo`), and the same
for finite sets that grow by one element (`GrowSet`). That a recursive function has
the values its equations say follows from a table built line by line (`TableExists`
and the lemmas like it) and the definition of recursion by CHOOSE.

### Only model-checked

Liveness under fairness (`EveryUploadSettles`, `SpaceIsReleased`,
`ImportantDelivered`, `TransferEnds`, `RunEnds`, `AttemptEnds`,
`FalseConnectionIsCorrected`) is out of the prover's reach. Without a proof are also
the invariants of three modules. `HeldIsOwned`, `CompletionAccounts` and
`ProgressWithinPlan` of `TransferPipeline`, and `RowsAreTruthful`, `CountersAgree`
and `ProgressIsExact` of `BrowserUpload`, need invariants on which of the many
suspended functions counts which file, with sums over files in several of them.
`ImagesAreOwned` and `ClearedStaysCleared` of `ProblemPreviews` need facts on the
filters that its jobs apply to the index, which is a sequence.

## Not modelled

* The HTTP endpoints of the receiver above the writer, the pairing, native-session,
  history, benchmark and metrics stores: each runs under one mutex per operation.
  What the senders see of them is in the models of the senders, with any answer at
  any time. A cancel between the authorization of a chunk and `initFile` is
  therefore only a hazard in `PROJECT.json`.
* The Windows client and the Windows GUI. The GUI is the other end of the pipe in
  `PipeServer`; its process management depends on what Windows guarantees about
  processes and ports.
* The Swift module of the app, except for what the app sees of it. It calls the
  photo library and the network stack.
* Presentation, texts, logging, rates and estimates over time, start-up input and
  output (TLS keys, paths, discovery answers), tools.
* Reused ids of evicted sessions (2048 are remembered), zero-byte files in the
  browser, and real time: how long a retry waits, or whether a timeout is long
  enough.
* The order of `m_mutex` and the state mutexes, since their sections are single
  steps, and data races on plain fields such as the thread handle of `PipeServer`,
  which is read atomically.
* Compositions that TLC could not finish: the deletion of the history together with
  the clearing of previews, and the transfer screen over `TransferPipeline` itself
  in place of its callbacks.

## Running

    tlc -workers 2 -config MCFileWriter_race.cfg MCFileWriter
    tlapm FileWriterProofs.tla

`MCX_run.cfg` belongs to module `MCX`. `FairSpec` or a specification without
fairness is chosen in the `.cfg`.
