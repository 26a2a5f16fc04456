--------------------------- MODULE BrowserUpload ---------------------------
(***************************************************************************)
(* The browser uploader the receiver serves: the page obtaining its         *)
(* credential, the queue, one run of UploadManager.uploadFiles after the    *)
(* other (configuration, duplicate preflight, parallel workers, cleanup and *)
(* history), the hash workers, the XHR requests with their retries, and the *)
(* user who adds files, resets, retries and reloads.                        *)
(*                                                                          *)
(* A file is its number; bytes are counted in units. JavaScript runs one    *)
(* callback at a time, so an action is what happens from one await to the   *)
(* next.                                                                    *)
(*                                                                          *)
(* A definition marked "Wrong:" belongs to no specification: it is an       *)
(* operation with a mistake that one of the properties excludes.            *)
(***************************************************************************)
EXTENDS Integers, Sequences, FiniteSets, FiniteSetsExt

CONSTANTS
    Size,          \* size of each file the user may choose
    Configs,       \* what the configuration or the fallback gives: chunkSize, parallel
    SingleMax,     \* SINGLE_FILE_MAX_BYTES: larger files are sent in chunks
    MaxChunks,     \* TransferLimits.MaxChunksPerFile
    MaxFileBytes,  \* TransferLimits.MaxFileBytes
    MaxRetries,    \* MAX_CHUNK_RETRIES
    HashWorkers,   \* getHashWorkerCount: 1 on a phone, up to 2 on a desktop
    MaxRuns,       \* bound: runs of the page
    MaxLoads       \* bound: times the page is loaded

ASSUME SizeAssumption == Size \in Seq(Nat \ {0})
ASSUME LimitAssumption ==
    /\ Configs \subseteq [chunkSize : Nat \ {0}, parallel : Nat \ {0}] /\ SingleMax \in Nat
    /\ MaxChunks \in Nat /\ MaxFileBytes \in Nat /\ MaxRetries \in Nat
    /\ HashWorkers \in {1, 2}
    /\ MaxRuns \in Nat /\ MaxLoads \in Nat

VARIABLES
    page,      \* the credential: loading, verifying, locked, ready
    stored,    \* a token is in localStorage
    loads,
    config,    \* the loaded configuration
    runs,
    batch,     \* the files of the current run
    queue,     \* fileQueue
    meta,      \* the queue entry of each file
    shown,     \* what the row of each file reads
    isUploadInProgress,
    main,      \* where uploadFiles is
    check,     \* DuplicatePreflight.run: candidates, position, runners, hashed files
    stray,     \* files that hash runners of a failed check still go through
    worker,
    nextUploadIndex, pendingCount,
    successCount, errorCount,
    globalUploadedBytes, globalCompletedBytes,
    received   \* the files the receiver has

pageVars == <<page, stored, loads, config>>
counters == <<successCount, errorCount, globalUploadedBytes, globalCompletedBytes>>
vars == <<pageVars, runs, batch, queue, meta, shown, isUploadInProgress, main, check, stray, worker,
          nextUploadIndex, pendingCount, counters, received>>
-----------------------------------------------------------------------------
Files == DOMAIN Size
None == 0
Queued == {queue[i] : i \in DOMAIN queue}
Workers == 1..Max({c.parallel : c \in Configs})
Runners == 1..HashWorkers
Smaller(a, b) == IF a < b THEN a ELSE b
Larger(a, b) == IF a > b THEN a ELSE b

NewMeta == [done |-> FALSE, failed |-> FALSE, running |-> FALSE, skipped |-> "no",
            uploadedBytes |-> 0, completedBytes |-> 0]
Resting == [stage |-> "off", file |-> None, was |-> FALSE, chunk |-> 0, attempt |-> 0]
NoCheck == [candidates |-> <<>>, next |-> 1, runner |-> [r \in Runners |-> None], hashed |-> {}]

\* Values within limits, from the receiver or else the fallback.
LoadServerConfig == config \in Configs

Init ==
    /\ page = "loading" /\ stored \in BOOLEAN /\ loads = 1 /\ runs = 0
    /\ LoadServerConfig
    /\ received \in SUBSET Files
    /\ queue = <<>> /\ batch = {}
    /\ meta = [f \in Files |-> NewMeta]
    /\ shown = [f \in Files |-> "none"]
    /\ isUploadInProgress = FALSE /\ main = "idle"
    /\ check = NoCheck /\ stray = {}
    /\ worker = [w \in Workers |-> Resting]
    /\ nextUploadIndex = 1 /\ pendingCount = 0
    /\ successCount = 0 /\ errorCount = 0
    /\ globalUploadedBytes = 0 /\ globalCompletedBytes = 0
-----------------------------------------------------------------------------
(* The credential (SecurityManager). The one-time link is used up by the    *)
(* first exchange, and cleared from the address bar.                        *)

\* initializeCredential: the token of a one-time link, which is then kept in
\* localStorage if that works, a token of the address, which is not kept, or
\* the one kept earlier; without any the page stays locked.
ObtainToken ==
    /\ page = "loading"
    /\ \/ /\ loads = 1
          /\ stored' = TRUE /\ page' = "verifying"
       \/ /\ stored \/ loads = 1
          /\ page' = "verifying" /\ UNCHANGED stored
       \/ /\ page' = "locked" /\ UNCHANGED stored
          /\ loads = 1 \/ ~stored
    /\ UNCHANGED <<loads, config, runs, batch, queue, meta, shown, isUploadInProgress, main, check, stray,
                   worker, nextUploadIndex, pendingCount, counters, received>>

\* verifyTokenWithServer: only a rejection, not an unreachable receiver, makes
\* the page forget the token.
VerifyToken ==
    /\ page = "verifying"
    /\ \/ page' = "ready" /\ UNCHANGED stored
       \/ page' = "locked" /\ UNCHANGED stored
       \/ page' = "locked" /\ stored' = FALSE
    /\ UNCHANGED <<loads, config, runs, batch, queue, meta, shown, isUploadInProgress, main, check, stray,
                   worker, nextUploadIndex, pendingCount, counters, received>>

\* The queue and all that counts its files are back to nothing.
Emptied ==
    /\ queue' = <<>> /\ batch' = {}
    /\ meta' = [f \in Files |-> NewMeta]
    /\ shown' = [f \in Files |-> "none"]
    /\ stray' = {}
    /\ nextUploadIndex' = 1 /\ pendingCount' = 0
    /\ successCount' = 0 /\ errorCount' = 0
    /\ globalUploadedBytes' = 0 /\ globalCompletedBytes' = 0

\* The page is loaded again: all it held in memory is gone.
Reload ==
    /\ loads < MaxLoads
    /\ loads' = loads + 1
    /\ page' = "loading"
    /\ Emptied
    /\ isUploadInProgress' = FALSE /\ main' = "idle"
    /\ check' = NoCheck
    /\ worker' = [w \in Workers |-> Resting]
    /\ UNCHANGED <<stored, config, runs, received>>
-----------------------------------------------------------------------------
(* The ProgressTracker: what the rows read. A skipped file gets the same    *)
(* row as an uploaded one.                                                  *)
RenderFileItem(f) == [shown EXCEPT ![f] = "queued"]
SetFileProgress(f, text) == [shown EXCEPT ![f] = text]
MarkFileQueued(S) == [f \in Files |-> IF f \in S THEN "queued" ELSE shown[f]]
MarkFileSuccess(f) == [shown EXCEPT ![f] = "done"]
MarkFileError(f) == [shown EXCEPT ![f] = "error"]
-----------------------------------------------------------------------------
(* The queue.                                                               *)

\* addFiles: file inputs and dropped files, one at a time. Dropping works even
\* on a locked page.
AddFile(f) ==
    /\ page \in {"ready", "locked"}
    /\ ~isUploadInProgress
    /\ f \notin Queued
    /\ queue' = Append(queue, f)
    /\ meta' = [meta EXCEPT ![f] = NewMeta]
    /\ shown' = RenderFileItem(f)
    /\ UNCHANGED <<pageVars, runs, batch, isUploadInProgress, main, check, stray, worker,
                   nextUploadIndex, pendingCount, counters, received>>

\* resetFiles. The rows are gone, also for a hash runner that is still busy.
ResetFiles ==
    /\ page = "ready"
    /\ ~isUploadInProgress
    /\ queue # <<>>
    /\ Emptied
    /\ UNCHANGED <<pageVars, runs, isUploadInProgress, main, check, worker, received>>
-----------------------------------------------------------------------------
(* uploadFiles.                                                             *)

\* The click. The queue is owned before the first await.
ClickUpload ==
    /\ page = "ready"
    /\ runs < MaxRuns
    /\ ~isUploadInProgress
    /\ queue # <<>>
    /\ isUploadInProgress' = TRUE
    /\ main' = "config"
    /\ runs' = runs + 1
    /\ UNCHANGED <<pageVars, batch, queue, meta, shown, check, stray, worker, nextUploadIndex,
                   pendingCount, counters, received>>

Pending(m) == {f \in Queued : ~m[f].done}

\* configReady is settled (it never rejects, and has a timeout). Failed files
\* are pending again, though still marked as failed; with nothing pending the
\* run is over, otherwise its counters start from zero.
BeginRun ==
    /\ main = "config"
    /\ LET retried == {f \in Queued : meta[f].done /\ meta[f].failed}
           next == [f \in Files |-> IF f \in retried
                                    THEN [meta[f] EXCEPT !.done = FALSE, !.running = FALSE,
                                                         !.uploadedBytes = 0, !.completedBytes = 0]
                                    ELSE meta[f]]
       IN /\ meta' = next
          /\ shown' = MarkFileQueued(retried)
          /\ IF Pending(next) = {}
             THEN /\ main' = "idle" /\ isUploadInProgress' = FALSE
                  /\ UNCHANGED <<batch, pendingCount, nextUploadIndex, globalUploadedBytes,
                                 globalCompletedBytes>>
             ELSE /\ main' = "metadata"
                  /\ batch' = Pending(next)
                  /\ pendingCount' = Cardinality(Pending(next))
                  /\ nextUploadIndex' = 1
                  /\ globalUploadedBytes' = 0 /\ globalCompletedBytes' = 0
                  /\ UNCHANGED isUploadInProgress
    /\ UNCHANGED <<pageVars, runs, queue, check, stray, worker, successCount, errorCount, received>>

\* The check is over: workers are started if anything is pending.
StartUploads(m) ==
    /\ pendingCount' = Cardinality(Pending(m))
    /\ nextUploadIndex' = 1
    /\ check' = NoCheck
    /\ worker' = [w \in Workers |->
                    IF Pending(m) # {} /\ w <= config.parallel
                    THEN [Resting EXCEPT !.stage = "loop"] ELSE Resting]
    /\ main' = "uploading"

\* The catch around the preflight: everything pending is uploaded.
Fallback ==
    /\ shown' = MarkFileQueued(Pending(meta))
    /\ StartUploads(meta)
    /\ UNCHANGED <<pageVars, runs, batch, queue, meta, isUploadInProgress, counters, received>>

\* A preflight request is refused or breaks.
CheckFails ==
    /\ main \in {"metadata", "verify"}
    /\ Fallback
    /\ UNCHANGED stray

\* A file cannot be read, or a hash worker dies with all of its requests. The
\* other runner does not notice: it goes on with the candidates that are left.
HashFails ==
    /\ main = "hashing"
    /\ \E failed \in SUBSET {r \in Runners : check.runner[r] # None} \ {{}} :
         LET surviving == Runners \ failed
             left == {check.candidates[i] : i \in check.next..Len(check.candidates)}
         IN stray' = IF surviving = {} THEN stray
                     ELSE (stray \cup left \cup {check.runner[r] : r \in surviving}) \ {None}
    /\ Fallback

\* The receiver names the candidates, in the order of the queue.
Metadata ==
    /\ main = "metadata"
    /\ \E candidates \in SUBSET Pending(meta) :
         IF candidates = {}
         THEN /\ StartUploads(meta)
         ELSE /\ main' = "hashing"
              /\ check' = [NoCheck EXCEPT !.candidates =
                             SelectSeq(queue, LAMBDA f : f \in candidates)]
              /\ UNCHANGED <<pendingCount, nextUploadIndex, worker>>
    /\ UNCHANGED <<pageVars, runs, batch, queue, meta, shown, isUploadInProgress, stray, counters, received>>

\* A runner takes the next candidate and posts it to a hash worker.
HashStart(r) ==
    /\ main = "hashing"
    /\ check.runner[r] = None
    /\ check.next <= Len(check.candidates)
    /\ LET f == check.candidates[check.next]
       IN /\ check' = [check EXCEPT !.runner[r] = f, !.next = @ + 1]
          /\ shown' = SetFileProgress(f, "checking")
    /\ UNCHANGED <<pageVars, runs, batch, queue, meta, isUploadInProgress, main, stray, worker,
                   nextUploadIndex, pendingCount, counters, received>>

\* The digest arrives; after the last one the candidates are verified.
HashDone(r) ==
    /\ main = "hashing"
    /\ check.runner[r] # None
    /\ check' = [check EXCEPT !.runner[r] = None, !.hashed = @ \cup {check.runner[r]}]
    /\ shown' = SetFileProgress(check.runner[r], "checking")
    /\ main' = IF Cardinality(check'.hashed) = Len(check.candidates) THEN "verify" ELSE main
    /\ UNCHANGED <<pageVars, runs, batch, queue, meta, isUploadInProgress, stray, worker,
                   nextUploadIndex, pendingCount, counters, received>>

\* A skipped file: done, and all of its bytes completed without being uploaded.
\* Its failed flag is left as it was.
SkippedMeta(f) ==
    [meta[f] EXCEPT !.done = TRUE, !.skipped = "preflight",
                    !.uploadedBytes = 0, !.completedBytes = Size[f]]

\* Wrong: a candidate is skipped whatever the verdict on its digest.
VerifyUnheard ==
    /\ main = "verify"
    /\ \E skips \in SUBSET check.hashed :
         LET next == [f \in Files |-> IF f \in skips THEN SkippedMeta(f) ELSE meta[f]]
         IN /\ meta' = next
            /\ shown' = [f \in Files |-> IF f \in skips THEN "done" ELSE shown[f]]
            /\ successCount' = successCount + Cardinality(skips)
            /\ globalCompletedBytes' =
                 globalCompletedBytes
                   + MapThenSumSet(LAMBDA f : Size[f] - meta[f].completedBytes, skips)
            /\ StartUploads(next)
    /\ UNCHANGED <<pageVars, runs, batch, queue, isUploadInProgress, stray, errorCount,
                   globalUploadedBytes, received>>

\* The receiver verifies the digests: it says skip only for a file it has.
Verify ==
    /\ main = "verify"
    /\ \E skips \in SUBSET (check.hashed \cap received) :
         LET next == [f \in Files |-> IF f \in skips THEN SkippedMeta(f) ELSE meta[f]]
         IN /\ meta' = next
            /\ shown' = [f \in Files |-> IF f \in skips THEN "done"
                                         ELSE IF f \in check.hashed THEN "queued"
                                         ELSE shown[f]]
            /\ successCount' = successCount + Cardinality(skips)
            /\ globalCompletedBytes' =
                 globalCompletedBytes
                   + MapThenSumSet(LAMBDA f : Size[f] - meta[f].completedBytes, skips)
            /\ StartUploads(next)
    /\ UNCHANGED <<pageVars, runs, batch, queue, isUploadInProgress, stray, errorCount,
                   globalUploadedBytes, received>>

\* A hash runner left over from a failed check writes to the row of its file,
\* whatever has become of the file, until it is through or fails.
StrayHash(f) ==
    /\ f \in stray
    /\ shown' = SetFileProgress(f, "checking")
    /\ stray' \in {stray, stray \ {f}, {}}
    /\ UNCHANGED <<pageVars, runs, batch, queue, meta, isUploadInProgress, main, check, worker,
                   nextUploadIndex, pendingCount, counters, received>>

\* Promise.all over the workers is settled.
AllUploaded ==
    /\ main = "uploading"
    /\ \A w \in Workers : worker[w].stage = "off"
    /\ main' = "cleanup"
    /\ UNCHANGED <<pageVars, runs, batch, queue, meta, shown, isUploadInProgress, check, stray, worker,
                   nextUploadIndex, pendingCount, counters, received>>

\* performCleanup swallows its errors.
Cleanup ==
    /\ main = "cleanup"
    /\ main' = "history"
    /\ UNCHANGED <<pageVars, runs, batch, queue, meta, shown, isUploadInProgress, check, stray, worker,
                   nextUploadIndex, pendingCount, counters, received>>

\* What submitTransferHistory reports.
History ==
    [selected |-> Len(queue),
     uploaded |-> Cardinality({f \in Queued : /\ meta[f].done /\ ~meta[f].failed
                                              /\ meta[f].skipped = "no"}),
     skipped  |-> Cardinality({f \in Queued : meta[f].skipped # "no"}),
     failed   |-> errorCount]

\* The history is sent or not; the run ends and the queue is free again.
EndRun ==
    /\ main = "history"
    /\ main' = "idle"
    /\ isUploadInProgress' = FALSE
    /\ UNCHANGED <<pageVars, runs, batch, queue, meta, shown, check, stray, worker,
                   nextUploadIndex, pendingCount, counters, received>>
-----------------------------------------------------------------------------
(* The workers. They share nextUploadIndex, and a worker's file is never    *)
(* taken by another.                                                        *)

Chunked(f) == Size[f] > SingleMax
TotalChunks(f) == (Size[f] + config.chunkSize - 1) \div config.chunkSize
ChunkBase(w) == worker[w].chunk * config.chunkSize

RequestSize(w) ==
    LET f == worker[w].file
    IN IF Chunked(f) THEN Smaller(config.chunkSize, Size[f] - ChunkBase(w)) ELSE Size[f]
LastRequest(w) ==
    LET f == worker[w].file IN Chunked(f) => worker[w].chunk = TotalChunks(f) - 1

\* updateFileTransferProgress: neither the file nor the totals go back.
Progressed(m, loaded) ==
    [m EXCEPT !.uploadedBytes = Larger(@, loaded), !.completedBytes = Larger(@, loaded)]
\* Wrong: bytes that were counted already are counted again.
CountBytesAgain(f, loaded) ==
    /\ globalUploadedBytes' = globalUploadedBytes + loaded
    /\ globalCompletedBytes' = globalCompletedBytes + loaded

CountBytes(f, loaded) ==
    /\ globalUploadedBytes' = globalUploadedBytes + Larger(0, loaded - meta[f].uploadedBytes)
    /\ globalCompletedBytes' = globalCompletedBytes + Larger(0, loaded - meta[f].completedBytes)

Available(i) == LET m == meta[queue[i]] IN ~m.running /\ ~m.done

\* worker: the next file that is neither running nor done; uploadSingle forgets
\* the earlier failure, but remembers that there was one.
TakeFile(w) ==
    /\ worker[w].stage = "loop"
    /\ LET left == {i \in nextUploadIndex..Len(queue) : Available(i)}
       IN IF left = {}
          THEN /\ worker' = [worker EXCEPT ![w] = Resting]
               /\ nextUploadIndex' = Larger(nextUploadIndex, Len(queue) + 1)
               /\ UNCHANGED <<meta, shown>>
          ELSE LET f == queue[Min(left)]
               IN /\ nextUploadIndex' = Min(left) + 1
                  /\ worker' = [worker EXCEPT ![w] =
                                  [stage |-> "sending", file |-> f, was |-> meta[f].failed,
                                   chunk |-> 0, attempt |-> 0]]
                  /\ meta' = [meta EXCEPT ![f].running = TRUE, ![f].failed = FALSE,
                                          ![f].uploadedBytes = 0, ![f].completedBytes = 0]
                  /\ shown' = SetFileProgress(f, "uploading")
    /\ UNCHANGED <<pageVars, runs, batch, queue, isUploadInProgress, main, check, stray, pendingCount,
                   counters, received>>

Settled(m) == [m EXCEPT !.done = TRUE, !.running = FALSE]

\* uploadSingle succeeded, and worker goes on to the next file. The receiver
\* may have found that it already had the content.
Succeed(w, skipped) ==
    LET f == worker[w].file
    IN /\ meta' = [meta EXCEPT ![f] = [Settled(Progressed(@, Size[f])) EXCEPT
                                         !.skipped = IF skipped THEN "server" ELSE @]]
       /\ CountBytes(f, Size[f])
       /\ shown' = MarkFileSuccess(f)
       /\ successCount' = successCount + 1
       /\ errorCount' = IF worker[w].was THEN errorCount - 1 ELSE errorCount
       /\ pendingCount' = Larger(0, pendingCount - 1)
       /\ worker' = [worker EXCEPT ![w] = [Resting EXCEPT !.stage = "loop"]]

\* Wrong: a retry that fails again is counted as another failure.
FailAnew(w, loaded) ==
    LET f == worker[w].file
    IN /\ meta' = [meta EXCEPT ![f] = [Settled(Progressed(@, loaded)) EXCEPT !.failed = TRUE]]
       /\ CountBytes(f, loaded)
       /\ shown' = MarkFileError(f)
       /\ errorCount' = errorCount + 1
       /\ pendingCount' = Larger(0, pendingCount - 1)
       /\ worker' = [worker EXCEPT ![w] = [Resting EXCEPT !.stage = "loop"]]
       /\ UNCHANGED successCount

\* uploadSingle caught an error. Bytes already counted stay counted.
Fail(w, loaded) ==
    LET f == worker[w].file
    IN /\ meta' = [meta EXCEPT ![f] = [Settled(Progressed(@, loaded)) EXCEPT !.failed = TRUE]]
       /\ CountBytes(f, loaded)
       /\ shown' = MarkFileError(f)
       /\ errorCount' = IF worker[w].was THEN errorCount ELSE errorCount + 1
       /\ pendingCount' = Larger(0, pendingCount - 1)
       /\ worker' = [worker EXCEPT ![w] = [Resting EXCEPT !.stage = "loop"]]
       /\ UNCHANGED successCount

Sending(w) == worker[w].stage = "sending"
Refused(w) ==
    LET f == worker[w].file
    IN Chunked(f) /\ (TotalChunks(f) > MaxChunks \/ Size[f] > MaxFileBytes)

\* A file that would need too many chunks, or is too large, is not sent at all.
RefuseFile(w) ==
    /\ Sending(w) /\ Refused(w)
    /\ Fail(w, 0)
    /\ UNCHANGED <<pageVars, runs, batch, queue, isUploadInProgress, main, check, stray,
                   nextUploadIndex, received>>

\* xhr.upload.onprogress, also for a chunk that is sent again.
Progress(w) ==
    /\ Sending(w) /\ ~Refused(w)
    /\ \E loaded \in 1..RequestSize(w) :
         LET f == worker[w].file
             reached == ChunkBase(w) + loaded
         IN /\ meta' = [meta EXCEPT ![f] = Progressed(@, reached)]
            /\ CountBytes(f, reached)
            /\ shown' = SetFileProgress(f, "uploading")
    /\ UNCHANGED <<pageVars, runs, batch, queue, isUploadInProgress, main, check, stray, worker,
                   nextUploadIndex, pendingCount, successCount, errorCount, received>>

\* A 2xx answer. The last request of a file has it stored; a readable answer
\* says so, an unreadable one is an error.
Accepted(w) ==
    LET f == worker[w].file
        reached == ChunkBase(w) + RequestSize(w)
    IN /\ Sending(w) /\ ~Refused(w)
       /\ \/ /\ LastRequest(w)
             /\ received' = received \cup {f}
             /\ \/ \E skipped \in {FALSE} \cup IF f \in received THEN {TRUE} ELSE {} :
                      Succeed(w, skipped)
                \/ Fail(w, reached)
          \/ /\ ~LastRequest(w)
             /\ meta' = [meta EXCEPT ![f] = Progressed(@, reached)]
             /\ CountBytes(f, reached)
             /\ worker' = [worker EXCEPT ![w].chunk = @ + 1, ![w].attempt = 0]
             /\ UNCHANGED <<shown, successCount, errorCount, pendingCount, received>>
       /\ UNCHANGED <<pageVars, runs, batch, queue, isUploadInProgress, main, check, stray,
                      nextUploadIndex>>

\* The outcomes of a request that was not accepted: no status at all (network
\* error, timeout, abort), a passing server condition, a rejection.
Statuses == {0, 503, 401}
IsRetryable(status) == status \in {0, 408, 425, 429} \/ status >= 500

\* The request fails; without a status, the receiver may still have processed
\* it. A chunk is sent again a bounded number of times, a whole file is not.
Rejected(w) ==
    /\ Sending(w) /\ ~Refused(w)
    /\ \E status \in Statuses :
         /\ received' \in {received} \cup
              IF status = 0 /\ LastRequest(w) THEN {received \cup {worker[w].file}} ELSE {}
         /\ IF Chunked(worker[w].file) /\ worker[w].attempt < MaxRetries /\ IsRetryable(status)
            THEN /\ worker' = [worker EXCEPT ![w].attempt = @ + 1, ![w].stage = "backoff"]
                 /\ UNCHANGED <<meta, shown, counters, pendingCount>>
            ELSE Fail(w, 0)
    /\ UNCHANGED <<pageVars, runs, batch, queue, isUploadInProgress, main, check, stray,
                   nextUploadIndex>>

\* Wrong: the attempts are counted from zero after each pause.
BackoffForgetting(w) ==
    /\ worker[w].stage = "backoff"
    /\ worker' = [worker EXCEPT ![w].stage = "sending", ![w].attempt = 0]
    /\ UNCHANGED <<pageVars, runs, batch, queue, meta, shown, isUploadInProgress, main, check, stray,
                   nextUploadIndex, pendingCount, counters, received>>

BackoffOver(w) ==
    /\ worker[w].stage = "backoff"
    /\ worker' = [worker EXCEPT ![w].stage = "sending"]
    /\ UNCHANGED <<pageVars, runs, batch, queue, meta, shown, isUploadInProgress, main, check, stray,
                   nextUploadIndex, pendingCount, counters, received>>
-----------------------------------------------------------------------------
MainStep ==
    \/ BeginRun \/ CheckFails \/ HashFails \/ Metadata \/ Verify \/ AllUploaded \/ Cleanup \/ EndRun
    \/ \E r \in Runners : HashStart(r) \/ HashDone(r)

WorkerStep(w) ==
    TakeFile(w) \/ RefuseFile(w) \/ Accepted(w) \/ Rejected(w) \/ BackoffOver(w)

UserStep ==
    \/ ObtainToken \/ VerifyToken \/ Reload \/ ResetFiles \/ ClickUpload
    \/ \E f \in Files : AddFile(f)

Next ==
    \/ MainStep \/ UserStep
    \/ \E w \in Workers : WorkerStep(w) \/ Progress(w)
    \/ \E f \in Files : StrayHash(f)

Spec == Init /\ [][Next]_vars

\* Every callback that is due runs, and every request and every hash ends: the
\* uploads have timeouts, the other requests those of the browser.
FairSpec == Spec /\ WF_vars(MainStep) /\ \A w \in Workers : WF_vars(WorkerStep(w))
-----------------------------------------------------------------------------
TypeOK ==
    /\ page \in {"loading", "verifying", "locked", "ready"}
    /\ meta \in [Files -> [done : BOOLEAN, failed : BOOLEAN, running : BOOLEAN,
                           skipped : {"no", "preflight", "server"},
                           uploadedBytes : Nat, completedBytes : Nat]]
    /\ \A f \in Files : meta[f].uploadedBytes <= meta[f].completedBytes
    /\ \A f \in Files : meta[f].completedBytes <= Size[f]
    /\ shown \in [Files -> {"none", "queued", "checking", "uploading", "done", "error"}]
    /\ main \in {"idle", "config", "metadata", "hashing", "verify", "uploading", "cleanup",
                 "history"}
    /\ stray \subseteq Queued
    /\ {successCount, errorCount, pendingCount} \subseteq Nat

\* A row that reads done, uploaded or already there, is the row of a file the
\* receiver has; a row in error is the row of a file that failed, and may be
\* retried (uploadSingle, DuplicatePreflight.run and the ProgressTracker).
RowsAreTruthful ==
    \A f \in Queued :
       /\ shown[f] = "done" => meta[f].done /\ f \in received
       /\ shown[f] = "error" => meta[f].done /\ meta[f].failed

Retrying == {worker[w].file : w \in {v \in Workers : worker[v].was}}

\* The numbers on the page are those of the files, however the workers and the
\* failures interleave and over any number of runs. No two workers have the
\* same file and the number of pending files is exact (worker,
\* nextUploadIndex); when a run reports, nothing is left over. The error
\* counter is the number of files that are marked as failed or being retried
\* after a failure; the success counter is at least the number of files that
\* are done. In the history every file is uploaded, skipped or failed, except
\* that one which failed in an earlier run and which the check then finds on
\* the receiver keeps its failed mark and is counted twice.
CountersAgree ==
    /\ TypeOK
    /\ \A w \in Workers : worker[w].file # None =>
         /\ meta[worker[w].file].running /\ ~meta[worker[w].file].done
         /\ \A v \in Workers \ {w} : worker[v].file # worker[w].file
    /\ main = "uploading" => pendingCount = Cardinality(Pending(meta))
    /\ main \in {"cleanup", "history"} =>
         /\ Pending(meta) = {} /\ pendingCount = 0
         /\ \A w \in Workers : worker[w].stage = "off"
    /\ errorCount = Cardinality({f \in Queued : meta[f].failed} \cup Retrying)
    /\ successCount >= Cardinality({f \in Queued : meta[f].done /\ ~meta[f].failed})
    /\ main = "history" =>
         History.uploaded + History.skipped + History.failed =
           History.selected
             + Cardinality({f \in Queued : meta[f].failed /\ meta[f].skipped = "preflight"})

\* The completed and the uploaded bytes of a run are those of its files, each
\* byte counted once however often a chunk is sent and whatever fails: the
\* progress bar stays within its total (updateFileTransferProgress,
\* markFileCompletedWithoutUpload).
ProgressIsExact ==
    main \notin {"idle", "config"} =>
       /\ globalCompletedBytes = MapThenSumSet(LAMBDA f : meta[f].completedBytes, batch)
       /\ globalUploadedBytes = MapThenSumSet(LAMBDA f : meta[f].uploadedBytes, batch)

\* Every run ends and gives the queue back to the user.
RunEnds == isUploadInProgress ~> ~isUploadInProgress
=============================================================================
