-------------------------- MODULE TransferPipeline --------------------------
(***************************************************************************)
(* One transfer of the iPhone app, from UploadManager.uploadFilesConcurrent *)
(* being called to the manager being idle again: the producer that prepares *)
(* the selection window by window and runs the duplicate preflight, the     *)
(* bounded queue of ready files, the upload workers with their retries, the *)
(* thermal gate, cancellation at any moment, and the reporting and teardown *)
(* at the end.                                                              *)
(*                                                                          *)
(* JavaScript runs one callback at a time: an action is what happens from   *)
(* one await to the next, and the actions of the producer, of each worker,  *)
(* of the main function and of the user interleave freely. A definition     *)
(* marked "Wrong:" belongs to no specification: it is an operation with a   *)
(* mistake that one of the properties excludes.                             *)
(***************************************************************************)
EXTENDS Integers, Sequences, FiniteSets

CONSTANTS
    Parts,           \* number of components Photos can export of each asset, in selection order
    Size,            \* upload chunks of a file
    Workers,         \* worker indices; worker 0 is never paused by heat
    MaxRetries,      \* MAX_CHUNK_RETRIES
    MaxPrepareFirst, \* MAX_PREPARE_FIRST_ASSETS
    StreamWindow,    \* STREAMING_PREPARATION_WINDOW_SIZE
    StreamCapacity,  \* STREAMING_READY_QUEUE_CAPACITY
    Undeletable,     \* bound: files whose deletion may fail
    Settings         \* native module installed or not, preparation mode and thermal policy

ASSUME PartsAssumption == Parts \in Seq(Nat \ {0})
ASSUME SizeAssumption == Size \in Nat \ {0}
ASSUME WorkersAssumption == Workers \subseteq Nat
ASSUME LimitsAssumption ==
    /\ MaxRetries \in Nat
    /\ MaxPrepareFirst \in Nat \ {0}
    /\ StreamWindow \in Nat \ {0}
    /\ StreamCapacity \in Nat \ {0}
ASSUME SettingsAssumption ==
    Settings \subseteq [native : BOOLEAN, mode : {"streaming", "prepare-first"},
                        thermal : {"adaptive", "monitor-only"}]

VARIABLES
    setup,      \* what the call fixed: native module, thermal policy, preparation policy
    main,       \* where uploadFilesConcurrent is
    error,      \* the error its catch block handles
    fatalError, \* the fatalError variable, by what raised it
    isCancelled,
    byUser,     \* the user (and not the pipeline itself) called cancel()
    isRunning,
    producer,   \* the producer and, in prepare-first mode, enqueuePreparedWindows
    queue,      \* BoundedAsyncQueue
    worker,
    hot,        \* the last thermal state was serious or critical
    ready,      \* files prepared, counted in readyFiles
    action,     \* preflight decision of every ready file
    outcome,    \* TransferOutcomes: terminal outcome of every file and failure
    held,       \* prepared files not yet released
    left,       \* released files that could not be deleted
    acknowledged,
    planned,    \* plannedUploadMediaBytes
    report      \* what the user, the history and the diagnostics were told

vars == <<setup, main, error, fatalError, isCancelled, byUser, isRunning,
          producer, queue, worker, hot, ready, action, outcome, held, left,
          acknowledged, planned, report>>
-----------------------------------------------------------------------------
Assets == DOMAIN Parts

\* A prepared component; part 0 names the failure of an asset without components.
Files == UNION {{<<a, p>> : p \in 1..Parts[a]} : a \in Assets}
Items == Files \cup {<<a, 0>> : a \in Assets}

None == <<0, 0>>

Total(S) == Size * Cardinality(S)

\* resolvePreparationPolicy: a native selection larger than one prepare-first
\* window streams whatever the user asked for; only native streaming has the
\* small window and the small queue.
PreparationPolicy(requested, native) ==
    LET auto == native /\ requested = "prepare-first" /\ Len(Parts) > MaxPrepareFirst
        bounded == native /\ (requested = "streaming" \/ auto)
    IN [mode     |-> IF bounded THEN "streaming" ELSE requested,
        window   |-> IF bounded THEN StreamWindow ELSE MaxPrepareFirst,
        capacity |-> IF bounded THEN StreamCapacity ELSE MaxPrepareFirst]

Streaming == setup.policy.mode = "streaming"

Idle == [pc |-> "off", item |-> None, sent |-> 0, attempt |-> 0]
Started == [Idle EXCEPT !.pc = "loop"]
Finished == [Idle EXCEPT !.pc = "done"]

Init ==
    /\ \E s \in Settings :
          setup = [native |-> s.native, thermal |-> s.thermal,
                   policy |-> PreparationPolicy(s.mode, s.native)]
    /\ main = "starting"
    /\ error = "none"
    /\ fatalError = "none"
    /\ isCancelled = FALSE
    /\ byUser = FALSE
    /\ isRunning = TRUE
    /\ producer = [pc |-> "off", next |-> 1, files |-> <<>>, backlog |-> <<>>,
                   preparedAll |-> FALSE]
    /\ queue = [items |-> <<>>, consumers |-> <<>>, waiter |-> FALSE, closed |-> FALSE]
    /\ worker = [w \in Workers |-> Idle]
    /\ hot = FALSE
    /\ ready = {}
    /\ action = [f \in Files |-> "none"]
    /\ outcome = [i \in Items |-> "none"]
    /\ held = {}
    /\ left = {}
    /\ acknowledged = 0
    /\ planned = 0
    /\ report = [history |-> "none", diagnostics |-> "none", callback |-> "none"]
-----------------------------------------------------------------------------
(* BoundedAsyncQueue and the cancel() of the manager.                       *)

\* Wrong: waiting consumers are left waiting when the queue closes.
ClosedQuietly(q) == [q EXCEPT !.closed = TRUE, !.waiter = FALSE]

\* close(): every waiting consumer is resolved with null, the producer is woken.
Closed(q) == [q EXCEPT !.closed = TRUE, !.consumers = <<>>, !.waiter = FALSE]

Full == Len(queue.items) >= setup.policy.capacity

\* cancel(): sets the flag, closes the queue, releases the thermal gate and
\* aborts the requests in flight (an aborted request fails in UploadFails).
CancelTransfer ==
    /\ isCancelled' = TRUE
    /\ queue' = Closed(queue)

\* The thermal controller is cancelled by cancel() and by the teardown.
ThermalCancelled == isCancelled \/ main \in {"closing", "idle"}

\* The body of push once there is room: a waiting consumer gets the file
\* directly, otherwise it is queued.
Deliver(f) ==
    IF queue.consumers # <<>>
    THEN /\ worker' = [worker EXCEPT ![Head(queue.consumers)] =
                          [Idle EXCEPT !.pc = "gate", !.item = f]]
         /\ queue' = [queue EXCEPT !.consumers = Tail(@)]
    ELSE /\ queue' = [queue EXCEPT !.items = Append(@, f)]
         /\ UNCHANGED worker
-----------------------------------------------------------------------------
(* The main function up to the pipeline.                                    *)

\* beginTransfer, the first thermal reading, the diagnostics and the ping
\* succeed and the pipeline starts: in streaming mode the workers start with
\* the producer, in prepare-first mode after it.
StartPipeline ==
    /\ main = "starting"
    /\ main' = "pipeline"
    /\ producer' = [producer EXCEPT !.pc = "window"]
    /\ worker' = IF Streaming THEN [w \in Workers |-> Started] ELSE worker
    /\ UNCHANGED <<setup, error, fatalError, isCancelled, byUser, isRunning, queue, hot,
                   ready, action, outcome, held, left, acknowledged, planned, report>>

\* The native session cannot begin ("other"), or the receiver does not accept
\* the ping ("fatal", unauthorized).
StartFails ==
    /\ main = "starting"
    /\ main' = "failing"
    /\ error' \in {"other", "fatal"}
    /\ UNCHANGED <<setup, fatalError, isCancelled, byUser, isRunning, producer, queue,
                   worker, hot, ready, action, outcome, held, left, acknowledged, planned, report>>
-----------------------------------------------------------------------------
(* The producer.                                                            *)

\* The result of producer(): in streaming mode the queue is closed; in
\* prepare-first mode a complete preparation starts enqueuePreparedWindows and
\* the workers.
FinishProducer(completed) ==
    IF Streaming
    THEN /\ producer' = [producer EXCEPT !.pc = "done", !.files = <<>>, !.preparedAll = completed]
         /\ queue' = Closed(queue)
         /\ UNCHANGED worker
    ELSE IF completed
         THEN /\ producer' = [producer EXCEPT !.pc = "push", !.files = producer.backlog,
                                              !.backlog = <<>>, !.preparedAll = TRUE]
              /\ worker' = [w \in Workers |-> Started]
              /\ UNCHANGED queue
         ELSE /\ producer' = [producer EXCEPT !.pc = "done"]
              /\ UNCHANGED <<queue, worker>>

\* The catch block of producer(): whatever was thrown becomes the fatal error
\* and cancels the whole transfer.
ProducerThrows(kind) ==
    /\ fatalError' = kind
    /\ isCancelled' = TRUE
    /\ queue' = Closed(queue)
    /\ producer' = [producer EXCEPT !.pc = "done", !.files = <<>>]
    /\ UNCHANGED worker

\* The head of the window loop.
NextWindow ==
    /\ producer.pc = "window"
    /\ IF producer.next > Len(Parts)
       THEN FinishProducer(~isCancelled)
       ELSE IF ThermalCancelled
            THEN FinishProducer(FALSE)
            ELSE /\ producer' = [producer EXCEPT !.pc = "prepare"]
                 /\ UNCHANGED <<queue, worker>>
    /\ UNCHANGED <<setup, main, error, fatalError, isCancelled, byUser, isRunning, hot,
                   ready, action, outcome, held, left, acknowledged, planned, report>>

WindowAssets ==
    {a \in Assets : producer.next <= a /\ a < producer.next + setup.policy.window}

\* The components in picker order.
InOrder(S) ==
    LET Before(f, g) == f[1] < g[1] \/ (f[1] = g[1] /\ f[2] < g[2])
    IN [i \in 1..Cardinality(S) |->
          CHOOSE f \in S : Cardinality({g \in S : Before(g, f)}) = i - 1]

\* The native module prepares every component of an asset, the compatibility
\* path one per asset.
NativeComponents == {f \in Files : f[1] \in WindowAssets}
CompatibleComponents == {f \in Files : f[1] \in WindowAssets /\ f[2] = 1}

\* What the preparation of a window can return: each component is reported
\* ready or failed, and of an asset nothing may be reported.
WindowResults ==
    LET components == IF setup.native THEN NativeComponents ELSE CompatibleComponents
    IN {r \in (SUBSET components) \X (SUBSET components) : r[1] \cap r[2] = {}}

\* markPreparationFailure, for each of the items.
MarkPreparationFailures(S) ==
    outcome' = [i \in Items |-> IF i \in S /\ outcome[i] = "none" THEN "unprepared" ELSE outcome[i]]

\* The files of which the deletion may fail: only the native module prepares
\* files of its own.
Undeleted(S) == IF setup.native THEN SUBSET (S \cap Undeletable) ELSE {{}}

\* releasePreparedFile, for each of the files. The call may fail and the native
\* store may be unable to delete the file: both are swallowed, and the file is
\* left to the teardown unless a second release deletes it.
Release(S) ==
    /\ held' = held \ S
    /\ left' \in {T \in Undeleted(left \cup (S \cap held)) : left \ S \subseteq T}

\* prepareAssetWindow resolves: null once cancelled; otherwise the ready files
\* become readyFiles and every failure, that of an asset nothing was reported
\* of included, gets its terminal outcome at once.
PrepareWindow ==
    /\ producer.pc = "prepare"
    /\ IF isCancelled
       THEN /\ FinishProducer(FALSE)
            /\ UNCHANGED <<ready, outcome, held, left>>
       ELSE \E r \in WindowResults :
              LET missing == {<<a, 0>> : a \in {b \in WindowAssets :
                                 \A f \in r[1] \cup r[2] : f[1] # b}}
              IN /\ ready' = ready \cup r[1]
                 /\ held' = held \cup r[1]
                 /\ MarkPreparationFailures(r[2] \cup missing)
                 /\ producer' = [producer EXCEPT !.pc = "check", !.files = InOrder(r[1]),
                                                 !.next = @ + setup.policy.window]
                 /\ UNCHANGED <<queue, worker, left>>
    /\ UNCHANGED <<setup, main, error, fatalError, isCancelled, byUser, isRunning, hot,
                   action, acknowledged, planned, report>>

\* The native preparation rejects.
PrepareThrows ==
    /\ producer.pc = "prepare"
    /\ setup.native
    /\ ProducerThrows("prepare")
    /\ UNCHANGED <<setup, main, error, byUser, isRunning, hot, ready, action, outcome, held, left,
                   acknowledged, planned, report>>

Range(s) == {s[i] : i \in DOMAIN s}

\* Only a native build hashes, and so only there hashing can fail.
Decisions == IF setup.native THEN {"upload", "skip", "unhashed"} ELSE {"upload", "skip"}

\* runDuplicatePreflightWindow resolves. A file to skip and one that could not
\* be hashed are released here; the others are planned for upload. The window
\* is then enqueued (streaming) or kept for later (prepare-first).
CheckWindow ==
    /\ producer.pc = "check"
    /\ \E d \in [Range(producer.files) -> Decisions] :
         LET toUpload == {f \in DOMAIN d : d[f] = "upload"}
         IN /\ action' = [f \in Files |-> IF f \in DOMAIN d THEN d[f] ELSE action[f]]
            /\ planned' = planned + Total(toUpload)
            /\ Release(DOMAIN d \ toUpload)
    /\ producer' = IF Streaming
                   THEN [producer EXCEPT !.pc = "push"]
                   ELSE [producer EXCEPT !.pc = "window", !.files = <<>>,
                                         !.backlog = @ \o producer.files]
    /\ UNCHANGED <<setup, main, error, fatalError, isCancelled, byUser, isRunning, queue,
                   worker, hot, ready, outcome, acknowledged, report>>

\* A preflight request answered 401.
CheckThrows ==
    /\ producer.pc = "check"
    /\ producer.files # <<>>
    /\ ProducerThrows("unauthorized")
    /\ UNCHANGED <<setup, main, error, byUser, isRunning, hot, ready, action, outcome, held, left,
                   acknowledged, planned, report>>

\* The end of the files to push: the next window, or the end of
\* enqueuePreparedWindows, which closes the queue.
PushedAll ==
    /\ producer' = [producer EXCEPT !.pc = IF Streaming THEN "window" ELSE "done",
                                    !.files = <<>>]
    /\ queue' = IF Streaming THEN queue ELSE Closed(queue)
    /\ UNCHANGED worker

\* One iteration of the push loop. A full queue makes the producer wait.
PushFile ==
    /\ producer.pc = "push"
    /\ IF producer.files = <<>> \/ isCancelled
       THEN PushedAll
       ELSE IF Full
            THEN /\ producer' = [producer EXCEPT !.pc = "wait"]
                 /\ queue' = [queue EXCEPT !.waiter = TRUE]
                 /\ UNCHANGED worker
            ELSE /\ Deliver(Head(producer.files))
                 /\ producer' = [producer EXCEPT !.files = Tail(@)]
    /\ UNCHANGED <<setup, main, error, fatalError, isCancelled, byUser, isRunning, hot,
                   ready, action, outcome, held, left, acknowledged, planned, report>>

\* The waiting push resumes. A closed queue makes it throw: the producer's
\* catch block turns that into a fatal error, enqueuePreparedWindows rejects.
ResumePush ==
    /\ producer.pc = "wait"
    /\ ~queue.waiter
    /\ IF queue.closed
       THEN IF Streaming
            THEN ProducerThrows("closed")
            ELSE /\ producer' = [producer EXCEPT !.pc = "rejected", !.files = <<>>]
                 /\ UNCHANGED <<fatalError, isCancelled, queue, worker>>
       ELSE /\ IF Full
               THEN /\ queue' = [queue EXCEPT !.waiter = TRUE]
                    /\ UNCHANGED <<producer, worker>>
               ELSE /\ Deliver(Head(producer.files))
                    /\ producer' = [producer EXCEPT !.pc = "push", !.files = Tail(@)]
            /\ UNCHANGED <<fatalError, isCancelled>>
    /\ UNCHANGED <<setup, main, error, byUser, isRunning, hot, ready, action, outcome, held, left,
                   acknowledged, planned, report>>
-----------------------------------------------------------------------------
(* The upload workers.                                                      *)

\* The head of the worker loop and queue.shift(): taking a file wakes the
\* waiting producer; a closed empty queue ends the worker.
Shift(w) ==
    /\ worker[w].pc = "loop"
    /\ IF isCancelled \/ (queue.items = <<>> /\ queue.closed)
       THEN /\ worker' = [worker EXCEPT ![w] = Finished]
            /\ UNCHANGED queue
       ELSE IF queue.items # <<>>
            THEN /\ worker' = [worker EXCEPT ![w].pc = "gate", ![w].item = Head(queue.items)]
                 /\ queue' = [queue EXCEPT !.items = Tail(@), !.waiter = FALSE]
            ELSE /\ worker' = [worker EXCEPT ![w].pc = "waiting"]
                 /\ queue' = [queue EXCEPT !.consumers = Append(@, w)]
    /\ UNCHANGED <<setup, main, error, fatalError, isCancelled, byUser, isRunning, producer,
                   hot, ready, action, outcome, held, left, acknowledged, planned, report>>

\* shift() resolved with null by close().
ShiftNull(w) ==
    /\ worker[w].pc = "waiting"
    /\ w \notin Range(queue.consumers)
    /\ worker' = [worker EXCEPT ![w] = Finished]
    /\ UNCHANGED <<setup, main, error, fatalError, isCancelled, byUser, isRunning, producer,
                   queue, hot, ready, action, outcome, held, left, acknowledged, planned, report>>

\* waitForUpload lets this worker through.
GateOpen(w) ==
    ThermalCancelled \/ setup.thermal = "monitor-only" \/ ~hot \/ w = 0

\* TransferOutcomes.begin: the first terminal outcome of an item counts.
Settle(i, result) ==
    outcome' = [outcome EXCEPT ![i] = IF @ = "none" THEN result ELSE @]

\* The worker has a file and passes the thermal gate: it drops it when the
\* transfer was cancelled, settles what the preflight decided, or uploads.
TakeFile(w) ==
    LET f == worker[w].item IN
    /\ worker[w].pc = "gate"
    /\ GateOpen(w)
    /\ IF ThermalCancelled
       THEN /\ worker' = [worker EXCEPT ![w] = Finished]
            /\ UNCHANGED <<outcome, held, left>>
       ELSE IF action[f] = "upload"
            THEN /\ worker' = [worker EXCEPT ![w].pc = IF setup.native THEN "upload" ELSE "chunk"]
                 /\ UNCHANGED <<outcome, held, left>>
            ELSE /\ Settle(f, IF action[f] = "skip" THEN "skipped" ELSE "failed")
                 /\ Release({f})
                 /\ worker' = [worker EXCEPT ![w] = Started]
    /\ UNCHANGED <<setup, main, error, fatalError, isCancelled, byUser, isRunning, producer,
                   queue, hot, ready, action, acknowledged, planned, report>>

\* A chunk response that is not the last, or a native progress event.
AcknowledgeChunk(w) ==
    /\ worker[w].pc = "upload"
    /\ worker[w].sent < Size - 1
    /\ worker' = [worker EXCEPT ![w].sent = @ + 1, ![w].attempt = 0,
                                ![w].pc = IF setup.native THEN "upload" ELSE "chunk"]
    /\ acknowledged' = acknowledged + 1
    /\ UNCHANGED <<setup, main, error, fatalError, isCancelled, byUser, isRunning, producer,
                   queue, hot, ready, action, outcome, held, left, planned, report>>

\* The upload succeeds: the last compatibility chunk is answered, or the native
\* call resolves and its byte count is reconciled. The receiver may report a
\* duplicate found at finalization.
UploadDone(w) ==
    LET f == worker[w].item IN
    /\ worker[w].pc = "upload"
    /\ setup.native \/ worker[w].sent = Size - 1
    /\ acknowledged' = acknowledged + (Size - worker[w].sent)
    /\ \E result \in {"saved", "skipped"} : Settle(f, result)
    /\ Release({f})
    /\ worker' = [worker EXCEPT ![w] = Started]
    /\ UNCHANGED <<setup, main, error, fatalError, isCancelled, byUser, isRunning, producer,
                   queue, hot, ready, action, planned, report>>

\* Wrong: the file stays planned.
PlanKept(remainder) == planned

\* Wrong: the bytes that were acknowledged leave the plan, too.
PlanWithoutFile(remainder) == planned - Size

\* The planned bytes after a failed upload: only the unacknowledged remainder
\* of the file leaves the plan.
PlanWithout(remainder) ==
    IF planned - remainder >= acknowledged THEN planned - remainder ELSE acknowledged

\* Wrong: the prepared file is not released.
UploadThrowsHolding(w) ==
    LET f == worker[w].item IN
    /\ UNCHANGED <<held, left>>
    /\ IF isCancelled
       THEN /\ worker' = [worker EXCEPT ![w] = Finished]
            /\ UNCHANGED <<outcome, planned>>
       ELSE /\ worker' = [worker EXCEPT ![w] = Started]
            /\ Settle(f, "failed")
            /\ planned' = PlanWithout(Size - worker[w].sent)

\* The catch and finally blocks of an upload that threw anything but 401: once
\* cancelled the worker leaves without an outcome, otherwise the file failed.
UploadThrows(w) ==
    LET f == worker[w].item IN
    /\ Release({f})
    /\ IF isCancelled
       THEN /\ worker' = [worker EXCEPT ![w] = Finished]
            /\ UNCHANGED <<outcome, planned>>
       ELSE /\ worker' = [worker EXCEPT ![w] = Started]
            /\ Settle(f, "failed")
            /\ planned' = PlanWithout(Size - worker[w].sent)

\* The compatibility loop passes the thermal gate before every chunk.
BeginChunk(w) ==
    /\ worker[w].pc = "chunk"
    /\ GateOpen(w)
    /\ IF ThermalCancelled
       THEN UploadThrows(w)
       ELSE /\ worker' = [worker EXCEPT ![w].pc = "upload"]
            /\ UNCHANGED <<outcome, held, left, planned>>
    /\ UNCHANGED <<setup, main, error, fatalError, isCancelled, byUser, isRunning, producer,
                   queue, hot, ready, action, acknowledged, report>>

\* A request is refused, unreadable, timed out, aborted by cancel() or lost.
\* retryChunkRequest tries a temporary failure again after a delay; the native
\* uploader retries by itself and only reports the end.
UploadFails(w) ==
    /\ worker[w].pc = "upload"
    /\ UploadThrows(w)
    /\ UNCHANGED <<setup, main, error, fatalError, isCancelled, byUser, isRunning, producer,
                   queue, hot, ready, action, acknowledged, report>>

RetryChunk(w) ==
    /\ worker[w].pc = "upload"
    /\ ~setup.native
    /\ worker[w].attempt < MaxRetries
    /\ ~isCancelled
    /\ worker' = [worker EXCEPT ![w].pc = "backoff", ![w].attempt = @ + 1]
    /\ UNCHANGED <<setup, main, error, fatalError, isCancelled, byUser, isRunning, producer,
                   queue, hot, ready, action, outcome, held, left, acknowledged, planned, report>>

\* The delay is over: a cancelled transfer sends nothing more.
BackoffOver(w) ==
    /\ worker[w].pc = "backoff"
    /\ IF isCancelled
       THEN UploadThrows(w)
       ELSE /\ worker' = [worker EXCEPT ![w].pc = "upload"]
            /\ UNCHANGED <<outcome, held, left, planned>>
    /\ UNCHANGED <<setup, main, error, fatalError, isCancelled, byUser, isRunning, producer,
                   queue, hot, ready, action, acknowledged, report>>

\* The receiver no longer accepts the credentials: fatal for the whole transfer.
UploadUnauthorized(w) ==
    /\ worker[w].pc = "upload"
    /\ fatalError' = "unauthorized"
    /\ CancelTransfer
    /\ worker' = [worker EXCEPT ![w] = Finished]
    /\ Release({worker[w].item})
    /\ UNCHANGED <<setup, main, error, byUser, isRunning, producer, hot, ready, action,
                   outcome, acknowledged, planned, report>>
-----------------------------------------------------------------------------
(* The end of the transfer.                                                 *)

WorkersDone == \A w \in Workers : worker[w].pc \in {"off", "done"}

\* runTransferPipeline settles: everything it awaits has resolved, or
\* enqueuePreparedWindows rejected and Promise.all does not wait for the workers.
PipelineSettles ==
    /\ main = "pipeline"
    /\ \/ producer.pc = "rejected"
       \/ producer.pc = "done" /\ WorkersDone
    /\ IF producer.pc = "rejected"
       THEN main' = "failing" /\ error' = "other"
       ELSE IF fatalError # "none"
            THEN main' = "failing" /\ error' = "fatal"
            ELSE IF ~producer.preparedAll
                 THEN main' = "failing" /\ error' = IF isCancelled THEN "cancelled" ELSE "fatal"
                 ELSE main' = "finishing" /\ UNCHANGED error
    /\ queue' = IF producer.pc = "rejected" THEN Closed(queue) ELSE queue
    /\ UNCHANGED <<setup, fatalError, isCancelled, byUser, isRunning, producer, worker, hot,
                   ready, action, outcome, held, left, acknowledged, planned, report>>

Represented(a) == \E i \in Items : i[1] = a /\ (i \in ready \/ outcome[i] = "unprepared")

Count(result) == Cardinality({i \in Items : outcome[i] = result})
Larger(a, b) == IF a > b THEN a ELSE b

\* What onComplete and the history are given.
Summary ==
    [expandedFiles |-> Cardinality(ready) + Count("unprepared"),
     uploadedFiles |-> Count("saved"),
     skippedFiles  |-> Count("skipped"),
     failedFiles   |-> Count("failed") + Count("unprepared")]

\* What onError is given: whatever was not uploaded or skipped failed.
FatalSummary ==
    [Summary EXCEPT !.failedFiles =
       Larger(@, Larger(Len(Parts), Summary.expandedFiles)
                   - Summary.uploadedFiles - Summary.skippedFiles)]

\* finishPreparation has run.
PreparationComplete == producer.preparedAll

\* What onProgress is given of bytes and files; the totals are known once the
\* preparation is complete.
ProgressFor ==
    [bytesSent    |-> acknowledged,
     totalBytes   |-> IF PreparationComplete THEN planned ELSE 0,
     currentIndex |-> Cardinality({i \in Items : outcome[i] # "none"}),
     totalFiles   |-> IF PreparationComplete THEN Summary.expandedFiles ELSE Len(Parts)]

\* Assets without any outcome are marked failed, and the completion status is
\* fixed before the diagnostics, the history and the log are awaited.
DecideStatus ==
    /\ main = "finishing"
    /\ main' = "reporting"
    /\ MarkPreparationFailures(IF isCancelled THEN {}
                               ELSE {i \in Items : i[2] = 0 /\ ~Represented(i[1])})
    /\ LET failed == \E i \in Items : outcome'[i] \in {"failed", "unprepared"}
           status == IF isCancelled THEN "cancelled" ELSE IF failed THEN "mixed" ELSE "completed"
       IN report' = [report EXCEPT !.diagnostics = status, !.history = status]
    /\ UNCHANGED <<setup, error, fatalError, isCancelled, byUser, isRunning, producer, queue,
                   worker, hot, ready, action, held, left, acknowledged, planned>>

\* onComplete, unless the transfer was cancelled meanwhile.
ReportCompletion ==
    /\ main = "reporting"
    /\ main' = "closing"
    /\ report' = [report EXCEPT !.callback = IF isCancelled THEN @ ELSE "complete"]
    /\ UNCHANGED <<setup, error, fatalError, isCancelled, byUser, isRunning, producer, queue,
                   worker, hot, ready, action, outcome, held, left, acknowledged, planned>>

\* The catch block closes the diagnostics first.
CloseDiagnostics ==
    /\ main = "failing"
    /\ main' = "recording"
    /\ report' = [report EXCEPT !.diagnostics =
                      IF isCancelled /\ error # "fatal" THEN "cancelled" ELSE "fatal"]
    /\ UNCHANGED <<setup, error, fatalError, isCancelled, byUser, isRunning, producer, queue,
                   worker, hot, ready, action, outcome, held, left, acknowledged, planned>>

\* Only a cancellation that is not fatal reaches the history.
RecordFailure ==
    /\ main = "recording"
    /\ main' = "explaining"
    /\ report' = [report EXCEPT !.history =
                      IF isCancelled /\ error # "fatal" THEN "cancelled" ELSE @]
    /\ UNCHANGED <<setup, error, fatalError, isCancelled, byUser, isRunning, producer, queue,
                   worker, hot, ready, action, outcome, held, left, acknowledged, planned>>

\* onError with a summary, unless this is a plain cancellation.
ReportFailure ==
    /\ main = "explaining"
    /\ main' = "closing"
    /\ report' = [report EXCEPT !.callback = IF isCancelled /\ error # "fatal" THEN @ ELSE "error"]
    /\ UNCHANGED <<setup, error, fatalError, isCancelled, byUser, isRunning, producer, queue,
                   worker, hot, ready, action, outcome, held, left, acknowledged, planned>>

\* The finally block: endTransfer deletes every file of the native session that
\* it can (the rest goes when the app starts again), and the manager accepts a
\* new transfer.
Teardown ==
    /\ main = "closing"
    /\ main' = "idle"
    /\ queue' = Closed(queue)
    /\ held' = {}
    /\ left' \in Undeleted(held \cup left)
    /\ isRunning' = FALSE
    /\ UNCHANGED <<setup, error, fatalError, isCancelled, byUser, producer, worker, hot, ready,
                   action, outcome, acknowledged, planned, report>>
-----------------------------------------------------------------------------
(* The environment.                                                         *)

\* The user cancels, or leaves the transfer screen.
UserCancels ==
    /\ isRunning
    /\ ~byUser
    /\ byUser' = TRUE
    /\ CancelTransfer
    /\ UNCHANGED <<setup, main, error, fatalError, isRunning, producer, worker, hot, ready,
                   action, outcome, held, left, acknowledged, planned, report>>

\* A thermal event; under monitor-only it has no effect on the transfer.
ThermalChange ==
    /\ isRunning
    /\ setup.thermal = "adaptive"
    /\ hot' = ~hot
    /\ UNCHANGED <<setup, main, error, fatalError, isCancelled, byUser, isRunning, producer,
                   queue, worker, ready, action, outcome, held, left, acknowledged, planned, report>>

MainStep ==
    \/ StartPipeline \/ StartFails
    \/ PipelineSettles \/ DecideStatus \/ ReportCompletion
    \/ CloseDiagnostics \/ RecordFailure \/ ReportFailure \/ Teardown

ProducerStep ==
    \/ NextWindow \/ PrepareWindow \/ PrepareThrows
    \/ CheckWindow \/ CheckThrows
    \/ PushFile \/ ResumePush

WorkerStep(w) ==
    \/ Shift(w) \/ ShiftNull(w) \/ TakeFile(w)
    \/ BeginChunk(w) \/ AcknowledgeChunk(w) \/ UploadDone(w) \/ UploadFails(w)
    \/ RetryChunk(w) \/ BackoffOver(w) \/ UploadUnauthorized(w)

Next ==
    \/ MainStep
    \/ ProducerStep
    \/ \E w \in Workers : WorkerStep(w)
    \/ UserCancels
    \/ ThermalChange

Spec == Init /\ [][Next]_vars

\* Every pending promise settles: requests have a timeout, native calls return,
\* and the event loop serves every ready callback. The user need not cancel and
\* the phone need not cool down.
FairSpec ==
    /\ Spec
    /\ WF_vars(MainStep)
    /\ WF_vars(ProducerStep)
    /\ \A w \in Workers : WF_vars(WorkerStep(w))
-----------------------------------------------------------------------------
(* Properties.                                                              *)

Busy(w) == worker[w].pc \in {"gate", "chunk", "upload", "backoff"}

InHand == {worker[w].item : w \in {v \in Workers : Busy(v)}}

\* The state stays within its types and the ready queue within its capacity.
TypeOK ==
    /\ main \in {"starting", "pipeline", "finishing", "reporting", "failing", "recording",
                  "explaining", "closing", "idle"}
    /\ error \in {"none", "other", "fatal", "cancelled"}
    /\ fatalError \in {"none", "prepare", "closed", "unauthorized"}
    /\ {isCancelled, byUser, isRunning, hot} \subseteq BOOLEAN
    /\ producer.pc \in {"off", "window", "prepare", "check", "push", "wait", "rejected", "done"}
    /\ producer.files \in Seq(Files) /\ producer.backlog \in Seq(Files)
    /\ queue.items \in Seq(Files) /\ Len(queue.items) <= setup.policy.capacity
    /\ queue.consumers \in Seq(Workers)
    /\ \A w \in Workers :
         /\ worker[w].pc \in {"off", "loop", "waiting", "gate", "chunk", "upload", "backoff", "done"}
         /\ worker[w].item \in Files \cup {None}
         /\ worker[w].sent \in 0..Size /\ worker[w].attempt \in 0..MaxRetries
    /\ ready \subseteq Files /\ held \cup left \subseteq ready
    /\ outcome \in [Items -> {"none", "saved", "skipped", "failed", "unprepared"}]

\* A file that was not released is in one pair of hands while the pipeline
\* works on it: waiting to be pushed, in the queue, or with a worker. Nothing
\* terminal is retained, so the storage a streaming transfer needs is one
\* window, the queue and one file per worker, and what could not be deleted. No file is uploaded twice:
\* what a worker holds is with no other worker, not queued and not still to be
\* pushed. In streaming mode the prepared file of an upload is released only
\* after the upload, and an idle manager has no worker or producer of the old
\* transfer left. (In prepare-first mode Promise.all does not wait for the
\* workers when a waiting push is rejected.)
HeldIsOwned ==
    /\ TypeOK
    /\ (main = "pipeline" /\ ~isCancelled) =>
          held \subseteq Range(producer.files) \cup Range(producer.backlog)
                         \cup Range(queue.items) \cup InHand
    /\ \A w \in Workers : Busy(w) =>
          /\ \A v \in Workers \ {w} : Busy(v) => worker[v].item # worker[w].item
          /\ worker[w].item \notin Range(queue.items) \cup Range(producer.files)
                                   \cup Range(producer.backlog)
    /\ Streaming =>
          /\ ~isRunning => WorkersDone /\ producer.pc \in {"off", "done"}
          /\ \A w \in Workers : worker[w].pc \in {"chunk", "upload", "backoff"} =>
                worker[w].item \in held \ left

Reported(s) == s.uploadedFiles + s.skippedFiles + s.failedFiles

\* What onComplete reports is whole: its three counts add up to the files, every
\* prepared file has an outcome, every selected asset is represented by a file
\* or by a failure, every prepared file was released (one that could not be
\* deleted is all that is left to the teardown), and the acknowledged bytes have
\* met the plan, whatever failed on the way. The counts
\* of onError add up as well, wherever the transfer stopped.
CompletionAccounts ==
    /\ report.callback = "error" =>
         Reported(FatalSummary) = Larger(Len(Parts), Summary.expandedFiles)
    /\ report.callback = "complete" =>
       /\ Reported(Summary) = Summary.expandedFiles
       /\ \A f \in ready : outcome[f] \in {"saved", "skipped", "failed"}
       /\ \A a \in Assets : Represented(a)
       /\ held = {}
       /\ acknowledged = planned

\* The progress bar never passes its end: acknowledged bytes stay within the
\* plan although failures shrink the plan while other uploads go on, and once
\* the totals are shown neither bytes nor files exceed them.
ProgressWithinPlan ==
    /\ acknowledged <= planned
    /\ PreparationComplete => /\ ProgressFor.bytesSent <= ProgressFor.totalBytes
                              /\ ProgressFor.currentIndex <= ProgressFor.totalFiles

\* Every transfer ends, with every worker gone, whatever fails and whenever it
\* is cancelled: no wake-up of the queue is lost. Under the adaptive policy a
\* phone that stays hot may pause a worker for ever.
TransferEnds ==
    (setup.thermal = "monitor-only") ~> (main = "idle" /\ WorkersDone)

\* A transfer whose pipeline started and that ended by nothing but the user's
\* cancellation leaves a record in the history. (A push rejected because
\* cancel() closed the queue is the cancellation, not a failure of its own.)
CancellationIsRecorded ==
    (~isRunning /\ byUser /\ producer.pc # "off" /\ fatalError \in {"none", "closed"})
       => report.history # "none"
=============================================================================
