--------------------------- MODULE TransferScreen ---------------------------
(***************************************************************************)
(* The transfer screen of the iPhone app (useTransferController,           *)
(* QueueNotice and useTransferMetrics): it starts the upload manager,       *)
(* collects the callbacks of the manager in refs, renders them at most      *)
(* every 100 ms, delays the notice that the queue is full, and must be      *)
(* silent once it has finished, was cancelled or is unmounted.              *)
(*                                                                          *)
(* The upload manager is seen through its callbacks; TransferPipeline       *)
(* models it. A definition marked "Wrong:" belongs to no specification: it  *)
(* is an operation with a mistake that one of the properties excludes.      *)
(***************************************************************************)
EXTENDS Integers, FiniteSets

CONSTANT Parts   \* the transfer entries each asset expands to

ASSUME PartsAssumption == \A a \in DOMAIN Parts : Parts[a] \in Nat \ {0}

VARIABLES
    assets,      \* the selected assets
    manager,     \* off, refused (another transfer runs), preparing, sending, over
    screen,      \* none, active, left
    outcome,     \* running, complete, fatal, cancelled
    statusById,  \* statusById and resultById
    counts,      \* summaryRef
    dirty,       \* fileUiDirty
    pending,     \* pendingProgress
    uiTimer,
    observed,    \* actualUploadObserved
    notice,      \* the QueueNotice
    metrics,     \* useTransferMetrics: its timer, and what its refs say
    shown        \* the React state: summary, total, phase, eta and results

screenVars == <<assets, manager, screen, outcome, statusById, counts, dirty, pending, uiTimer,
                observed, notice, metrics, shown>>
-----------------------------------------------------------------------------
Terminal == {"success", "skipped", "error"}
Activities == {"preparing", "checking", "waiting", "complete"}
NoProgress == [activity |-> "none", sent |-> FALSE]
Greater(a, b) == IF a > b THEN a ELSE b

\* An entry has an itemId of its own, also the only entry of an asset; the id
\* of the asset itself is entry 0.
ItemsOf(S) == UNION {{<<a, i>> : i \in 1..Parts[a]} : a \in S}
Items == ItemsOf(assets)

Zero == [s \in Terminal |-> 0]
StatusOf(id) == IF id \in DOMAIN statusById THEN statusById[id] ELSE "none"
With(statuses, ids, s) ==
    [id \in DOMAIN statuses \cup ids |-> IF id \in ids THEN s ELSE statuses[id]]

ScreenInit ==
    /\ assets = {} /\ manager = "off" /\ screen = "none" /\ outcome = "running"
    /\ statusById = <<>> /\ counts = Zero /\ dirty = FALSE
    /\ pending = NoProgress /\ uiTimer = FALSE /\ observed = FALSE
    /\ notice = [waiting |-> FALSE, shown |-> FALSE, show |-> FALSE, hide |-> FALSE]
    /\ metrics = [timer |-> FALSE, final |-> FALSE]
    /\ shown = [summary |-> Zero, total |-> 0, phase |-> "preparing", eta |-> "calculating",
                results |-> <<>>]

\* Wrong: a screen that has finished goes on listening until it is unmounted.
ListeningUntilLeft == screen = "active"

\* isActive() && !finished
Listening == screen = "active" /\ outcome = "running"

\* The effect of a fresh screen; uploadFilesConcurrent refuses while an earlier
\* transfer is still being cancelled.
Mount(S) ==
    /\ screen = "none"
    /\ screen' = "active"
    /\ assets' = S
    /\ manager' \in {"preparing", "refused"}
    /\ metrics' = [timer |-> TRUE, final |-> FALSE]
    /\ shown' = [shown EXCEPT !.total = Cardinality(S)]
    /\ UNCHANGED <<outcome, statusById, counts, dirty, pending, uiTimer, observed, notice>>
-----------------------------------------------------------------------------
(* QueueNotice: shown after a second of waiting, hidden 750 ms after it.    *)

Update(n, waiting, started) ==
    IF waiting
    THEN [n EXCEPT !.waiting = TRUE, !.hide = FALSE, !.show = @ \/ (started /\ ~n.shown)]
    ELSE [n EXCEPT !.waiting = FALSE, !.show = FALSE, !.hide = @ \/ n.shown]

Dispose(n) == [n EXCEPT !.show = FALSE, !.hide = FALSE]

ShowTimer ==
    /\ notice.show
    /\ notice' = [notice EXCEPT !.show = FALSE,
                                !.shown = @ \/ (Listening /\ notice.waiting /\ observed)]
    /\ UNCHANGED <<assets, manager, screen, outcome, statusById, counts, dirty, pending, uiTimer,
                   observed, metrics, shown>>

HideTimer ==
    /\ notice.hide
    /\ notice' = [notice EXCEPT !.hide = FALSE, !.shown = @ /\ (~Listening \/ notice.waiting)]
    /\ UNCHANGED <<assets, manager, screen, outcome, statusById, counts, dirty, pending, uiTimer,
                   observed, metrics, shown>>

\* The first upload that is observed starts the notice of a queue that already
\* waits.
ObserveUpload(started) ==
    /\ observed' = (observed \/ started)
    /\ notice' = IF started /\ ~observed /\ notice.waiting THEN Update(notice, TRUE, TRUE)
                 ELSE notice
-----------------------------------------------------------------------------
(* Rendering.                                                               *)

\* applyProgress: what the latest progress makes of the screen.
Applied(s, p) ==
    IF p = NoProgress THEN s
    ELSE [s EXCEPT !.phase = IF p.activity = "complete" THEN "uploading" ELSE p.activity,
                   !.total = Greater(@, IF p.activity = "complete" THEN Cardinality(Items)
                                        ELSE Cardinality(assets))]

\* flushUi: the latest progress and, if a file changed, the counts.
Flushed(s, changed, c) ==
    LET t == Applied(s, pending) IN IF changed THEN [t EXCEPT !.summary = c] ELSE t

\* The timer of scheduleUiFlush. All there is to render is rendered, so it is
\* not scheduled again.
UiTimer ==
    /\ uiTimer
    /\ uiTimer' = FALSE
    /\ IF Listening
       THEN /\ shown' = Flushed(shown, dirty, counts)
            /\ notice' = IF pending = NoProgress THEN notice
                         ELSE Update(notice, pending.activity = "waiting", observed)
            /\ pending' = NoProgress /\ dirty' = FALSE
       ELSE UNCHANGED <<shown, notice, pending, dirty>>
    /\ UNCHANGED <<assets, manager, screen, outcome, statusById, counts, observed, metrics>>

\* The timer of useTransferMetrics, every second.
MetricsTimer ==
    /\ metrics.timer /\ Listening
    /\ shown' = [shown EXCEPT !.eta = IF metrics.final THEN "estimate" ELSE "calculating"]
    /\ UNCHANGED <<assets, manager, screen, outcome, statusById, counts, dirty, pending, uiTimer,
                   observed, notice, metrics>>
-----------------------------------------------------------------------------
(* The callbacks of the upload manager. It goes on for a while after it was *)
(* cancelled, so a callback may come late.                                  *)

Running == manager \in {"preparing", "sending"}

\* The estimate starts when the final size is known.
ObserveMetrics(p) == metrics' = [metrics EXCEPT !.final = @ \/ p.activity = "complete"]

\* onProgress: only the latest progress is kept. Preparation completes once.
OnProgress(activity, sent) ==
    /\ Running
    /\ manager = "sending" => activity = "complete"
    /\ manager' = IF activity = "complete" THEN "sending" ELSE manager
    /\ IF Listening
       THEN /\ ObserveMetrics([activity |-> activity, sent |-> sent])
            /\ ObserveUpload(sent)
            /\ pending' = [activity |-> activity, sent |-> sent]
            /\ uiTimer' = TRUE
       ELSE UNCHANGED <<metrics, observed, notice, pending, uiTimer>>
    /\ UNCHANGED <<assets, screen, outcome, statusById, counts, dirty, shown>>

\* The statuses the manager gives an entry after one another.
NextStatuses(s) ==
    CASE s = "none" -> {"uploading", "skipped", "error"}
      [] s = "uploading" -> Terminal
      [] OTHER -> {}

Count(previous, s) ==
    IF s \in Terminal /\ previous \notin Terminal THEN [counts EXCEPT ![s] = @ + 1] ELSE counts

\* onFileStatusChange
UpdateFileStatus(i, s) ==
    /\ Running
    /\ s \in NextStatuses(StatusOf(i))
    /\ IF Listening
       THEN /\ ObserveUpload(s = "uploading")
            /\ statusById' = With(statusById, {i}, s)
            /\ shown' = [shown EXCEPT !.total = Greater(@, Cardinality(DOMAIN statusById'))]
            /\ counts' = Count(StatusOf(i), s)
            /\ dirty' = TRUE
            /\ uiTimer' = TRUE
       ELSE UNCHANGED <<statusById, counts, observed, notice, shown, dirty, uiTimer>>
    /\ UNCHANGED <<assets, manager, screen, outcome, pending, metrics>>

\* Wrong: what was still to be rendered is dropped with the timer.
FinishUnflushed(end, changed, summary) ==
    /\ outcome' = end
    /\ uiTimer' = FALSE
    /\ metrics' = [metrics EXCEPT !.timer = FALSE]
    /\ notice' = Dispose(notice)
    /\ shown' = [shown EXCEPT !.results = statusById', !.eta = "done"]
    /\ pending' = NoProgress /\ dirty' = FALSE

\* finish: the timers are stopped and everything is rendered a last time. The
\* notice no longer changes.
Finish(end, changed, summary) ==
    /\ outcome' = end
    /\ uiTimer' = FALSE
    /\ metrics' = [metrics EXCEPT !.timer = FALSE]
    /\ notice' = Dispose(notice)
    /\ shown' = LET s == Flushed(shown, changed, counts')
                IN [s EXCEPT !.results = statusById', !.eta = "done",
                             !.total = IF summary THEN Greater(@, Cardinality(Items)) ELSE @]
    /\ pending' = NoProgress /\ dirty' = FALSE

\* onComplete, for which all entries are settled.
OnComplete ==
    /\ manager = "sending"
    /\ Listening => \A i \in Items : StatusOf(i) \in Terminal
    /\ manager' = "over"
    /\ UNCHANGED <<statusById, counts>>
    /\ IF Listening
       THEN Finish("complete", dirty, TRUE)
       ELSE UNCHANGED <<outcome, uiTimer, metrics, notice, shown, pending, dirty>>
    /\ UNCHANGED <<assets, screen, observed>>

\* reportFatalError with markUnfinishedAsFailed, which looks for the id of each
\* asset, not for the itemId of its entries. The manager also calls it at once
\* when it refuses to start, then without a summary.
ReportFatalError ==
    /\ Running \/ manager = "refused"
    /\ manager' = "over"
    /\ IF Listening
       THEN LET unfinished == {id \in {<<a, 0>> : a \in assets} : StatusOf(id) \notin Terminal}
            IN /\ statusById' = With(statusById, unfinished, "error")
               /\ counts' = [counts EXCEPT !["error"] = @ + Cardinality(unfinished)]
               /\ Finish("fatal", TRUE, manager # "refused")
       ELSE UNCHANGED <<statusById, counts, outcome, uiTimer, metrics, notice, shown, pending,
                        dirty>>
    /\ UNCHANGED <<assets, screen, observed>>

\* cancelTransfer: silent from now on, before the screen is unmounted.
CancelTransfer ==
    /\ Listening
    /\ outcome' = "cancelled"
    /\ uiTimer' = FALSE
    /\ metrics' = [metrics EXCEPT !.timer = FALSE]
    /\ notice' = Dispose(notice)
    /\ UNCHANGED <<assets, manager, screen, statusById, counts, dirty, pending, observed, shown>>

\* Done, the navigation after a cancellation, or the loss of the pairing: the
\* effect is cleaned up and the manager cancelled.
Unmount ==
    /\ screen = "active"
    /\ screen' = "left"
    /\ pending' = NoProgress /\ uiTimer' = FALSE
    /\ metrics' = [metrics EXCEPT !.timer = FALSE]
    /\ notice' = Dispose(notice)
    /\ UNCHANGED <<assets, manager, outcome, statusById, counts, dirty, observed, shown>>
-----------------------------------------------------------------------------
ScreenTimer == ShowTimer \/ HideTimer \/ UiTimer \/ MetricsTimer

ScreenNext ==
    \/ ScreenTimer \/ OnComplete \/ ReportFatalError \/ CancelTransfer \/ Unmount
    \/ \E activity \in Activities, sent \in BOOLEAN : OnProgress(activity, sent)
    \/ \E i \in Items, s \in Terminal \cup {"uploading"} : UpdateFileStatus(i, s)
-----------------------------------------------------------------------------
\* The screen has finished, was cancelled or is gone.
Ended == screen # "active" \/ outcome # "running"

\* Every variable keeps the type it has in the code.
ScreenTypeOK ==
    /\ manager \in {"off", "refused", "preparing", "sending", "over"}
    /\ screen \in {"none", "active", "left"}
    /\ outcome \in {"running", "complete", "fatal", "cancelled"}
    /\ DOMAIN statusById \subseteq Items \cup {<<a, 0>> : a \in assets}
    /\ {dirty, uiTimer, observed} \subseteq BOOLEAN
    /\ shown.total \in Cardinality(assets)..Cardinality(Items)

\* Each settled entry is counted once, and what a finished screen shows is the
\* whole of it: its counts are those of its results, although rendering runs
\* behind the callbacks (updateFileStatus, finish). After a fatal error every
\* asset is among the failures, also one whose entries were uploaded. Nothing
\* waits to be rendered without a timer that will render it, and no timer is
\* left once the screen has finished, was cancelled or is gone
\* (scheduleUiFlush, cancelTransfer, the clean-up of the effect). The notice
\* that the transfer is catching up is shown only after an upload was seen.
ResultsAddUp ==
    /\ ScreenTypeOK
    /\ \A s \in Terminal : counts[s] = Cardinality({id \in DOMAIN statusById : statusById[id] = s})
    /\ outcome \in {"complete", "fatal"} => shown.summary = counts /\ shown.results = statusById
    /\ outcome = "complete" => Items = DOMAIN shown.results /\ shown.total = Cardinality(Items)
    /\ ~Ended /\ (dirty \/ pending # NoProgress) => uiTimer
    /\ Ended => ~uiTimer /\ ~notice.show /\ ~notice.hide /\ ~metrics.timer
    /\ notice.shown \/ notice.show => observed
    /\ notice.hide => notice.shown /\ ~notice.waiting
    /\ shown.eta = "estimate" => manager \in {"sending", "over"}

\* A screen that has finished, was cancelled or is gone shows what it showed,
\* whatever callbacks of the upload manager come late; until then the number of
\* files and of settled files never goes down.
QuietAfterEnd ==
    [][/\ Ended => UNCHANGED <<statusById, counts, notice.shown>>
       /\ Ended /\ screen = "active" => UNCHANGED shown
       /\ screen = "active" => /\ shown'.total >= shown.total
                               /\ \A s \in Terminal : shown'.summary[s] >= shown.summary[s]]_screenVars
=============================================================================
