------------------------- MODULE DiagnosticReports -------------------------
(***************************************************************************)
(* The diagnostic reports of the iPhone app (TransferDiagnostics and        *)
(* DiagnosticStorage): a transfer collects a report in memory and writes it *)
(* to the phone at its start, at checkpoints and at its end, with one write *)
(* at a time; Settings lists the reports, and both prune the directory.     *)
(* Every await on the file system is a step of its own, may fail, and may   *)
(* be the last one before the app is killed.                                *)
(*                                                                          *)
(* A report is the windows it covers, the other things noted in it and      *)
(* whether it is final. A transfer is its number: a later one has the later *)
(* modification time. A definition marked "Wrong:" belongs to no            *)
(* specification: it is an operation with a mistake that one of the         *)
(* properties excludes.                                                     *)
(***************************************************************************)
EXTENDS Integers, Sequences, FiniteSets

CONSTANTS
    MaxReports,    \* MAX_REPORTS
    MaxTotalBytes, \* MAX_TOTAL_BYTES
    Bytes,         \* the size of the report of each transfer
    PersistInterval, \* WINDOW_PERSIST_INTERVAL
    Entries,       \* bound: the windows and notes each transfer adds to its report
    MaxMishaps,    \* bound: file operations that fail and times the app is killed
    MaxLists       \* bound: times Settings is opened

ASSUME ReportAssumption ==
    /\ Bytes \in Seq(Nat \ {0}) /\ Entries \in [DOMAIN Bytes -> Nat]
    /\ {MaxReports, MaxTotalBytes, PersistInterval} \subseteq Nat \ {0}

VARIABLES
    session,   \* the number of the last transfer
    progress,  \* idle, starting, running, finishing, ending
    hidden,    \* the user has left the transfer, which still winds down
    report,    \* the report in memory
    revision,
    persistedRevision,
    writeScheduled,
    writer,    \* the write chain: where it is and what it holds
    lister,    \* listDiagnosticReports: where it is and what it holds
    temporary, \* transfer-<session>.json.tmp
    files,     \* transfer-<session>.json
    expired,   \* reports older than MAX_AGE_MS
    synced,    \* history: the last snapshot of each transfer whose write returned
    disturbed, \* history: an operation on the files of this transfer went wrong
    pruneDue,  \* history: a report was added and the prune after it did not end
    killed,    \* history: transfers that were killed with the app
    mishaps, lists

reportVars == <<session, progress, hidden, report, revision, persistedRevision, writeScheduled,
                writer, lister, temporary, files, expired, synced, disturbed, pruneDue, killed,
                mishaps, lists>>
memory == <<session, progress, hidden, report, revision>>
history == <<synced, disturbed, pruneDue, killed>>
bounds == <<mishaps, lists>>
-----------------------------------------------------------------------------
Sessions == DOMAIN Bytes
NoReport == [windows |-> -1, notes |-> {}, final |-> FALSE]
Partial == [windows |-> -2, notes |-> {}, final |-> FALSE]
EmptyReport == [windows |-> 0, notes |-> {}, final |-> FALSE]
Notes == {"measurements", "totals", "thermal"}
Reports == [windows : Nat, notes : SUBSET Notes, final : BOOLEAN]

NoTask == [pc |-> "idle", target |-> 0, snapshot |-> NoReport, temps |-> {}, names |-> {}, doomed |-> {}]
Present == {s \in Sessions : files[s] # NoReport}

ReportInit ==
    /\ session = 0
    /\ progress = "idle"
    /\ hidden = FALSE
    /\ report = NoReport
    /\ revision = 0
    /\ persistedRevision = 0
    /\ writeScheduled = FALSE
    /\ writer = NoTask
    /\ lister = NoTask
    /\ temporary = [s \in Sessions |-> NoReport]
    /\ files = [s \in Sessions |-> NoReport]
    /\ expired = {}
    /\ synced = [s \in Sessions |-> NoReport]
    /\ disturbed = FALSE
    /\ pruneDue = FALSE
    /\ killed = {}
    /\ mishaps = 0
    /\ lists = 0
-----------------------------------------------------------------------------
(* The transfer. start() and finish() wait for the write chain. After       *)
(* finish() the transfer reports to the receiver and cleans up (ending) with *)
(* the thermal listener still in place.                                      *)
Within == report.windows + Cardinality(report.notes) < Entries[session]

QueueWrite(r) ==
    /\ report' = r
    /\ revision' = revision + 1
    /\ writeScheduled' = TRUE

\* A transfer begins when the last one is over, its late writes included: the
\* user has gone through the picker meanwhile.
BeginReport ==
    /\ progress = "idle"
    /\ session < Len(Bytes)
    /\ session' = session + 1
    /\ progress' = "starting"
    /\ hidden' = FALSE
    /\ report' = EmptyReport
    /\ revision' = 1
    /\ persistedRevision' = 0
    /\ writeScheduled' = TRUE
    /\ disturbed' = FALSE
    /\ UNCHANGED <<writer, lister, temporary, files, expired, synced, pruneDue, killed, bounds>>

ChainSettled == writer.pc = "idle" /\ ~writeScheduled

Begun ==
    /\ progress = "starting"
    /\ ChainSettled
    /\ progress' = "running"
    /\ UNCHANGED <<session, hidden, report, revision, persistedRevision, writeScheduled, writer,
                   lister, temporary, files, expired, history, bounds>>

\* Every window adds its counters in memory; only every PersistInterval-th
\* one writes them.
CheckpointWindow ==
    /\ progress = "running"
    /\ Within
    /\ LET counted == [report EXCEPT !.windows = @ + 1]
       IN IF counted.windows % PersistInterval = 0
          THEN QueueWrite(counted)
          ELSE report' = counted /\ UNCHANGED <<revision, writeScheduled>>
    /\ UNCHANGED <<session, progress, hidden, persistedRevision, writer, lister, temporary, files,
                   expired, history, bounds>>

\* The record... methods that only add to the report: waits, timings,
\* materialization, temporary files and failures. (Noted once: a bound.)
RecordMeasurements ==
    /\ progress = "running"
    /\ Within /\ "measurements" \notin report.notes
    /\ report' = [report EXCEPT !.notes = @ \cup {"measurements"}]
    /\ UNCHANGED <<session, progress, hidden, revision, persistedRevision, writeScheduled, writer,
                   lister, temporary, files, expired, history, bounds>>

\* Those that also write: the first upload, the first acknowledgement, the end
\* of preparation and the totals. (Noted once: a bound.)
UpdateTransfer ==
    /\ progress = "running"
    /\ Within /\ "totals" \notin report.notes
    /\ QueueWrite([report EXCEPT !.notes = @ \cup {"totals"}])
    /\ UNCHANGED <<session, progress, hidden, persistedRevision, writer, lister, temporary, files,
                   expired, history, bounds>>

\* The thermal listener writes too, from before start() until the transfer has
\* cleaned up, also after finish(). (Noted once: a bound.)
RecordThermal ==
    /\ progress # "idle"
    /\ Within /\ "thermal" \notin report.notes
    /\ QueueWrite([report EXCEPT !.notes = @ \cup {"thermal"}])
    /\ UNCHANGED <<session, progress, hidden, persistedRevision, writer, lister, temporary, files,
                   expired, history, bounds>>

FinishReport ==
    /\ progress = "running"
    /\ progress' = "finishing"
    /\ QueueWrite([report EXCEPT !.final = TRUE])
    /\ UNCHANGED <<session, hidden, persistedRevision, writer, lister, temporary, files, expired,
                   history, bounds>>

Finished ==
    /\ progress = "finishing"
    /\ ChainSettled
    /\ progress' = "ending"
    /\ UNCHANGED <<session, hidden, report, revision, persistedRevision, writeScheduled, writer,
                   lister, temporary, files, expired, history, bounds>>

\* The listener is removed, and what it has queued is written.
TransferEnded ==
    /\ progress = "ending"
    /\ ChainSettled
    /\ progress' = "idle"
    /\ UNCHANGED <<session, hidden, report, revision, persistedRevision, writeScheduled, writer,
                   lister, temporary, files, expired, history, bounds>>

\* A cancelled or completed transfer is left at once and winds down behind
\* other screens.
HideTransfer ==
    /\ progress # "idle"
    /\ ~hidden
    /\ hidden' = TRUE
    /\ UNCHANGED <<session, progress, report, revision, persistedRevision, writeScheduled, writer,
                   lister, temporary, files, expired, history, bounds>>
-----------------------------------------------------------------------------
(* The write chain: queueWrite's loop around persistDiagnosticReport.       *)
TakeSnapshot ==
    /\ writeScheduled
    /\ writer.pc = "idle"
    /\ persistedRevision < revision
    /\ writer' = [NoTask EXCEPT !.pc = "clear", !.target = revision, !.snapshot = report]
    /\ UNCHANGED <<memory, persistedRevision, writeScheduled, lister, temporary, files, expired,
                   history, bounds>>

DeleteTemporary ==
    /\ writer.pc = "clear"
    /\ temporary' = [temporary EXCEPT ![session] = NoReport]
    /\ writer' = [writer EXCEPT !.pc = "write"]
    /\ UNCHANGED <<memory, persistedRevision, writeScheduled, lister, files, expired, history, bounds>>

\* Wrong: the write goes to the report itself, without a temporary file.
WriteBeginsInPlace ==
    /\ writer.pc = "write"
    /\ files' = [files EXCEPT ![session] = Partial]
    /\ temporary' = [temporary EXCEPT ![session] = Partial]
    /\ writer' = [writer EXCEPT !.pc = "writing"]
    /\ UNCHANGED <<memory, persistedRevision, writeScheduled, lister, expired, history, bounds>>

WriteBegins ==
    /\ writer.pc = "write"
    /\ temporary' = [temporary EXCEPT ![session] = Partial]
    /\ writer' = [writer EXCEPT !.pc = "writing"]
    /\ UNCHANGED <<memory, persistedRevision, writeScheduled, lister, files, expired, history, bounds>>

\* A file that a listing has deleted meanwhile may stay deleted.
WriteCompletes ==
    /\ writer.pc = "writing"
    /\ \E t \in {temporary[session], writer.snapshot} \ {Partial} :
          temporary' = [temporary EXCEPT ![session] = t]
    /\ writer' = [writer EXCEPT !.pc = "unlink"]
    /\ UNCHANGED <<memory, persistedRevision, writeScheduled, lister, files, expired, history, bounds>>

DeleteDestination ==
    /\ writer.pc = "unlink"
    /\ files' = [files EXCEPT ![session] = NoReport]
    /\ writer' = [writer EXCEPT !.pc = "move"]
    /\ UNCHANGED <<memory, persistedRevision, writeScheduled, lister, temporary, expired, history, bounds>>

MoveTemporary ==
    /\ writer.pc = "move"
    /\ temporary[session] # NoReport
    /\ files' = [files EXCEPT ![session] = temporary[session]]
    /\ temporary' = [temporary EXCEPT ![session] = NoReport]
    /\ writer' = [writer EXCEPT !.pc = "list"]
    /\ pruneDue' = TRUE
    /\ UNCHANGED <<memory, persistedRevision, writeScheduled, lister, expired, synced, disturbed,
                   killed, bounds>>

\* A failed write ends the chain until the next queueWrite; what it should
\* have written is not tried again.
ChainFails ==
    /\ writer' = NoTask
    /\ writeScheduled' = FALSE
    /\ disturbed' = TRUE
    /\ UNCHANGED <<memory, persistedRevision, lister, temporary, files, expired, synced, pruneDue,
                   killed>>

MoveFindsNothing ==
    /\ writer.pc = "move"
    /\ temporary[session] = NoReport
    /\ ChainFails
    /\ UNCHANGED bounds

WriterFault ==
    /\ writer.pc # "idle"
    /\ mishaps < MaxMishaps
    /\ mishaps' = mishaps + 1
    /\ ChainFails
    /\ UNCHANGED lists

\* Wrong: what was queued during the write counts as written.
PersistedAll ==
    /\ writer.pc = "delete"
    /\ writer.doomed = {}
    /\ writer' = NoTask
    /\ persistedRevision' = revision
    /\ writeScheduled' = FALSE
    /\ synced' = [synced EXCEPT ![session] = writer.snapshot]
    /\ pruneDue' = FALSE
    /\ UNCHANGED <<memory, lister, temporary, files, expired, disturbed, killed, bounds>>

\* persistDiagnosticReport has returned: once more if something was queued
\* meanwhile.
Persisted ==
    /\ writer.pc = "delete"
    /\ writer.doomed = {}
    /\ writer' = NoTask
    /\ persistedRevision' = writer.target
    /\ writeScheduled' = (writer.target < revision)
    /\ synced' = [synced EXCEPT ![session] = writer.snapshot]
    /\ pruneDue' = FALSE
    /\ UNCHANGED <<memory, lister, temporary, files, expired, disturbed, killed, bounds>>
-----------------------------------------------------------------------------
(* pruneReports, run by the write chain and by the listing.                 *)
ReadDirectory(actor) ==
    [actor EXCEPT !.pc = "clean", !.names = Present,
                  !.temps = {s \in Sessions : temporary[s] # NoReport}]

\* The size of the reports of S together (retainedBytes).
TotalSize(S) ==
    LET sum[n \in 0..Len(Bytes)] ==
            IF n = 0 THEN 0 ELSE sum[n - 1] + IF n \in S THEN Bytes[n] ELSE 0
    IN sum[Len(Bytes)]

\* What comes before s in the order of pruneReports: the newest is first, and a
\* name whose file is gone has no time and comes after those that are there.
Newer(names, s) ==
    {t \in names : IF t \in Present <=> s \in Present THEN t > s ELSE t \in Present}

\* The reports pruneReports keeps, from the newest on. One that is gone has no
\* size and no age.
Retained(names) ==
    LET InNumber(s) == Cardinality(Newer(names, s)) < MaxReports
        kept[i \in 0..Len(Bytes)] ==
            IF i = 0 THEN {}
            ELSE kept[i - 1] \cup
                 {s \in names \cap Present :
                    /\ s = Len(Bytes) + 1 - i
                    /\ s \notin expired /\ InNumber(s)
                    /\ TotalSize(kept[i - 1]) + Bytes[s] <= MaxTotalBytes}
    IN kept[Len(Bytes)] \cup {s \in names \ Present : InNumber(s)}

GetInfo(actor) == [actor EXCEPT !.pc = "delete", !.doomed = actor.names \ Retained(actor.names)]

WriterPrunes ==
    /\ \/ writer.pc = "list" /\ writer' = ReadDirectory(writer) /\ UNCHANGED <<temporary, files>>
       \/ /\ writer.pc = "clean"
          /\ writer' = [writer EXCEPT !.pc = "info"]
          /\ temporary' = [s \in Sessions |-> IF s \in writer.temps THEN NoReport ELSE temporary[s]]
          /\ UNCHANGED files
       \/ writer.pc = "info" /\ writer' = GetInfo(writer) /\ UNCHANGED <<temporary, files>>
       \/ /\ writer.pc = "delete"
          /\ \E s \in writer.doomed :
                /\ writer' = [writer EXCEPT !.doomed = @ \ {s}]
                /\ files' = [files EXCEPT ![s] = NoReport]
          /\ UNCHANGED temporary
    /\ UNCHANGED <<memory, persistedRevision, writeScheduled, lister, expired, history, bounds>>

\* The listing removes the temporary file of a write in progress as it does a
\* forgotten one, and a report the write has just replaced.
ListerPrunes ==
    /\ \/ /\ lister.pc = "list"
          /\ lister' = ReadDirectory(lister)
          /\ UNCHANGED <<temporary, files, disturbed>>
       \/ /\ lister.pc = "clean"
          /\ lister' = [lister EXCEPT !.pc = "info"]
          /\ temporary' = [s \in Sessions |-> IF s \in lister.temps THEN NoReport ELSE temporary[s]]
          /\ UNCHANGED <<files, disturbed>>
       \/ /\ lister.pc = "info"
          /\ lister' = GetInfo(lister)
          /\ UNCHANGED <<temporary, files, disturbed>>
       \/ /\ lister.pc = "delete"
          /\ \E s \in lister.doomed :
                /\ lister' = [lister EXCEPT !.doomed = @ \ {s}]
                /\ files' = [files EXCEPT ![s] = NoReport]
                /\ disturbed' = (disturbed \/ s = session)
          /\ UNCHANGED temporary
    /\ UNCHANGED <<memory, persistedRevision, writeScheduled, writer, expired, synced, pruneDue,
                   killed, bounds>>
-----------------------------------------------------------------------------
(* Settings, reachable whenever no transfer is on screen; a listing may     *)
(* still run when the next transfer starts.                                 *)
OpenSettings ==
    /\ lister.pc = "idle"
    /\ progress = "idle" \/ hidden
    /\ lists < MaxLists
    /\ lists' = lists + 1
    /\ lister' = [NoTask EXCEPT !.pc = "list"]
    /\ UNCHANGED <<memory, persistedRevision, writeScheduled, writer, temporary, files, expired,
                   history, mishaps>>

\* The reports that can be read are shown; the others are skipped.
Listed ==
    /\ lister.pc = "delete"
    /\ lister.doomed = {}
    /\ lister' = NoTask
    /\ UNCHANGED <<memory, persistedRevision, writeScheduled, writer, temporary, files, expired,
                   history, bounds>>

ListerFault ==
    /\ lister.pc # "idle"
    /\ mishaps < MaxMishaps
    /\ mishaps' = mishaps + 1
    /\ lister' = NoTask
    /\ UNCHANGED <<memory, persistedRevision, writeScheduled, writer, temporary, files, expired,
                   history, lists>>

Expire(s) ==
    /\ s \in Present \ expired
    /\ s < session
    /\ expired' = expired \cup {s}
    /\ UNCHANGED <<memory, persistedRevision, writeScheduled, writer, lister, temporary, files,
                   history, bounds>>

\* The system kills the app: the disk is all that remains.
Kill ==
    /\ mishaps < MaxMishaps
    /\ mishaps' = mishaps + 1
    /\ killed' = killed \cup IF progress = "idle" THEN {} ELSE {session}
    /\ progress' = "idle"
    /\ hidden' = FALSE
    /\ report' = NoReport
    /\ revision' = 0
    /\ persistedRevision' = 0
    /\ writeScheduled' = FALSE
    /\ writer' = NoTask
    /\ lister' = NoTask
    /\ UNCHANGED <<session, temporary, files, expired, synced, disturbed, pruneDue, lists>>
-----------------------------------------------------------------------------
WriterStep ==
    \/ TakeSnapshot \/ DeleteTemporary \/ WriteBegins \/ WriteCompletes \/ DeleteDestination
    \/ MoveTemporary \/ MoveFindsNothing \/ WriterPrunes \/ Persisted

ReportNext ==
    \/ BeginReport \/ Begun \/ CheckpointWindow \/ RecordMeasurements \/ UpdateTransfer
    \/ RecordThermal \/ FinishReport \/ Finished \/ TransferEnded \/ HideTransfer
    \/ WriterStep \/ WriterFault
    \/ OpenSettings \/ ListerPrunes \/ Listed \/ ListerFault
    \/ \E s \in Sessions : Expire(s)
    \/ Kill

ReportSpec == ReportInit /\ [][ReportNext]_reportVars

-----------------------------------------------------------------------------
\* Every variable keeps the type it has in the code.
ReportTypeOK ==
    /\ session \in 0..Len(Bytes)
    /\ progress \in {"idle", "starting", "running", "finishing", "ending"}
    /\ hidden \in BOOLEAN
    /\ report \in Reports \cup {NoReport}
    /\ revision \in Nat
    /\ persistedRevision \in 0..revision
    /\ writeScheduled \in BOOLEAN
    /\ writer.snapshot \in Reports \cup {NoReport}
    /\ files \in [Sessions -> Reports \cup {NoReport, Partial}]
    /\ temporary \in [Sessions -> Reports \cup {NoReport, Partial}]

\* A report on the phone is whole whenever the app is killed, and it is never
\* older than the last write of its transfer that returned: a late write does
\* not bring an earlier report back. Once a prune that follows a write has
\* ended, the reports respect their number and their total size, whatever was
\* killed or failed before.
ReportsAreCurrent ==
    /\ ReportTypeOK
    /\ \A s \in Sessions :
        files[s] # NoReport =>
            /\ files[s] # Partial
            /\ files[s].windows >= synced[s].windows
            /\ synced[s].notes \subseteq files[s].notes
            /\ synced[s].final => files[s].final
    /\ ~pruneDue =>
        /\ Cardinality(Present) <= MaxReports
        /\ TotalSize(Present) <= MaxTotalBytes

\* "normal completion flushes all": once finish() has returned, the report on
\* the phone is a final one, and it is the one in memory, with every window and
\* note, whenever no write is due, also if it was queued behind a write in
\* progress. A thermal state that arrives later only replaces it (while the
\* replacement is moved in, there is none). The exceptions are a file operation
\* of this transfer that failed, a listing that deleted one of its files, and a
\* report that alone exceeds MAX_TOTAL_BYTES, which its own prune deletes.
CompletionFlushes ==
    (/\ progress \in {"ending", "idle"} /\ report # NoReport
     /\ ~disturbed /\ Bytes[session] <= MaxTotalBytes) =>
        /\ report.final
        /\ ChainSettled => files[session] = report
        /\ writer.pc # "move" => files[session].final

\* "A crash can omit at most the current eight-window checkpoint": what an
\* earlier write of the transfer has stored is still there after the app was
\* killed.
CrashKeepsCheckpoint ==
    \A s \in killed : files[s].windows >= synced[s].windows
=============================================================================
