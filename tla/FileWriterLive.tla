--------------------------- MODULE FileWriterLive ---------------------------
(***************************************************************************)
(* What the receiver promises (UploadLifecycle), that FileWriter keeps the *)
(* promise, and that every upload comes to an end.                         *)
(***************************************************************************)
EXTENDS FileWriter

\* An upload is finalizing from the moment its handle is moved out until one of
\* its outcomes is set; abortMatching sets failed as it moves the handle.
PhaseOf(u) ==
  CASE u \in dead -> "gone"
    [] u \in completed \ dead -> "completed"
    [] u \in failed \ dead -> "failed"
    [] u \in finalizing \ (completed \cup failed \cup dead) -> "finalizing"
    [] idOf[u] = Nil -> "unknown"
    [] OTHER -> "active"

Lifecycle == INSTANCE UploadLifecycle
  WITH phase <- [u \in Uploads |-> PhaseOf(u)],
       charged <- Charged,
       saved <- {u \in Uploads : published[u] # {}}

\* FileWriter implements the documented lifecycle: an upload goes through its
\* phases in order, its outcome is reached once, a file appears in the directory
\* only while it is finalizing and at most once, one that left a file does not
\* fail, and the charge for its space ends with the outcome or, after a failure,
\* when the temporary file is gone (initFile, finalizeFileResult, abortMatching
\* and retireTemporary together).
ImplementsLifecycle == Lifecycle!LifecycleSpec

----------------------------------------------------------------------------
(* Fairness: a thread that can go on does; time passes for an upload nobody *)
(* adds to, and HttpServer::run calls expireIdleFiles again and again; a    *)
(* deletion that the reaper retries for ever is not refused for ever.       *)

DeletionSucceeds(u) ==
  RetireTemporary(Reaper) /\ cur[Reaper] = u /\ u \notin reserved'

Fairness ==
  /\ \A t \in Threads : WF_vars(ThreadStep(t))
  /\ \A u \in Uploads : WF_vars(TimePasses(u))
  /\ WF_vars(ExpireIdleFiles)
  /\ \A u \in Uploads : SF_vars(DeletionSucceeds(u))

FairSpec == Spec /\ Fairness

\* Every upload that initFile accepted is completed or failed in the end, even
\* when its client disappears: a handle expires, and a finalization ends. Only a
\* restart of the process forgets it.
EveryUploadSettles ==
  \A u \in Uploads : (u \in Live) ~> (u \in completed \cup failed \cup dead)

\* The space reserved for an upload is given back in the end, even when the
\* temporary file could not be deleted the first time (retireTemporary leaves it
\* to the sweep of expireIdleFiles), unless the process is restarted before.
SpaceIsReleased == \A u \in Uploads : (u \in reserved \ dead) ~> (u \notin reserved \ dead)
=============================================================================
