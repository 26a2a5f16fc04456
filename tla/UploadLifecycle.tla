--------------------------- MODULE UploadLifecycle ---------------------------
(***************************************************************************)
(* What the receiver promises about one upload, apart from how its threads *)
(* arrive there: the state machine of docs/UPLOAD_PROTOCOL.md with the two *)
(* things an outcome stands for, the disk space that is charged to the     *)
(* client and the file that appears in the upload directory.               *)
(***************************************************************************)
CONSTANTS Uploads,
          Restarts      \* may the server process stop and start again

VARIABLES phase,        \* where each upload stands
          charged,      \* uploads whose temporary space is still reserved
          saved         \* uploads whose file was renamed into the directory

lifecycleVars == <<phase, charged, saved>>

LifecycleInit ==
  /\ phase = [u \in Uploads |-> "unknown"]
  /\ charged = {} /\ saved = {}

Enter(u, from, to) == phase[u] = from /\ phase' = [phase EXCEPT ![u] = to]

\* Admission reserves the space before there is a temporary file.
Admit(u) ==
  /\ Enter(u, "unknown", "active")
  /\ charged' = charged \cup {u} /\ UNCHANGED saved

\* An upload whose temporary file cannot be made has failed from the start; its
\* space stays charged when part of that file could not be removed.
AdmitFailed(u) ==
  /\ Enter(u, "unknown", "failed")
  /\ charged' \in {charged, charged \cup {u}} /\ UNCHANGED saved

StartFinalizing(u) ==
  Enter(u, "active", "finalizing") /\ UNCHANGED <<charged, saved>>

Save(u) ==
  /\ phase[u] = "finalizing" /\ u \notin saved
  /\ saved' = saved \cup {u} /\ UNCHANGED <<phase, charged>>

\* The outcome becomes visible to retries, and the space is released, at once.
Conclude(u) ==
  /\ Enter(u, "finalizing", "completed")
  /\ charged' = charged \ {u} /\ UNCHANGED saved

\* Only an upload that left no file may fail.
Fail(u) ==
  /\ u \notin saved
  /\ Enter(u, "finalizing", "failed") /\ UNCHANGED <<charged, saved>>

\* Active uploads, several at a time, are cancelled or expire.
Abort(S) ==
  /\ \A u \in S : phase[u] = "active"
  /\ phase' = [u \in Uploads |-> IF u \in S THEN "failed" ELSE phase[u]]
  /\ UNCHANGED <<charged, saved>>

\* The temporary file of a failed upload is gone.
Release(u) ==
  /\ phase[u] = "failed" /\ u \in charged
  /\ charged' = charged \ {u} /\ UNCHANGED <<phase, saved>>

\* A new process knows no upload of the old one, and charges nothing for it.
Forget ==
  /\ Restarts
  /\ phase' = [u \in Uploads |-> IF phase[u] = "unknown" THEN "unknown" ELSE "gone"]
  /\ charged' = {} /\ UNCHANGED saved

LifecycleNext ==
  \/ \E u \in Uploads :
       \/ Admit(u) \/ AdmitFailed(u) \/ StartFinalizing(u) \/ Save(u)
       \/ Conclude(u) \/ Fail(u) \/ Release(u)
  \/ \E S \in SUBSET Uploads : Abort(S)
  \/ Forget

LifecycleSpec == LifecycleInit /\ [][LifecycleNext]_lifecycleVars
=============================================================================
