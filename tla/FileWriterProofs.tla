-------------------------- MODULE FileWriterProofs --------------------------
(***************************************************************************)
(* Proofs about FileWriter, for every value of its constants, as long as   *)
(* clients do not reuse the id of a session the server has forgotten: what *)
(* its files hold, what it remembers, and that it implements               *)
(* UploadLifecycle.                                                        *)
(***************************************************************************)
EXTENDS FileWriterInvProofs, FileWriterContentProofs, FileWriterLifecycleProofs

\* A leaf is for Zenon, with a minute of time, unless it names SMT.
USE ZenonT(60)

----------------------------------------------------------------------------
(* What is in the files *)

\* Whatever the threads, the reaper and restarts do, the bytes an upload counts
\* are the bytes it received, and its streaming hash has seen exactly those.
THEOREM ContentsAreRight ==
  ASSUME ~ReuseIds
  PROVE  Spec => []ContentInv
<1>1. Init => ContentInv
  BY ConstantsAssumption, InitContent
<1>2. IInv /\ ContentInv /\ [Next]_vars => ContentInv'
  BY ConstantsAssumption, NextContent
<1> QED BY <1>1, <1>2, Invariance, PTL DEF Spec

\* publishTemporary puts at most one file of an upload into the directory; it is
\* complete, every byte of it was received, and the digest reported is its own.
THEOREM SavedFilesAreIntact ==
  ASSUME ~ReuseIds
  PROVE  Spec => []SavedIntact
<1>1. IInv /\ ContentInv => SavedIntact
  <2> SUFFICES ASSUME IInv, ContentInv, NEW u \in Uploads
               PROVE  /\ Cardinality(published[u]) <= 1
                      /\ \A p \in published[u] :
                           /\ Len(p[2]) = metaOf[u].size
                           /\ \A k \in 1 .. Len(p[2]) : p[2][k] # Blank
                           /\ u \in completed =>
                                result[u] = [disposition |-> "Saved", filename |-> p[1],
                                             sha256 |-> p[2]]
    BY DEF SavedIntact
  <2>1. PublishedGood(u) /\ result[u] \in Verdicts
    BY DEF ContentInv, IInv, TypeOK, UploadTypes
  <2>2. Cardinality(published[u]) <= 1
    <3>1. CASE published[u] = {}
      <4>1. Cardinality(published[u]) = 0
        BY <3>1, FS_EmptySet
      <4> QED BY ONLY SMTT(60), <4>1
    <3>2. CASE published[u] # {}
      <4>1. PICK p : published[u] = {p}
        BY <2>1, <3>2 DEF PublishedGood
      <4>2. Cardinality(published[u]) = 1
        BY <4>1, FS_Singleton
      <4> QED BY ONLY SMTT(60), <4>2
    <3> QED BY <3>1, <3>2
  <2>3. ASSUME NEW p \in published[u], u \in completed
        PROVE  result[u] = [disposition |-> "Saved", filename |-> p[1], sha256 |-> p[2]]
    <3>1. result[u].disposition = "Saved" /\ p = <<result[u].filename, result[u].sha256>>
      BY <2>1, <2>3 DEF PublishedGood
    <3>2. p[1] = result[u].filename /\ p[2] = result[u].sha256
      BY ONLY SMTT(60), <3>1
    <3> QED BY <2>1, <3>1, <3>2 DEF Verdicts
  <2> QED BY <2>1, <2>2, <2>3 DEF PublishedGood
<1> QED BY <1>1, Invariance, ContentsAreRight, PTL

\* FileWriter implements the documented lifecycle of an upload: initFile,
\* finalizeFileResult, abortMatching, retireTemporary and a restart take an
\* upload through its phases in order, one outcome each; a file appears only
\* while its upload is finalizing, an upload that left a file does not fail, and
\* the charge for its space ends with the outcome or with the temporary file.
THEOREM LifecycleIsImplemented ==
  ASSUME ~ReuseIds
  PROVE  Spec => ImplementsLifecycle
<1>1. IInv /\ Init => Lifecycle!LifecycleInit
  BY ConstantsAssumption, InitSeen
<1>2. IInv /\ IInv' /\ [Next]_vars => [Lifecycle!LifecycleNext]_(Lifecycle!lifecycleVars)
  BY ConstantsAssumption, NextSeen
<1> QED BY <1>1, <1>2, Invariance, PTL DEF Spec, ImplementsLifecycle, Lifecycle!LifecycleSpec

\* A server that has just started remembers nothing.
LEMMA QueueAtStart == Init => QueueInv
<1> SUFFICES ASSUME Init PROVE QueueInv
  OBVIOUS
<1>1. Live = {} /\ order = <<>> /\ pc = [t \in Threads |-> "idle"]
  BY DEF Init, Live
<1> QED BY <1>1, EmptyQueue

\* No reservation is lost: a charged upload has a handle, a finalizer or the mark
\* the reaper looks for, and rememberCompletedSessionLocked adds a session once,
\* after its outcome is known and its space released.
THEOREM ReservationsAreNeverStranded ==
  ASSUME ~ReuseIds
  PROVE  Spec => []NoStrandedReservation
<1>1. Init => QueueInv
  BY QueueAtStart
<1>2. IInv /\ QueueInv /\ [Next]_vars => QueueInv'
  BY ConstantsAssumption, NextQueue
<1>3. IInv /\ QueueInv => NoStrandedReservation
  BY ConstantsAssumption, NothingStranded
<1> QED BY <1>1, <1>2, <1>3, Invariance, PTL DEF Spec

\* When nobody else changes the directory, the content of a completed upload,
\* saved or recognised as a duplicate by finalizeFileResult, is in it under the
\* name reported to the client.
THEOREM CompletedFilesAreStored ==
  ASSUME ~ReuseIds, External = {}
  PROVE  Spec => []CompletedIsStored
<1>1. Init => StoredInv
  BY DEF Init, StoredInv, KnownInPlace
<1>2. IInv /\ IInv' /\ ContentInv /\ StoredInv /\ [Next]_vars => StoredInv'
  BY ConstantsAssumption, NextStored
<1>3. StoredInv => CompletedIsStored
  BY DEF StoredInv, InPlace, CompletedIsStored
<1> QED BY <1>1, <1>2, <1>3, Invariance, ContentsAreRight, PTL DEF Spec

\* All of it together is an invariant: who may touch an upload, what its file
\* holds, and which sessions m_completedSessionOrder names.
THEOREM FullInvariance ==
  ASSUME ~ReuseIds
  PROVE  Spec => []FullInv
<1>1. Init => QueueInv
  BY QueueAtStart
<1>2. IInv /\ QueueInv /\ [Next]_vars => QueueInv'
  BY ConstantsAssumption, NextQueue
<1> QED BY <1>1, <1>2, Invariance, ContentsAreRight, PTL DEF Spec, FullInv
=============================================================================
