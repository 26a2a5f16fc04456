---------------------- MODULE FileWriterLifecycleProofs ----------------------
(***************************************************************************)
(* Proofs about FileWriter: every step of it is a step of UploadLifecycle  *)
(* or leaves what UploadLifecycle speaks of alone; QueueInv and StoredInv  *)
(* are preserved.                                                          *)
(***************************************************************************)
EXTENDS FileWriterWriteProofs, FileWriterLive

\* A leaf is for Zenon, with a minute of time, unless it names SMT.
USE ZenonT(60)

----------------------------------------------------------------------------
(* The refinement mapping *)

\* Where an upload stands, by its flags.
IsIn(u, p) ==
  \/ p = "gone" /\ u \in dead
  \/ p = "completed" /\ u \in Live \cap completed
  \/ p = "failed" /\ u \in Live \cap failed
  \/ p = "finalizing" /\ u \in Live \cap finalizing /\ u \notin completed \cup failed
  \/ p = "active" /\ u \in Live /\ u \notin finalizing \cup completed \cup failed
  \/ p = "unknown" /\ u \in Fresh

\* PhaseOf looks at the flags in the right order.
LEMMA PhaseOfIs ==
  ASSUME IInv
  PROVE  \A u \in Uploads : \A p : IsIn(u, p) => PhaseOf(u) = p
<1> SUFFICES ASSUME NEW u \in Uploads, NEW p, IsIn(u, p) PROVE PhaseOf(u) = p
  OBVIOUS
<1>1. /\ u \in Fresh => u \notin finalizing \cup completed \cup failed \cup dead
      /\ failed \cap completed = {}
  BY DEF IInv, UploadsGood, FreshIsClean, OutcomesGood
<1>2. u \in Live <=> u \notin Fresh /\ u \notin dead
  BY DEF Live, Fresh
<1>3. u \in Fresh <=> idOf[u] = Nil
  BY DEF Fresh
<1>4. IsIn(u, p)
  OBVIOUS
<1> QED BY ONLY SMTT(60), <1>1, <1>2, <1>3, <1>4 DEF PhaseOf, IsIn

\* And after a step.
LEMMA PhaseOfNext ==
  ASSUME IInv'
  PROVE  \A u \in Uploads : \A p : IsIn(u, p)' => PhaseOf(u)' = p
<1> SUFFICES ASSUME NEW u \in Uploads, NEW p, IsIn(u, p)' PROVE PhaseOf(u)' = p
  OBVIOUS
<1>1. /\ u \in Fresh' => u \notin finalizing' \cup completed' \cup failed' \cup dead'
      /\ failed' \cap completed' = {}
  BY DEF IInv, UploadsGood, FreshIsClean, OutcomesGood
<1>2. u \in Live' <=> u \notin Fresh' /\ u \notin dead'
  BY DEF Live, Fresh
<1>3. u \in Fresh' <=> idOf'[u] = Nil
  BY DEF Fresh
<1>4. IsIn(u, p)'
  OBVIOUS
<1> QED BY ONLY SMTT(60), <1>1, <1>2, <1>3, <1>4 DEF PhaseOf, IsIn

\* Every upload stands somewhere.
LEMMA StandsSomewhere ==
  ASSUME NEW u \in Uploads
  PROVE  \E p : IsIn(u, p)
<1>1. u \in Fresh \/ u \in dead \/ u \in Live
  BY DEF Live, Fresh
<1> QED BY <1>1 DEF IsIn

\* What is charged: a session outlives the reservation of its upload.
LEMMA ChargedIs ==
  ASSUME ConstantsAssumption, IInv
  PROVE  Charged = reserved \cap Live
<1>1. \A u \in Live : u \in Uploads /\ idOf[u] \in FileIds
  BY DEF Live, IInv, TypeOK, UploadTypes, Maybe
<1>2. \A u \in Live : u \in reserved => sessions[idOf[u]] = u
  BY DEF IInv, UploadsGood, ReservationsKept
<1>3. \A i \in FileIds : sessions[i] # Nil => sessions[i] \in Live
  BY DEF IInv, UploadsGood, MapsAgree
<1>4. Nil \notin reserved
  BY DEF IInv, TypeOK, UploadTypes, ConstantsAssumption
<1> QED BY ONLY SMTT(60), <1>1, <1>2, <1>3, <1>4 DEF Charged

\* And after a step.
LEMMA ChargedNext ==
  ASSUME ConstantsAssumption, IInv'
  PROVE  Charged' = reserved' \cap Live'
<1>1. \A u \in Live' : u \in Uploads /\ idOf'[u] \in FileIds
  BY DEF Live, IInv, TypeOK, UploadTypes, Maybe
<1>2. \A u \in Live' : u \in reserved' => sessions'[idOf'[u]] = u
  BY DEF IInv, UploadsGood, ReservationsKept
<1>3. \A i \in FileIds : sessions'[i] # Nil => sessions'[i] \in Live'
  BY DEF IInv, UploadsGood, MapsAgree
<1>4. Nil \notin reserved'
  BY DEF IInv, TypeOK, UploadTypes, ConstantsAssumption
<1> QED BY ONLY SMTT(60), <1>1, <1>2, <1>3, <1>4 DEF Charged

\* A step that keeps every upload where it stands, apart from the uploads in S,
\* which go from one phase to another.
Moves(S, from, to) ==
  /\ \A u \in S : IsIn(u, from) /\ IsIn(u, to)'
  /\ \A u \in Uploads \ S : \A p : IsIn(u, p) => IsIn(u, p)'

\* That is what it does to the phases.
PhasesMoved(S, from, to) ==
  /\ \A u \in S : PhaseOf(u) = from /\ PhaseOf(u)' = to
  /\ \A u \in Uploads \ S : PhaseOf(u)' = PhaseOf(u)
LEMMA PhasesMove ==
  ASSUME IInv, IInv', NEW S \in SUBSET Uploads, NEW from, NEW to, Moves(S, from, to)
  PROVE  PhasesMoved(S, from, to)
<1>1. \A u \in S : PhaseOf(u) = from /\ PhaseOf(u)' = to
  BY PhaseOfIs, PhaseOfNext DEF Moves
<1>2. \A u \in Uploads \ S : PhaseOf(u)' = PhaseOf(u)
  <2> SUFFICES ASSUME NEW u \in Uploads \ S PROVE PhaseOf(u)' = PhaseOf(u)
    OBVIOUS
  <2>1. PICK p : IsIn(u, p)
    BY StandsSomewhere
  <2>2. IsIn(u, p)'
    BY <2>1 DEF Moves
  <2> QED BY <2>1, <2>2, PhaseOfIs, PhaseOfNext
<1> QED BY <1>1, <1>2 DEF PhasesMoved
----------------------------------------------------------------------------
(* Steps *)

SavedUploads == {u \in Uploads : published[u] # {}}

\* A step of one upload from phase to phase, in the terms of UploadLifecycle.
LEMMA EnterStep ==
  ASSUME IInv, IInv', NEW u \in Uploads, NEW from, NEW to, Moves({u}, from, to)
  PROVE  Lifecycle!Enter(u, from, to)
<1>1. {u} \in SUBSET Uploads
  OBVIOUS
<1>2. PhasesMoved({u}, from, to)
  BY <1>1, PhasesMove
<1>3. /\ PhaseOf(u) = from /\ PhaseOf(u)' = to
      /\ \A v \in Uploads \ {u} : PhaseOf(v)' = PhaseOf(v)
  BY <1>2 DEF PhasesMoved
<1> QED BY <1>3 DEF Lifecycle!Enter

\* A step of no upload.
LEMMA StayStep ==
  ASSUME IInv, IInv', Moves({}, "", "")
  PROVE  UNCHANGED [u \in Uploads |-> PhaseOf(u)]
<1>1. {} \in SUBSET Uploads
  OBVIOUS
<1>2. PhasesMoved({}, "", "")
  BY <1>1, PhasesMove
<1>3. \A u \in Uploads : PhaseOf(u)' = PhaseOf(u)
  BY <1>2 DEF PhasesMoved
<1> QED BY <1>3

\* Where uploads stand when their ids and outcomes stay, and whoever goes on
\* finalizing has not failed.
LEMMA FlagsKept ==
  ASSUME UNCHANGED <<idOf, dead, completed, failed>>,
         \A u \in Uploads : u \notin failed => (u \in finalizing' <=> u \in finalizing)
  PROVE  Moves({}, "", "")
<1>1. Live' = Live /\ Fresh' = Fresh
  BY DEF Live, Fresh
<1> QED BY <1>1 DEF Moves, IsIn

\* A step that the lifecycle does not see.
LEMMA Unseen ==
  ASSUME ConstantsAssumption, IInv, IInv', UNCHANGED <<idOf, dead, completed, failed, reserved>>,
         \A u \in Uploads : u \notin failed => (u \in finalizing' <=> u \in finalizing),
         SavedUploads' = SavedUploads
  PROVE  UNCHANGED Lifecycle!lifecycleVars
<1>1. UNCHANGED [u \in Uploads |-> PhaseOf(u)]
  BY FlagsKept, StayStep
<1>2. Charged' = Charged
  <2>1. Live' = Live
    BY DEF Live
  <2> QED BY <2>1, ChargedIs, ChargedNext
<1> QED BY <1>1, <1>2 DEF Lifecycle!lifecycleVars, SavedUploads

\* Steps that change neither flags nor files.
LEMMA UnseenSteps ==
  ASSUME ConstantsAssumption, IInv, IInv',
         UNCHANGED <<idOf, dead, completed, failed, reserved, finalizing, published>>
  PROVE  UNCHANGED Lifecycle!lifecycleVars
<1>1. SavedUploads' = SavedUploads
  BY DEF SavedUploads
<1> QED BY <1>1, Unseen

\* The steps of writeChunk and of the waiting calls, and those of a finalization
\* before and after the file appears, as far as they are unseen.
LEMMA QuietThreadSteps ==
  ASSUME ConstantsAssumption, IInv, IInv', NEW t \in Threads,
         \/ WriteLocked(t) \/ WriteMappedRange(t) \/ CommitChunk(t) \/ AwaitReturn(t)
         \/ Seal(t) \/ Decide(t) \/ NextInLoop(t) \/ RememberCompleted(t)
         \/ \E c, label : Lookup(t, c, label)
  PROVE  UNCHANGED Lifecycle!lifecycleVars
<1>1. CASE WriteLocked(t) \/ WriteMappedRange(t)
  BY <1>1, UnseenSteps DEF WriteLocked, WriteMappedRange, fixed, flags, diskVars
<1>2. CASE CommitChunk(t) \/ AwaitReturn(t)
  BY <1>2, UnseenSteps DEF CommitChunk, AwaitReturn, fixed, flags, diskVars
<1>3. CASE Seal(t)
  BY <1>3, UnseenSteps DEF Seal, fixed, flags, diskVars
<1>4. CASE Decide(t)
  <2>1. UNCHANGED <<uploadVars, published, dead>>
    BY <1>4 DEF Decide
  <2> QED BY <2>1, UnseenSteps DEF uploadVars, fixed, flags
<1>5. CASE NextInLoop(t) \/ RememberCompleted(t)
  BY <1>5, UnseenSteps DEF NextInLoop, RememberCompleted, fixed, flags, diskVars
<1>6. CASE \E c, label : Lookup(t, c, label)
  BY <1>6, UnseenSteps DEF Lookup, uploadVars, fixed, flags, diskVars, miscVars
<1> QED BY <1>1, <1>2, <1>3, <1>4, <1>5, <1>6

\* Closing an upload that is marked failed.
LEMMA CloseUnseen ==
  ASSUME ConstantsAssumption, IInv, IInv', NEW t \in Threads, CloseAborted(t)
  PROVE  UNCHANGED Lifecycle!lifecycleVars
<1>1. /\ pc[t] = "close" /\ finalizing' = finalizing \ {cur[t]} /\ failed' = failed \cup {cur[t]}
      /\ UNCHANGED <<idOf, dead, completed, reserved, published>>
  BY DEF CloseAborted, fixed, diskVars
<1>2. cur[t] \in failed
  BY <1>1 DEF IInv, ThreadsGood, ThreadGood, PointerGood
<1>3. failed' = failed
  BY <1>1, <1>2
<1>4. \A u \in Uploads : u \notin failed => (u \in finalizing' <=> u \in finalizing)
  BY <1>1, <1>2
<1>5. SavedUploads' = SavedUploads
  BY <1>1 DEF SavedUploads
<1> QED BY <1>1, <1>3, <1>4, <1>5, Unseen

\* The step that moves the handle out makes its upload finalizing.
LEMMA FinalizeLockedSeen ==
  ASSUME ConstantsAssumption, IInv, IInv', NEW t \in Threads, FinalizeLocked(t)
  PROVE  [Lifecycle!LifecycleNext]_(Lifecycle!lifecycleVars)
<1>1. UNCHANGED <<idOf, dead, completed, failed, reserved, published>> /\ pc[t] = "finalLock"
  BY DEF FinalizeLocked, fixed, diskVars
<1>2. CASE UNCHANGED finalizing
  BY <1>1, <1>2, UnseenSteps
<1>3. CASE finalizing' # finalizing
  <2>1. PICK u : u = cur[t]
    OBVIOUS
  <2>2. handles[call[t].id] # Nil /\ finalizing' = finalizing \cup {u}
    BY <1>3, <2>1 DEF FinalizeLocked
  <2>3. u \in Live /\ u \in Uploads /\ handles[call[t].id] = u /\ call[t].id \in FileIds
    <3>1. pc[t] \notin {"idle", "abort", "next"}
      BY <1>1
    <3> QED BY <2>1, <2>2, <3>1, SecondLook
  <2>4. u \notin finalizing \cup completed \cup failed
    BY <2>3 DEF IInv, UploadsGood, ActiveIsIntact, IsActive
  <2>5. Live' = Live /\ Fresh' = Fresh
    BY <1>1 DEF Live, Fresh
  <2>6. Moves({u}, "active", "finalizing")
    BY <1>1, <2>2, <2>3, <2>4, <2>5 DEF Moves, IsIn
  <2>7. Lifecycle!Enter(u, "active", "finalizing")
    BY <2>3, <2>6, EnterStep
  <2>8. Charged' = Charged
    BY <1>1, <2>5, ChargedIs, ChargedNext
  <2>9. Lifecycle!StartFinalizing(u)
    BY <1>1, <2>7, <2>8 DEF Lifecycle!StartFinalizing
  <2> QED BY <2>3, <2>9 DEF Lifecycle!LifecycleNext
<1> QED BY <1>2, <1>3

\* Where the upload of a finalizer stands.
LEMMA FinalizerStands ==
  ASSUME IInv, NEW t \in Threads, Finalizing(t), NEW u, u = cur[t]
  PROVE  /\ u \in Uploads /\ u \in Live /\ own[t] = u /\ IsIn(u, "finalizing")
         /\ u \in finalizing /\ u \notin completed \cup failed
         /\ pc[t] # "complete" => u \notin SavedUploads
<1>1. /\ u \in Uploads /\ u \in Live /\ own[t] = u
      /\ u \in finalizing /\ u \notin completed \cup failed
      /\ pc[t] # "complete" => published[u] = {}
  BY FinalizerFacts
<1> QED BY <1>1 DEF IsIn, SavedUploads

\* A file appears in the directory while its upload is finalizing, once.
LEMMA PublishSeen ==
  ASSUME ConstantsAssumption, IInv, IInv', NEW t \in Threads, Publish(t)
  PROVE  [Lifecycle!LifecycleNext]_(Lifecycle!lifecycleVars)
<1>1. /\ UNCHANGED <<idOf, dead, completed, failed, reserved, finalizing>>
      /\ pc[t] = "publish" /\ Finalizing(t)
  <2>1. UNCHANGED <<uploadVars, dead>> /\ pc[t] = "publish"
    BY DEF Publish
  <2> QED BY <2>1 DEF uploadVars, fixed, flags, Finalizing
<1>2. CASE UNCHANGED published
  BY <1>1, <1>2, UnseenSteps
<1>3. CASE published' # published
  <2>1. PICK u : u = cur[t]
    OBVIOUS
  <2>2. /\ u \in Uploads /\ u \in Live /\ own[t] = u /\ IsIn(u, "finalizing")
        /\ u \notin SavedUploads
    <3>1. pc[t] # "complete"
      BY <1>1
    <3> QED BY <1>1, <2>1, <3>1, FinalizerStands
  <2>3. published' = [published EXCEPT ![u] = @ \cup {<<verdict[t].filename, tmp[u]>>}]
    BY <1>3, <2>2 DEF Publish
  <2>4. SavedUploads' = SavedUploads \cup {u}
    <3>1. published \in [Uploads -> SUBSET (Filenames \X Contents)]
      BY DEF IInv, TypeOK, DiskTypes
    <3>2. published'[u] # {}
      <4>1. published'[u] = published[u] \cup {<<verdict[t].filename, tmp[u]>>}
        BY ONLY SMTT(60), <2>2, <2>3, <3>1
      <4> QED BY <4>1
    <3>3. \A v \in Uploads : v # u => published'[v] = published[v]
      BY ONLY SMTT(60), <2>2, <2>3, <3>1
    <3> QED BY <2>2, <3>2, <3>3 DEF SavedUploads
  <2>5. UNCHANGED [v \in Uploads |-> PhaseOf(v)]
    BY <1>1, FlagsKept, StayStep
  <2>6. Charged' = Charged
    <3>1. Live' = Live
      BY <1>1 DEF Live
    <3> QED BY <1>1, <3>1, ChargedIs, ChargedNext
  <2>7. PhaseOf(u) = "finalizing"
    BY <2>2, PhaseOfIs
  <2>8. Lifecycle!Save(u)
    BY <2>2, <2>4, <2>5, <2>6, <2>7 DEF Lifecycle!Save, SavedUploads
  <2> QED BY <2>2, <2>8 DEF Lifecycle!LifecycleNext
<1> QED BY <1>2, <1>3

\* The outcome is published and the reservation ends in one step.
LEMMA CompleteSeen ==
  ASSUME ConstantsAssumption, IInv, IInv', NEW t \in Threads, Complete(t)
  PROVE  [Lifecycle!LifecycleNext]_(Lifecycle!lifecycleVars)
<1>1. PICK u : u = cur[t]
  OBVIOUS
<1>2. /\ UNCHANGED <<idOf, dead, failed, published>> /\ Finalizing(t)
      /\ finalizing' = finalizing \ {u} /\ completed' = completed \cup {u}
      /\ reserved' = reserved \ {u}
  BY <1>1 DEF Complete, Finalizing, fixed, diskVars, miscVars
<1>3. /\ u \in Uploads /\ u \in Live /\ IsIn(u, "finalizing")
      /\ u \in finalizing /\ u \notin completed \cup failed
  BY <1>1, <1>2, FinalizerStands
<1>4. Live' = Live /\ Fresh' = Fresh
  BY <1>2 DEF Live, Fresh
<1>5. Moves({u}, "finalizing", "completed")
  BY <1>2, <1>3, <1>4 DEF Moves, IsIn
<1>6. Lifecycle!Enter(u, "finalizing", "completed")
  BY <1>3, <1>5, EnterStep
<1>7. Charged' = Charged \ {u}
  <2>1. Charged = reserved \cap Live /\ Charged' = reserved' \cap Live'
    BY ChargedIs, ChargedNext
  <2> QED BY <1>2, <1>4, <2>1
<1>8. Lifecycle!Conclude(u)
  BY <1>2, <1>6, <1>7 DEF Lifecycle!Conclude
<1> QED BY <1>3, <1>8 DEF Lifecycle!LifecycleNext

\* A finalization that fails has left no file.
LEMMA FailSeen ==
  ASSUME ConstantsAssumption, IInv, IInv', NEW t \in Threads, FailFinalization(t)
  PROVE  [Lifecycle!LifecycleNext]_(Lifecycle!lifecycleVars)
<1>1. PICK u : u = cur[t]
  OBVIOUS
<1>2. /\ UNCHANGED <<idOf, dead, completed, reserved, published>>
      /\ pc[t] = "fail" /\ Finalizing(t)
      /\ finalizing' = finalizing \ {u} /\ failed' = failed \cup {u}
  BY <1>1 DEF FailFinalization, Finalizing, fixed, diskVars, miscVars
<1>3. /\ u \in Uploads /\ u \in Live /\ IsIn(u, "finalizing")
      /\ u \in finalizing /\ u \notin completed \cup failed /\ u \notin SavedUploads
  <2>1. pc[t] # "complete"
    BY <1>2
  <2> QED BY <1>1, <1>2, <2>1, FinalizerStands
<1>4. Live' = Live /\ Fresh' = Fresh
  BY <1>2 DEF Live, Fresh
<1>5. Moves({u}, "finalizing", "failed")
  BY <1>2, <1>3, <1>4 DEF Moves, IsIn
<1>6. Lifecycle!Enter(u, "finalizing", "failed")
  BY <1>3, <1>5, EnterStep
<1>7. Charged' = Charged
  BY <1>2, <1>4, ChargedIs, ChargedNext
<1>8. Lifecycle!Fail(u)
  BY <1>2, <1>3, <1>6, <1>7 DEF Lifecycle!Fail, SavedUploads
<1> QED BY <1>3, <1>8 DEF Lifecycle!LifecycleNext

\* Only active uploads are aborted or expire, any number at a time.
LEMMA AbortSeen ==
  ASSUME ConstantsAssumption, IInv, IInv', NEW t \in Threads, NEW M \in SUBSET FileIds, NEW j,
         AbortMatching(t, M, j)
  PROVE  [Lifecycle!LifecycleNext]_(Lifecycle!lifecycleVars)
<1>1. PICK S : S = Matched(M)
  OBVIOUS
<1>2. /\ UNCHANGED <<idOf, dead, completed, finalizing, reserved, published>>
      /\ failed' = failed \cup S
  BY <1>1 DEF AbortMatching, fixed, diskVars, miscVars
<1>3. \A u \in S : u \in Live /\ u \in Uploads /\ u \notin finalizing \cup completed \cup failed
  <2> SUFFICES ASSUME NEW u \in S
               PROVE  u \in Live /\ u \in Uploads /\ u \notin finalizing \cup completed \cup failed
    OBVIOUS
  <2>1. PICK i \in FileIds : handles[i] = u /\ u # Nil
    BY <1>1 DEF Matched
  <2>2. u \in Live
    BY <2>1 DEF IInv, UploadsGood, MapsAgree
  <2>3. u \in Uploads
    BY <2>2 DEF Live
  <2> QED BY <2>1, <2>2, <2>3 DEF IInv, UploadsGood, ActiveIsIntact, IsActive
<1>4. Live' = Live /\ Fresh' = Fresh
  BY <1>2 DEF Live, Fresh
<1>5. Moves(S, "active", "failed") /\ S \in SUBSET Uploads
  BY <1>2, <1>3, <1>4 DEF Moves, IsIn
<1>6. PhasesMoved(S, "active", "failed")
  BY <1>5, PhasesMove
<1>7. Charged' = Charged
  BY <1>2, <1>4, ChargedIs, ChargedNext
<1>8. /\ \A u \in S : PhaseOf(u) = "active" /\ PhaseOf(u)' = "failed"
      /\ \A u \in Uploads \ S : PhaseOf(u)' = PhaseOf(u)
  BY <1>6 DEF PhasesMoved
<1>9. Lifecycle!Abort(S)
  BY <1>2, <1>5, <1>7, <1>8 DEF Lifecycle!Abort
<1> QED BY <1>5, <1>9 DEF Lifecycle!LifecycleNext

\* A failed upload's space is released when its temporary file is gone.
LEMMA RetireSeen ==
  ASSUME ConstantsAssumption, IInv, IInv', NEW t \in Threads, RetireTemporary(t)
  PROVE  [Lifecycle!LifecycleNext]_(Lifecycle!lifecycleVars)
<1>1. PICK u : u = cur[t]
  OBVIOUS
<1>2. /\ UNCHANGED <<idOf, dead, completed, failed, finalizing, published>> /\ pc[t] = "retire"
      /\ UNCHANGED reserved \/ (u \in reserved /\ reserved' = reserved \ {u})
  BY <1>1 DEF RetireTemporary, fixed
<1>3. CASE UNCHANGED reserved
  BY <1>2, <1>3, UnseenSteps
<1>4. CASE u \in reserved /\ reserved' = reserved \ {u}
  <2>1. u \in Uploads /\ u \in Live /\ u \in failed
    <3>1. pc[t] \notin {"idle", "abort", "next"} /\ pc[t] \in {"close", "retire"}
      BY <1>2
    <3>2. cur[t] \in failed
      BY <3>1 DEF IInv, ThreadsGood, ThreadGood, PointerGood
    <3> QED BY <1>1, <3>1, <3>2, SecondLook
  <2>2. PhaseOf(u) = "failed"
    <3>1. IsIn(u, "failed")
      BY <2>1 DEF IsIn
    <3> QED BY <2>1, <3>1, PhaseOfIs
  <2>3. UNCHANGED [v \in Uploads |-> PhaseOf(v)]
    BY <1>2, FlagsKept, StayStep
  <2>4. u \in Charged /\ Charged' = Charged \ {u}
    <3>1. Live' = Live
      BY <1>2 DEF Live
    <3>2. Charged = reserved \cap Live /\ Charged' = reserved' \cap Live'
      BY ChargedIs, ChargedNext
    <3> QED BY <1>4, <2>1, <3>1, <3>2
  <2>5. Lifecycle!Release(u)
    BY <1>2, <2>1, <2>2, <2>3, <2>4 DEF Lifecycle!Release
  <2> QED BY <2>1, <2>5 DEF Lifecycle!LifecycleNext
<1> QED BY <1>2, <1>3, <1>4

\* initFile admits one upload that was not known: as an active one, or as one
\* that has failed, with or without its space.
LEMMA InitFileSeen ==
  ASSUME ConstantsAssumption, IInv, IInv', NEW id \in FileIds, NEW m \in Metas, InitFile(id, m)
  PROVE  [Lifecycle!LifecycleNext]_(Lifecycle!lifecycleVars)
<1>1. UNCHANGED <<finalizing, completed, dead, published>> /\ id # Nil
  BY DEF InitFile, ConstantsAssumption
<1>2. PICK u \in Fresh :
        /\ idOf' = [idOf EXCEPT ![u] = id]
        /\ \/ failed' = failed /\ reserved' = reserved \cup {u}
           \/ failed' = failed \cup {u} /\ reserved' = reserved
           \/ failed' = failed \cup {u} /\ reserved' = reserved \cup {u}
  BY DEF InitFile
<1>3. u \in Uploads /\ u \notin finalizing \cup completed \cup failed \cup dead \cup reserved
  BY <1>2 DEF Fresh, IInv, UploadsGood, FreshIsClean
<1>4. idOf'[u] = id /\ \A v \in Uploads \ {u} : idOf'[v] = idOf[v]
  <2>1. idOf \in [Uploads -> Maybe(FileIds)] /\ idOf' = [idOf EXCEPT ![u] = id]
    BY <1>2 DEF IInv, TypeOK, UploadTypes
  <2> QED BY ONLY SMTT(60), <1>3, <2>1
<1>5. /\ u \in Live' /\ u \notin Live /\ u \in Fresh
      /\ \A v \in Uploads \ {u} : (v \in Live' <=> v \in Live) /\ (v \in Fresh' <=> v \in Fresh)
  BY <1>1, <1>2, <1>3, <1>4 DEF Live, Fresh
<1>6. \A v \in Uploads \ {u} : v \in failed' <=> v \in failed
  BY <1>2
<1>7. \A v \in Uploads \ {u} : \A p : IsIn(v, p) => IsIn(v, p)'
  BY <1>1, <1>5, <1>6 DEF IsIn
<1>8. Charged = reserved \cap Live /\ Charged' = reserved' \cap Live'
  BY ChargedIs, ChargedNext
<1>9. reserved \subseteq Uploads /\ Live \subseteq Uploads /\ Live' \subseteq Uploads
  BY DEF Live, IInv, TypeOK, UploadTypes
<1>10. Live' = Live \cup {u}
  BY <1>5, <1>9
<1>11. SavedUploads' = SavedUploads
  BY <1>1 DEF SavedUploads
<1>12. CASE failed' = failed
  <2>1. Moves({u}, "unknown", "active")
    <3>1. IsIn(u, "unknown") /\ IsIn(u, "active")'
      BY <1>1, <1>3, <1>5, <1>12 DEF IsIn
    <3> QED BY <1>7, <3>1 DEF Moves
  <2>2. Lifecycle!Enter(u, "unknown", "active")
    BY <1>3, <2>1, EnterStep
  <2>3. reserved' = reserved \cup {u}
    BY <1>2, <1>3, <1>12
  <2>4. Charged' = Charged \cup {u}
    BY <1>8, <1>3, <1>10, <2>3
  <2>5. Lifecycle!Admit(u)
    BY <1>11, <2>2, <2>4 DEF Lifecycle!Admit, SavedUploads
  <2> QED BY <1>3, <2>5 DEF Lifecycle!LifecycleNext
<1>13. CASE failed' = failed \cup {u}
  <2>1. Moves({u}, "unknown", "failed")
    <3>1. IsIn(u, "unknown") /\ IsIn(u, "failed")'
      BY <1>5, <1>13 DEF IsIn
    <3> QED BY <1>7, <3>1 DEF Moves
  <2>2. Lifecycle!Enter(u, "unknown", "failed")
    BY <1>3, <2>1, EnterStep
  <2>3. Charged' \in {Charged, Charged \cup {u}}
    <3>1. CASE reserved' = reserved
      BY <1>3, <1>8, <1>10, <3>1
    <3>2. CASE reserved' = reserved \cup {u}
      <4>1. Charged' = Charged \cup {u}
        BY <1>3, <1>8, <1>10, <3>2
      <4> QED BY <4>1
    <3> QED BY <1>2, <3>1, <3>2
  <2>4. Lifecycle!AdmitFailed(u)
    BY <1>11, <2>2, <2>3 DEF Lifecycle!AdmitFailed, SavedUploads
  <2> QED BY <1>3, <2>4 DEF Lifecycle!LifecycleNext
<1> QED BY <1>2, <1>12, <1>13

\* The new process knows no upload and charges nothing.
LEMMA RestartSeen ==
  ASSUME ConstantsAssumption, IInv, IInv', Restart
  PROVE  [Lifecycle!LifecycleNext]_(Lifecycle!lifecycleVars)
<1>1. /\ Restarts /\ UNCHANGED <<idOf, completed, failed, finalizing, reserved, published>>
      /\ dead' = {u \in Uploads : idOf[u] # Nil}
  BY DEF Restart, fixed, flags
<1>2. Live' = {} /\ Fresh' = Fresh
  BY <1>1 DEF Live, Fresh
<1>3. Charged' = {}
  <2>1. Charged' = reserved' \cap Live'
    BY ChargedNext
  <2> QED BY <1>2, <2>1
<1>4. ASSUME NEW u \in Uploads
      PROVE  PhaseOf(u)' = IF PhaseOf(u) = "unknown" THEN "unknown" ELSE "gone"
  <2>1. CASE u \in Fresh
    <3>1. IsIn(u, "unknown") /\ IsIn(u, "unknown")'
      BY <1>2, <2>1 DEF IsIn
    <3> QED BY <3>1, PhaseOfIs, PhaseOfNext
  <2>2. CASE u \notin Fresh
    <3>1. u \in dead'
      BY <1>1, <2>2 DEF Fresh
    <3>2. IsIn(u, "gone")'
      BY <3>1 DEF IsIn
    <3>3. PhaseOf(u)' = "gone"
      BY <3>2, PhaseOfNext
    <3>4. PICK p : IsIn(u, p)
      BY StandsSomewhere
    <3>5. p # "unknown"
      BY <2>2, <3>4 DEF IsIn
    <3>6. PhaseOf(u) = p
      BY <3>4, PhaseOfIs
    <3> QED BY <3>3, <3>5, <3>6
  <2> QED BY <2>1, <2>2
<1>5. Lifecycle!Forget
  BY <1>1, <1>3, <1>4 DEF Lifecycle!Forget
<1> QED BY <1>5 DEF Lifecycle!LifecycleNext

\* The steps of a thread inside a call.
LEMMA ThreadStepSeen ==
  ASSUME ConstantsAssumption, IInv, IInv', NEW t \in Threads, ThreadStep(t)
  PROVE  [Lifecycle!LifecycleNext]_(Lifecycle!lifecycleVars)
<1>1. CASE \/ WriteLocked(t) \/ WriteMappedRange(t) \/ CommitChunk(t) \/ AwaitReturn(t)
           \/ Seal(t) \/ Decide(t) \/ NextInLoop(t) \/ RememberCompleted(t)
  BY <1>1, QuietThreadSteps
<1>2. CASE AbortFile(t)
  <2>1. {call[t].id} \in SUBSET FileIds
    <3>1. pc[t] = "abort"
      BY <1>2 DEF AbortFile
    <3> QED BY <3>1 DEF IInv, ThreadsGood, ThreadGood, PointerGood
  <2> QED BY <1>2, <2>1, AbortSeen DEF AbortFile
<1> QED BY <1>1, <1>2, FinalizeLockedSeen, PublishSeen, CompleteSeen, FailSeen,
           CloseUnseen, RetireSeen DEF ThreadStep

\* The start of a call.
LEMMA RequestSeen ==
  ASSUME ConstantsAssumption, IInv, IInv', NEW t \in Workers, Request(t)
  PROVE  [Lifecycle!LifecycleNext]_(Lifecycle!lifecycleVars)
<1>1. t \in Threads
  BY DEF Threads
<1>2. ASSUME NEW id, NEW i, NEW n, NEW d, WriteChunk(t, id, i, n, d)
      PROVE  \E c, label : Lookup(t, c, label)
  BY <1>2 DEF WriteChunk
<1>3. ASSUME NEW id, FinalizeFile(t, id) PROVE \E c, label : Lookup(t, c, label)
  BY <1>3 DEF FinalizeFile
<1>4. ASSUME NEW id \in FileIds, RequestAbort(t, id)
      PROVE  [Lifecycle!LifecycleNext]_(Lifecycle!lifecycleVars)
  <2>1. {id} \in SUBSET FileIds
    OBVIOUS
  <2> QED BY <1>1, <1>4, <2>1, AbortSeen DEF RequestAbort
<1>5. ASSUME NEW o, AbortFilesWithPrefix(t, o)
      PROVE  [Lifecycle!LifecycleNext]_(Lifecycle!lifecycleVars)
  <2>1. {i \in FileIds : Owner[i] = o} \in SUBSET FileIds
    OBVIOUS
  <2> QED BY <1>1, <1>5, <2>1, AbortSeen DEF AbortFilesWithPrefix
<1>6. CASE \E c, label : Lookup(t, c, label)
  BY <1>1, <1>6, QuietThreadSteps
<1> QED BY <1>2, <1>3, <1>4, <1>5, <1>6 DEF Request

\* Every step of FileWriter is a step of UploadLifecycle, or one it does not see.
LEMMA NextSeen ==
  ASSUME ConstantsAssumption, IInv, IInv', [Next]_vars
  PROVE  [Lifecycle!LifecycleNext]_(Lifecycle!lifecycleVars)
<1>1. CASE UNCHANGED vars
  BY <1>1, UnseenSteps DEF vars, uploadVars, fixed, flags, diskVars, miscVars
<1>2. CASE ExpireIdleFiles
  <2>1. Reaper \in Threads
    BY DEF Threads
  <2>2. {i \in FileIds : handles[i] # Nil /\ handles[i] \in idle} \in SUBSET FileIds
    OBVIOUS
  <2> QED BY <1>2, <2>1, <2>2, AbortSeen DEF ExpireIdleFiles
<1>3. CASE Environment
  <2>1. ASSUME NEW u \in Uploads, TimePasses(u) PROVE UNCHANGED Lifecycle!lifecycleVars
    BY <2>1, UnseenSteps DEF TimePasses, fixed, flags, diskVars, miscVars
  <2>2. ASSUME NEW f \in Filenames, IndexFile(f) PROVE UNCHANGED Lifecycle!lifecycleVars
    BY <2>2, UnseenSteps DEF IndexFile, uploadVars, fixed, flags, diskVars, miscVars
  <2>3. ASSUME NEW f \in Filenames, NEW c \in External, ExternalChange(f, c)
        PROVE  UNCHANGED Lifecycle!lifecycleVars
    BY <2>3, UnseenSteps DEF ExternalChange, uploadVars, fixed, flags, diskVars, miscVars
  <2> QED BY <1>3, <2>1, <2>2, <2>3, RestartSeen DEF Environment
<1> QED BY <1>1, <1>2, <1>3, InitFileSeen, RequestSeen, ThreadStepSeen DEF Next

\* The first state of FileWriter is the first state of UploadLifecycle.
LEMMA InitSeen ==
  ASSUME ConstantsAssumption, IInv, Init
  PROVE  Lifecycle!LifecycleInit
<1>1. /\ idOf = [u \in Uploads |-> Nil] /\ published = [u \in Uploads |-> {}]
      /\ reserved = {}
  BY DEF Init
<1>2. Fresh = Uploads /\ SavedUploads = {} /\ Charged = {}
  BY <1>1 DEF Fresh, SavedUploads, Charged
<1>3. \A u \in Uploads : PhaseOf(u) = "unknown"
  <2>1. \A u \in Uploads : IsIn(u, "unknown")
    BY <1>2 DEF IsIn
  <2> QED BY <2>1, PhaseOfIs
<1> QED BY <1>2, <1>3 DEF Lifecycle!LifecycleInit, SavedUploads
----------------------------------------------------------------------------
(* QueueInv: what is remembered *)

MayRemember(t) ==
  /\ cur[t] \in failed \cup completed
  /\ sessions[idOf[cur[t]]] = cur[t] /\ ~Queued(idOf[cur[t]])
Placed(u) ==
  IsActive(u) \/ u \in failed \/ \E t \in Threads : Finalizing(t) /\ cur[t] = u

\* Uploads leave m_handles and their reservations, and outcomes are added.
OnlySettles ==
  /\ UNCHANGED <<sessions, order, idOf, dead>>
  /\ \A i \in FileIds : handles'[i] \in {handles[i], Nil}
  /\ reserved' \subseteq reserved /\ failed \subseteq failed' /\ completed \subseteq completed'

\* What the step of one thread has to see to.
LEMMA QueueStep ==
  ASSUME IInv, QueueInv, NEW t \in Threads, Others(t), OnlySettles,
         \A u \in Live : u \in reserved' /\ IsActive(u) =>
            IsActive(u)' \/ u \in failed' \/ (Finalizing(t)' /\ cur'[t] = u),
         Finalizing(t) => \/ cur[t] \in failed' \/ cur[t] \notin reserved'
                          \/ Finalizing(t)' /\ cur'[t] = cur[t],
         \A r \in Threads \ {t} : Finalizing(r) => cur[r] \in reserved',
         Finalizing(t)' => cur'[t] \in reserved',
         pc'[t] = "remember" =>
            /\ MayRemember(t)'
            /\ \A r \in Threads \ {t} : pc[r] = "remember" => cur[r] # cur'[t]
  PROVE  QueueInv'
<1>1. Live' = Live /\ UNCHANGED <<sessions, order, idOf>>
  BY DEF OnlySettles, Live
<1>2. ASSUME NEW r \in Threads \ {t}
      PROVE  /\ pc'[r] = pc[r] /\ cur'[r] = cur[r] /\ (Finalizing(r)' <=> Finalizing(r))
  BY DEF Others, SameThread, Finalizing
<1>3. ReservedGood'
  <2>1. ASSUME NEW u \in Live, u \in reserved' PROVE Placed(u)'
    <3>1. Placed(u)
      BY <2>1 DEF QueueInv, ReservedGood, OnlySettles, Placed
    <3>2. CASE IsActive(u)
      BY <2>1, <3>2 DEF Placed
    <3>3. CASE u \in failed
      BY <3>3 DEF Placed, OnlySettles
    <3>4. ASSUME NEW r \in Threads, Finalizing(r), cur[r] = u PROVE Placed(u)'
      <4>1. CASE r = t
        BY <2>1, <3>4, <4>1 DEF Placed
      <4>2. CASE r # t
        BY <1>2, <3>4, <4>2 DEF Placed
      <4> QED BY <4>1, <4>2
    <3> QED BY <3>1, <3>2, <3>3, <3>4 DEF Placed
  <2>2. \A r \in Threads : Finalizing(r)' => cur'[r] \in reserved'
    BY <1>2
  <2> QED BY <1>1, <2>1, <2>2 DEF ReservedGood, Placed
<1>4. QueueGood'
  <2>1. \A k \in 1 .. Len(order) : order[k] \in FileIds
    <3>1. order \in Seq(FileIds)
      BY DEF IInv, TypeOK, MapTypes
    <3> QED BY ONLY SMTT(60), <3>1
  <2>2. ASSUME NEW k \in 1 .. Len(order)
        PROVE  /\ sessions[order[k]] # Nil /\ handles'[order[k]] = Nil
               /\ sessions[order[k]] \in (failed' \cup completed') \ reserved'
    <3>1. /\ sessions[order[k]] # Nil /\ handles[order[k]] = Nil
          /\ sessions[order[k]] \in (failed \cup completed) \ reserved
      BY DEF QueueInv, QueueGood
    <3>2. handles'[order[k]] \in {handles[order[k]], Nil}
      BY <2>1 DEF OnlySettles
    <3> QED BY <3>1, <3>2 DEF OnlySettles
  <2> QED BY <1>1, <2>2 DEF QueueInv, QueueGood
<1>5. RememberGood'
  <2>1. ASSUME NEW r \in Threads, pc'[r] = "remember" PROVE MayRemember(r)'
    <3>1. CASE r = t
      BY <2>1, <3>1
    <3>2. CASE r # t
      <4>1. MayRemember(r) /\ cur'[r] = cur[r]
        BY <1>2, <2>1, <3>2 DEF QueueInv, RememberGood, MayRemember
      <4> QED BY <1>1, <4>1 DEF MayRemember, OnlySettles, Queued
    <3> QED BY <3>1, <3>2
  <2>2. ASSUME NEW r \in Threads, NEW w \in Threads, pc'[r] = "remember", pc'[w] = "remember",
               cur'[w] = cur'[r]
        PROVE  w = r
    <3>1. CASE r = t \/ w = t
      BY <1>2, <2>2, <3>1
    <3>2. CASE r # t /\ w # t
      <4>1. pc[r] = "remember" /\ pc[w] = "remember" /\ cur[w] = cur[r]
        BY <1>2, <2>2, <3>2
      <4> QED BY <4>1 DEF QueueInv, RememberGood
    <3> QED BY <3>1, <3>2
  <2> QED BY <2>1, <2>2 DEF RememberGood, MayRemember
<1> QED BY <1>3, <1>4, <1>5 DEF QueueInv

\* A step of a thread that neither finalizes nor remembers changes none of it.
LEMMA QueueQuiet ==
  ASSUME IInv, QueueInv, NEW t \in Threads, Others(t),
         UNCHANGED <<handles, sessions, order, idOf, dead, reserved, failed, completed>>,
         ~Finalizing(t), ~Finalizing(t)', pc'[t] # "remember"
  PROVE  QueueInv'
<1>1. OnlySettles
  BY DEF OnlySettles
<1>2. \A u \in Live : IsActive(u) => IsActive(u)'
  BY DEF IsActive
<1>3. \A r \in Threads \ {t} : Finalizing(r) => cur[r] \in reserved'
  BY DEF QueueInv, ReservedGood
<1> QED BY <1>1, <1>2, <1>3, QueueStep

\* Nor does a finalizer that goes on with its upload.
LEMMA QueueGoesOn ==
  ASSUME IInv, QueueInv, NEW t \in Threads, Others(t),
         UNCHANGED <<handles, sessions, order, idOf, dead, reserved, failed, completed>>,
         Finalizing(t), Finalizing(t)', cur'[t] = cur[t]
  PROVE  QueueInv'
<1>1. OnlySettles
  BY DEF OnlySettles
<1>2. \A u \in Live : IsActive(u) => IsActive(u)'
  BY DEF IsActive
<1>3. \A r \in Threads : Finalizing(r) => cur[r] \in reserved'
  BY DEF QueueInv, ReservedGood
<1>4. pc'[t] # "remember"
  BY DEF Finalizing
<1> QED BY <1>1, <1>2, <1>3, <1>4, QueueStep

\* A call that returns without having finalized or released anything.
LEMMA FinishQueue ==
  ASSUME ConstantsAssumption, IInv, QueueInv, NEW t \in Threads, Finish(t), ~Finalizing(t),
         UNCHANGED <<handles, sessions, order, idOf, dead, reserved, failed, completed>>
  PROVE  QueueInv'
<1>1. Others(t) /\ pc'[t] = "idle"
  BY FinishTypes DEF IInv, TypeOK
<1>2. ~Finalizing(t)' /\ pc'[t] # "remember"
  BY <1>1 DEF Finalizing
<1> QED BY <1>1, <1>2, QueueQuiet

\* The lookup with which a request starts.
LEMMA LookupQueue ==
  ASSUME IInv, QueueInv, NEW t \in Threads, NEW c, NEW label, Lookup(t, c, label),
         label \in {"writeLock", "finalLock"}
  PROVE  QueueInv'
<1>1. /\ UNCHANGED <<handles, sessions, order, idOf, dead, reserved, failed, completed>>
      /\ pc[t] = "idle"
  BY DEF Lookup, maps, uploadVars, fixed, flags, miscVars
<1>2. Others(t) /\ pc'[t] \in {label, "await"}
  BY DEF Lookup, Goto, Others, SameThread, IInv, TypeOK, ThreadTypes
<1>3. ~Finalizing(t) /\ ~Finalizing(t)' /\ pc'[t] # "remember"
  BY <1>1, <1>2 DEF Finalizing
<1> QED BY <1>1, <1>2, <1>3, QueueQuiet

\* writeChunk and the waiting calls.
LEMMA WriterQueue ==
  ASSUME ConstantsAssumption, IInv, QueueInv, NEW t \in Threads,
         WriteLocked(t) \/ WriteMappedRange(t) \/ CommitChunk(t) \/ AwaitReturn(t)
  PROVE  QueueInv'
<1>1. UNCHANGED <<handles, sessions, order, idOf, dead, reserved, failed, completed>>
  BY DEF WriteLocked, WriteMappedRange, CommitChunk, AwaitReturn, maps, fixed, flags
<1>2. pc[t] \in {"writeLock", "write", "commit", "await"}
  BY DEF WriteLocked, WriteMappedRange, CommitChunk, AwaitReturn
<1>3. ~Finalizing(t)
  BY <1>2 DEF Finalizing
<1>4. CASE Finish(t)
  BY <1>1, <1>3, <1>4, FinishQueue
<1>5. CASE ~Finish(t)
  <2>1. Others(t) /\ pc'[t] \in {"write", "await", "commit", "abort"}
    <3>1. pc \in [Threads -> Labels] /\ call \in [Threads -> Calls] /\ cur \in [Threads -> Maybe(Uploads)]
          /\ own \in [Threads -> Maybe(Uploads)]
      BY DEF IInv, TypeOK, ThreadTypes
    <3>2. CASE WriteLocked(t)
      BY <1>5, <3>1, <3>2 DEF WriteLocked, Goto, Others, SameThread
    <3>3. CASE WriteMappedRange(t)
      BY <3>1, <3>3 DEF WriteMappedRange, Goto, Others, SameThread
    <3> QED BY <1>5, <3>2, <3>3 DEF CommitChunk, AwaitReturn
  <2>2. ~Finalizing(t)' /\ pc'[t] # "remember"
    BY <2>1 DEF Finalizing
  <2> QED BY <1>1, <1>3, <2>1, <2>2, QueueQuiet
<1> QED BY <1>4, <1>5

\* The loops of abortMatching and of the reaper; an aborted upload is closed.
LEMMA LoopQueue ==
  ASSUME ConstantsAssumption, IInv, QueueInv, NEW t \in Threads, NextInLoop(t) \/ CloseAborted(t)
  PROVE  QueueInv'
<1>1. /\ UNCHANGED <<handles, sessions, order, idOf, dead, reserved, completed>>
      /\ pc[t] \in {"next", "close"}
  BY DEF NextInLoop, CloseAborted, maps, fixed, flags
<1>2. ~Finalizing(t)
  BY <1>1 DEF Finalizing
<1>3. UNCHANGED failed
  <2>1. CASE NextInLoop(t)
    BY <2>1 DEF NextInLoop, flags
  <2>2. CASE CloseAborted(t)
    <3>1. pc[t] = "close" /\ failed' = failed \cup {cur[t]}
      BY <2>2 DEF CloseAborted
    <3>2. cur[t] \in failed
      BY <3>1 DEF IInv, ThreadsGood, ThreadGood, PointerGood
    <3> QED BY <3>1, <3>2
  <2> QED BY <2>1, <2>2
<1>4. CASE Finish(t)
  BY <1>1, <1>2, <1>3, <1>4, FinishQueue
<1>5. CASE ~Finish(t)
  <2>1. Others(t) /\ pc'[t] \in {"retire", "close", "next"}
    <3>1. CASE NextInLoop(t)
      BY <1>5, <3>1 DEF NextInLoop, Goto, Others, SameThread, IInv, TypeOK, ThreadTypes
    <3>2. CASE CloseAborted(t)
      BY <3>2 DEF CloseAborted, Goto, Others, SameThread, IInv, TypeOK, ThreadTypes
    <3> QED BY <3>1, <3>2
  <2>2. ~Finalizing(t)' /\ pc'[t] # "remember"
    BY <2>1 DEF Finalizing
  <2> QED BY <1>1, <1>2, <1>3, <2>1, <2>2, QueueQuiet
<1> QED BY <1>4, <1>5

\* The finalizer before its outcome.
LEMMA FinalizerQueue ==
  ASSUME IInv, QueueInv, NEW t \in Threads, Seal(t) \/ Decide(t) \/ Publish(t)
  PROVE  QueueInv'
<1>1. /\ UNCHANGED <<handles, sessions, order, idOf, dead, reserved, failed, completed>>
      /\ UNCHANGED <<cur, call, own, todo>>
  <2>1. CASE Seal(t)
    BY <2>1 DEF Seal, maps, fixed, flags
  <2>2. CASE Decide(t) \/ Publish(t)
    <3>1. UNCHANGED <<maps, uploadVars, dead, call, cur, own, todo>>
      BY <2>2 DEF Decide, Publish
    <3> QED BY <3>1 DEF maps, uploadVars, fixed, flags
  <2> QED BY <2>1, <2>2
<1>2. pc[t] \in {"seal", "decide", "publish"}
  BY DEF Seal, Decide, Publish
<1>3. \E x \in {"decide", "publish", "complete", "fail"} : pc' = [pc EXCEPT ![t] = x]
  <2>1. CASE Seal(t)
    BY <2>1 DEF Seal, Goto
  <2>2. CASE Decide(t)
    BY <2>2 DEF Decide, Goto
  <2>3. CASE Publish(t)
    BY <2>3 DEF Publish, Goto
  <2> QED BY <2>1, <2>2, <2>3
<1>4. pc'[t] \in {"decide", "publish", "complete", "fail"} /\ \A r \in Threads \ {t} : pc'[r] = pc[r]
  <2>1. pc \in [Threads -> Labels]
    BY DEF IInv, TypeOK, ThreadTypes
  <2> QED BY <1>3, <2>1
<1>5. verdict \in [Threads -> Verdicts]
  BY DEF IInv, TypeOK, ThreadTypes
<1>6. Others(t)
  <2>1. ASSUME NEW r \in Threads \ {t} PROVE verdict'[r] = verdict[r]
    <3>1. CASE Seal(t)
      BY <1>5, <3>1 DEF Seal
    <3>2. CASE Decide(t)
      BY <1>5, <3>2 DEF Decide, Plan
    <3>3. CASE Publish(t)
      BY <3>3 DEF Publish
    <3> QED BY <3>1, <3>2, <3>3
  <2> QED BY <1>1, <1>4, <2>1 DEF Others, SameThread
<1>7. Finalizing(t) /\ Finalizing(t)' /\ cur'[t] = cur[t]
  BY <1>1, <1>2, <1>4 DEF Finalizing
<1> QED BY <1>1, <1>6, <1>7, QueueGoesOn

\* finalizeFileResult moves a handle out and goes on with its upload.
LEMMA FinalizeLockedQueue ==
  ASSUME ConstantsAssumption, IInv, QueueInv, NEW t \in Threads, FinalizeLocked(t)
  PROVE  QueueInv'
<1>1. PICK u : u = cur[t]
  OBVIOUS
<1>2. /\ UNCHANGED <<sessions, order, idOf, dead, reserved, failed, completed>>
      /\ pc[t] = "finalLock"
  BY DEF FinalizeLocked, fixed
<1>3. ~Finalizing(t)
  BY <1>2 DEF Finalizing
<1>4. CASE Finish(t) /\ UNCHANGED handles
  BY <1>2, <1>3, <1>4, FinishQueue
<1>5. CASE \E x \in {"abort", "await"} :
             /\ pc' = [pc EXCEPT ![t] = x] /\ UNCHANGED <<handles, call, own, todo, verdict>>
             /\ cur' \in {cur, [cur EXCEPT ![t] = sessions[call[t].id]]}
  <2>1. Others(t) /\ pc'[t] \in {"abort", "await"}
    BY <1>5 DEF Others, SameThread, IInv, TypeOK, ThreadTypes
  <2>2. ~Finalizing(t)' /\ pc'[t] # "remember"
    BY <2>1 DEF Finalizing
  <2> QED BY <1>2, <1>3, <1>5, <2>1, <2>2, QueueQuiet
<1>6. CASE /\ handles[call[t].id] # Nil /\ handles' = [handles EXCEPT ![call[t].id] = Nil]
           /\ pc' = [pc EXCEPT ![t] = "seal"] /\ own' = [own EXCEPT ![t] = handles[call[t].id]]
           /\ UNCHANGED <<call, cur, todo, verdict>>
  <2>1. u \in Live /\ u \in Uploads /\ handles[call[t].id] = u /\ call[t].id \in FileIds
    <3>1. pc[t] \notin {"idle", "abort", "next"}
      BY <1>2
    <3> QED BY <1>1, <1>6, <3>1, SecondLook
  <2>2. u \in reserved
    BY <2>1 DEF IInv, UploadsGood, ActiveIsIntact, IsActive
  <2>3. Others(t) /\ pc'[t] = "seal" /\ cur'[t] = u
    BY <1>1, <1>6 DEF Others, SameThread, IInv, TypeOK, ThreadTypes
  <2>4. Finalizing(t)' /\ pc'[t] # "remember"
    BY <2>3 DEF Finalizing
  <2>5. \A i \in FileIds : handles'[i] = IF i = call[t].id THEN Nil ELSE handles[i]
    BY <1>6, <2>1 DEF IInv, TypeOK, MapTypes
  <2>6. OnlySettles
    BY <1>2, <2>5 DEF OnlySettles
  <2>7. \A v \in Live : IsActive(v) => IsActive(v)' \/ v = u
    BY <2>1, <2>5 DEF IsActive
  <2>8. \A r \in Threads \ {t} : Finalizing(r) => cur[r] \in reserved'
    BY <1>2 DEF QueueInv, ReservedGood
  <2> QED BY <1>2, <1>3, <2>2, <2>3, <2>4, <2>6, <2>7, <2>8, QueueStep
<1> QED BY <1>4, <1>5, <1>6 DEF FinalizeLocked, Goto

\* The sessions that are remembered are not charged, so that none of them is the
\* one whose space is released now.
LEMMA ReleasedOnce ==
  ASSUME ConstantsAssumption, IInv, QueueInv, NEW u \in Live, u \in reserved
  PROVE  /\ sessions[idOf[u]] = u /\ ~Queued(idOf[u])
         /\ \A r \in Threads : pc[r] = "remember" => cur[r] # u
<1>1. sessions[idOf[u]] = u
  BY DEF IInv, UploadsGood, ReservationsKept
<1>2. ~Queued(idOf[u])
  <2>1. \A k \in 1 .. Len(order) : sessions[order[k]] \notin reserved
    BY DEF IInv, UploadsGood, ReservationsKept
  <2> QED BY <1>1, <2>1 DEF Queued
<1>3. \A r \in Threads : pc[r] = "remember" => cur[r] # u
  BY DEF IInv, ThreadsGood, ThreadGood, PointerGood
<1> QED BY <1>1, <1>2, <1>3

\* The outcome is set, the space released, and the session is about to be added.
LEMMA ReleaseQueue ==
  ASSUME ConstantsAssumption, IInv, QueueInv, NEW t \in Threads, NEW u \in Live, u = cur[t], u \in reserved,
         Others(t), OnlySettles, UNCHANGED handles, reserved' = reserved \ {u},
         u \in failed' \cup completed', pc'[t] = "remember", cur'[t] = u,
         \A r \in Threads \ {t} : Finalizing(r) => cur[r] # u
  PROVE  QueueInv'
<1>1. /\ sessions[idOf[u]] = u /\ ~Queued(idOf[u])
      /\ \A r \in Threads : pc[r] = "remember" => cur[r] # u
  BY ReleasedOnce
<1>2. MayRemember(t)'
  BY <1>1 DEF MayRemember, OnlySettles, Queued
<1>3. \A r \in Threads \ {t} : Finalizing(r) => cur[r] \in reserved'
  BY DEF QueueInv, ReservedGood
<1>4. ~Finalizing(t)'
  BY DEF Finalizing
<1>5. \A v \in Live : IsActive(v) => IsActive(v)'
  BY DEF IsActive
<1>6. cur[t] \notin reserved'
  OBVIOUS
<1> QED BY <1>1, <1>2, <1>3, <1>4, <1>5, <1>6, QueueStep

\* A finalization completes.
LEMMA CompleteQueue ==
  ASSUME ConstantsAssumption, IInv, QueueInv, NEW t \in Threads, Complete(t)
  PROVE  QueueInv'
<1>1. PICK u : u = cur[t]
  OBVIOUS
<1>2. /\ UNCHANGED <<handles, sessions, order, idOf, dead, failed, call, cur, own, todo, verdict>>
      /\ Finalizing(t) /\ pc' = [pc EXCEPT ![t] = "remember"]
      /\ completed' = completed \cup {u} /\ reserved' = reserved \ {u}
  BY <1>1 DEF Complete, Finalizing, maps, fixed, miscVars, Goto
<1>3. Others(t) /\ pc'[t] = "remember" /\ cur'[t] = u
  BY <1>1, <1>2 DEF Others, SameThread, IInv, TypeOK, ThreadTypes
<1>4. u \in Live /\ \A r \in Threads \ {t} : Finalizing(r) => cur[r] # u
  BY <1>1, <1>2, FinalizerFacts
<1>5. u \in reserved
  BY <1>1, <1>2 DEF QueueInv, ReservedGood
<1>6. OnlySettles /\ u \in completed'
  BY <1>2 DEF OnlySettles
<1> QED BY <1>1, <1>2, <1>3, <1>4, <1>5, <1>6, ReleaseQueue

\* A finalization fails: its upload is marked for the reaper.
LEMMA FailQueue ==
  ASSUME ConstantsAssumption, IInv, QueueInv, NEW t \in Threads, FailFinalization(t)
  PROVE  QueueInv'
<1>1. /\ UNCHANGED <<handles, sessions, order, idOf, dead, completed, reserved, call, cur, own>>
      /\ UNCHANGED <<todo, verdict>>
      /\ pc' = [pc EXCEPT ![t] = "retire"] /\ failed' = failed \cup {cur[t]}
  BY DEF FailFinalization, maps, fixed, miscVars, Goto
<1>2. Others(t) /\ pc'[t] = "retire" /\ cur[t] \in failed'
  BY <1>1 DEF Others, SameThread, IInv, TypeOK, ThreadTypes
<1>3. OnlySettles
  BY <1>1 DEF OnlySettles
<1>4. \A v \in Live : IsActive(v) => IsActive(v)'
  BY <1>1 DEF IsActive
<1>5. \A r \in Threads \ {t} : Finalizing(r) => cur[r] \in reserved'
  BY <1>1 DEF QueueInv, ReservedGood
<1>6. ~Finalizing(t)' /\ pc'[t] # "remember"
  BY <1>2 DEF Finalizing
<1> QED BY <1>2, <1>3, <1>4, <1>5, <1>6, QueueStep

\* Aborted uploads are marked for the reaper in the step that moves them out.
LEMMA AbortQueue ==
  ASSUME ConstantsAssumption, IInv, QueueInv, NEW t \in Threads, NEW M, NEW j, AbortMatching(t, M, j),
         ~Finalizing(t)
  PROVE  QueueInv'
<1>1. /\ UNCHANGED <<sessions, order, idOf, dead, completed, reserved>>
      /\ handles' = [i \in FileIds |-> IF i \in M THEN Nil ELSE handles[i]]
      /\ failed' = failed \cup Matched(M)
  BY DEF AbortMatching, fixed, miscVars
<1>2. Others(t) /\ pc'[t] = "next"
  BY DEF AbortMatching, Goto, Others, SameThread, IInv, TypeOK, ThreadTypes
<1>3. OnlySettles
  BY <1>1 DEF OnlySettles
<1>4. ASSUME NEW u \in Live, IsActive(u) PROVE IsActive(u)' \/ u \in failed'
  <2>1. PICK i \in FileIds : handles[i] = u
    BY <1>4 DEF IsActive
  <2>2. u # Nil
    BY DEF Live, ConstantsAssumption
  <2>3. CASE i \in M
    BY <1>1, <2>1, <2>2, <2>3 DEF Matched
  <2>4. CASE i \notin M
    BY <1>1, <2>1, <2>4 DEF IsActive
  <2> QED BY <2>3, <2>4
<1>5. \A r \in Threads \ {t} : Finalizing(r) => cur[r] \in reserved'
  BY <1>1 DEF QueueInv, ReservedGood
<1>6. ~Finalizing(t)' /\ pc'[t] # "remember"
  BY <1>2 DEF Finalizing
<1> QED BY <1>2, <1>3, <1>4, <1>5, <1>6, QueueStep

\* retireTemporary releases a failed upload, or leaves it to the reaper.
LEMMA RetireQueue ==
  ASSUME ConstantsAssumption, IInv, QueueInv, NEW t \in Threads, RetireTemporary(t)
  PROVE  QueueInv'
<1>1. PICK u : u = cur[t]
  OBVIOUS
<1>2. UNCHANGED <<handles, sessions, order, idOf, dead, completed, failed>> /\ pc[t] = "retire"
  BY DEF RetireTemporary, maps, fixed
<1>3. ~Finalizing(t)
  BY <1>2 DEF Finalizing
<1>4. CASE ReturnFromRetire(t) /\ UNCHANGED reserved
  <2>1. Others(t) /\ pc'[t] \in {"idle", "next"}
    BY <1>4, ReturnEffect DEF IInv, TypeOK
  <2>2. ~Finalizing(t)' /\ pc'[t] # "remember"
    BY <2>1 DEF Finalizing
  <2> QED BY <1>2, <1>3, <1>4, <2>1, <2>2, QueueQuiet
<1>5. CASE /\ u \in reserved /\ reserved' = reserved \ {u} /\ pc' = [pc EXCEPT ![t] = "remember"]
           /\ UNCHANGED <<call, cur, own, todo, verdict>>
  <2>1. Others(t) /\ pc'[t] = "remember" /\ cur'[t] = u
    BY <1>1, <1>5 DEF Others, SameThread, IInv, TypeOK, ThreadTypes
  <2>2. u \in Live /\ u \in failed
    <3>1. pc[t] \notin {"idle", "abort", "next"} /\ pc[t] \in {"close", "retire"}
      BY <1>2
    <3> QED BY <1>1, <3>1, SecondLook DEF IInv, ThreadsGood, ThreadGood, PointerGood
  <2>3. \A r \in Threads \ {t} : Finalizing(r) => cur[r] # u
    <3>1. \A r \in Threads : Finalizing(r) => cur[r] \notin failed
      BY DEF IInv, ThreadsGood, ThreadGood, FinalizerGood
    <3> QED BY <2>2, <3>1
  <2>4. OnlySettles /\ u \in failed'
    BY <1>2, <1>5, <2>2 DEF OnlySettles
  <2> QED BY <1>1, <1>2, <1>5, <2>1, <2>2, <2>3, <2>4, ReleaseQueue
<1> QED BY <1>1, <1>4, <1>5 DEF RetireTemporary, Goto

\* rememberCompletedSessionLocked: an id that was not in the queue is added, and
\* one that leaves it for that is not in it any more.
LEMMA EvictionEffect ==
  ASSUME NEW s, NEW id \in FileIds, order \in Seq(FileIds), RememberCompletedSession(s, id),
         ~Queued(id), \A i, j \in 1 .. Len(order) : order[i] = order[j] => i = j
  PROVE  /\ \A i, j \in 1 .. Len(order') : order'[i] = order'[j] => i = j
         /\ \A x : Queued(x)' => x \in FileIds /\ (x = id \/ Queued(x))
         /\ \/ sessions' = s
            \/ \E h \in FileIds : (h = id \/ Queued(h)) /\ ~Queued(h)' /\ sessions' = [s EXCEPT ![h] = Nil]
<1> DEFINE q == Append(order, id)
           n == Len(order)
<1>1. /\ q \in Seq(FileIds) /\ Len(q) = n + 1 /\ n \in Nat
      /\ q[n + 1] = id /\ \A k \in 1 .. n : q[k] = order[k]
  BY ONLY SMTT(60), order \in Seq(FileIds), id \in FileIds
<1>2. \A k \in 1 .. n : order[k] # id
  BY DEF Queued
<1> HIDE DEF q, n
<1>3. \A i, j \in 1 .. n : order[i] = order[j] => i = j
  BY DEF n
<1>4. \A i, j \in 1 .. n + 1 : q[i] = q[j] => i = j
  BY ONLY SMTT(60), <1>1, <1>2, <1>3
<1>5. \A k \in 1 .. n + 1 : q[k] \in FileIds /\ (q[k] = id \/ Queued(q[k]))
  <2>1. \A k \in 1 .. n + 1 : q[k] \in FileIds
    BY ONLY SMTT(60), <1>1
  <2>2. \A k \in 1 .. n + 1 : q[k] = id \/ k \in 1 .. n
    BY ONLY SMTT(60), <1>1
  <2> QED BY <1>1, <2>1, <2>2 DEF Queued, n
<1>6. /\ Tail(q) \in Seq(FileIds) /\ Len(Tail(q)) = n /\ Head(q) = q[1]
      /\ \A k \in 1 .. n : k + 1 \in 1 .. n + 1 /\ k + 1 # 1 /\ Tail(q)[k] = q[k + 1]
      /\ 1 \in 1 .. n + 1
  <2>1. q # <<>>
    BY ONLY SMTT(60), <1>1
  <2> QED BY ONLY SMTT(60), <1>1, <2>1
<1>7. CASE order' = q /\ sessions' = s
  <2>1. Len(order') = n + 1
    BY <1>1, <1>7
  <2> QED BY <1>4, <1>5, <1>7, <2>1 DEF Queued
<1>8. CASE order' = Tail(q) /\ (sessions' = s \/ sessions' = [s EXCEPT ![Head(q)] = Nil])
  <2>1. PICK x : x = q[1]
    OBVIOUS
  <2>2. Len(order') = n
    BY <1>6, <1>8
  <2>3. ASSUME NEW k \in 1 .. n
        PROVE  order'[k] = q[k + 1] /\ k + 1 \in 1 .. n + 1 /\ order'[k] # x
    <3>1. order'[k] = q[k + 1] /\ k + 1 \in 1 .. n + 1 /\ k + 1 # 1
      BY <1>6, <1>8
    <3> QED BY <1>4, <1>6, <2>1, <3>1
  <2>4. \A i, j \in 1 .. n : order'[i] = order'[j] => i = j
    <3> SUFFICES ASSUME NEW i \in 1 .. n, NEW j \in 1 .. n, order'[i] = order'[j] PROVE i = j
      OBVIOUS
    <3>1. i + 1 = j + 1
      BY <1>4, <2>3
    <3> QED BY ONLY SMTT(60), <1>1, <3>1
  <2>5. ASSUME NEW y, Queued(y)' PROVE y \in FileIds /\ (y = id \/ Queued(y))
    <3>1. PICK k \in 1 .. n : order'[k] = y
      BY <2>2, <2>5 DEF Queued
    <3> QED BY <1>5, <2>3, <3>1
  <2>6. x \in FileIds /\ (x = id \/ Queued(x)) /\ ~Queued(x)'
    <3>1. ~Queued(x)'
      BY <2>2, <2>3 DEF Queued
    <3> QED BY <1>5, <1>6, <2>1, <3>1
  <2>7. sessions' = s \/ sessions' = [s EXCEPT ![x] = Nil]
    BY <1>6, <1>8, <2>1
  <2> QED BY <2>2, <2>4, <2>5, <2>6, <2>7
<1> QED BY <1>7, <1>8 DEF RememberCompletedSession, q

\* Adding a settled session keeps the queue good, and leaves alone the sessions
\* of ids that are not in it.
LEMMA AddToQueue ==
  ASSUME IInv, QueueInv, NEW id \in FileIds, ~Queued(id), handles[id] = Nil, UNCHANGED handles,
         NEW s \in [FileIds -> Maybe(Uploads)], RememberCompletedSession(s, id),
         \A i \in FileIds \ {id} : s[i] = sessions[i],
         s[id] # Nil, s[id] \in (failed' \cup completed') \ reserved',
         failed \subseteq failed', completed \subseteq completed', reserved' = reserved
  PROVE  /\ QueueGood'
         /\ \A i \in FileIds \ {id} : ~Queued(i) => sessions'[i] = sessions[i] /\ ~Queued(i)'
<1>1. order \in Seq(FileIds) /\ \A i, j \in 1 .. Len(order) : order[i] = order[j] => i = j
  BY DEF IInv, TypeOK, MapTypes, QueueInv, QueueGood
<1>2. /\ \A i, j \in 1 .. Len(order') : order'[i] = order'[j] => i = j
      /\ \A x : Queued(x)' => x \in FileIds /\ (x = id \/ Queued(x))
      /\ \/ sessions' = s
         \/ \E h \in FileIds : (h = id \/ Queued(h)) /\ ~Queued(h)' /\ sessions' = [s EXCEPT ![h] = Nil]
  BY <1>1, EvictionEffect
<1>3. ASSUME NEW i \in FileIds, Queued(i)' \/ (i # id /\ ~Queued(i)) PROVE sessions'[i] = s[i]
  <2>1. CASE sessions' = s
    BY <2>1
  <2>2. ASSUME NEW h \in FileIds, h = id \/ Queued(h), ~Queued(h)', sessions' = [s EXCEPT ![h] = Nil]
        PROVE  sessions'[i] = s[i]
    <3>1. i # h
      BY <1>3, <2>2
    <3> QED BY <2>2, <3>1
  <2> QED BY <1>2, <2>1, <2>2
<1>4. ASSUME NEW i, Queued(i)'
      PROVE  /\ sessions'[i] # Nil /\ handles'[i] = Nil
             /\ sessions'[i] \in (failed' \cup completed') \ reserved'
  <2>1. i \in FileIds /\ (i = id \/ Queued(i)) /\ sessions'[i] = s[i]
    BY <1>2, <1>3, <1>4
  <2>2. CASE i = id
    BY <2>1, <2>2
  <2>3. CASE i # id /\ Queued(i)
    <3>1. /\ sessions[i] # Nil /\ handles[i] = Nil
          /\ sessions[i] \in (failed \cup completed) \ reserved
      BY <2>3 DEF Queued, QueueInv, QueueGood
    <3>2. s[i] = sessions[i]
      BY <2>1, <2>3
    <3> QED BY <2>1, <3>1, <3>2
  <2> QED BY <2>1, <2>2, <2>3
<1>5. QueueGood'
  <2>1. \A k \in 1 .. Len(order') :
          /\ sessions'[order'[k]] # Nil /\ handles'[order'[k]] = Nil
          /\ sessions'[order'[k]] \in (failed' \cup completed') \ reserved'
    <3> SUFFICES ASSUME NEW k \in 1 .. Len(order'), NEW i, i = order'[k]
                 PROVE  /\ sessions'[i] # Nil /\ handles'[i] = Nil
                        /\ sessions'[i] \in (failed' \cup completed') \ reserved'
      OBVIOUS
    <3>1. Queued(i)'
      BY DEF Queued
    <3> QED BY <1>4, <3>1
  <2> QED BY <1>2, <2>1 DEF QueueGood
<1>6. \A i \in FileIds \ {id} : ~Queued(i) => sessions'[i] = sessions[i] /\ ~Queued(i)'
  BY <1>2, <1>3
<1> QED BY <1>5, <1>6

\* A released session is added, once, by the thread that released it.
LEMMA RememberQueue ==
  ASSUME ConstantsAssumption, IInv, QueueInv, NEW t \in Threads, RememberCompleted(t)
  PROVE  QueueInv'
<1>1. PICK u, id : u = cur[t] /\ id = call[t].id
  OBVIOUS
<1>2. /\ UNCHANGED <<handles, idOf, dead, completed, failed, reserved>> /\ pc[t] = "remember"
      /\ ReturnFromRetire(t) /\ RememberCompletedSession(sessions, id)
  BY <1>1 DEF RememberCompleted, fixed, flags
<1>3. u \in Live /\ u \in Uploads /\ id \in FileIds /\ id = idOf[u] /\ handles[id] \in {u, Nil}
  <2>1. pc[t] \notin {"idle", "abort", "next"}
    BY <1>2
  <2> QED BY <1>1, <2>1, SecondLook
<1>4. /\ u \in failed \cup completed /\ sessions[id] = u /\ ~Queued(id)
      /\ \A r \in Threads \ {t} : pc[r] = "remember" => cur[r] # u
  BY <1>1, <1>2, <1>3 DEF QueueInv, RememberGood
<1>5. u \notin reserved /\ u # Nil
  BY <1>1, <1>2, <1>3 DEF IInv, ThreadsGood, ThreadGood, PointerGood, ConstantsAssumption
<1>6. handles[id] = Nil
  <2>1. ~IsActive(u)
    BY <1>3, <1>5 DEF IInv, UploadsGood, ActiveIsIntact
  <2> QED BY <1>3, <2>1 DEF IsActive
<1>7. /\ QueueGood'
      /\ \A i \in FileIds \ {id} : ~Queued(i) => sessions'[i] = sessions[i] /\ ~Queued(i)'
  <2>1. sessions \in [FileIds -> Maybe(Uploads)]
    BY DEF IInv, TypeOK, MapTypes
  <2> QED BY <1>2, <1>3, <1>4, <1>5, <1>6, <2>1, AddToQueue
<1>8. Others(t) /\ pc'[t] \in {"idle", "next"}
  BY <1>2, ReturnEffect DEF IInv, TypeOK
<1>9. ~Finalizing(t) /\ ~Finalizing(t)' /\ pc'[t] # "remember"
  BY <1>2, <1>8 DEF Finalizing
<1>10. ASSUME NEW r \in Threads \ {t}
       PROVE  pc'[r] = pc[r] /\ cur'[r] = cur[r] /\ (Finalizing(r)' <=> Finalizing(r))
  BY <1>8 DEF Others, SameThread, Finalizing
<1>11. ReservedGood'
  <2>1. ASSUME NEW v \in Live, v \in reserved PROVE Placed(v)'
    <3>1. Placed(v)
      BY <2>1 DEF QueueInv, ReservedGood, Placed
    <3>2. CASE IsActive(v) \/ v \in failed
      BY <1>2, <3>2 DEF IsActive, Placed
    <3>3. ASSUME NEW r \in Threads, Finalizing(r), cur[r] = v PROVE Placed(v)'
      BY <1>9, <1>10, <3>3 DEF Placed
    <3> QED BY <3>1, <3>2, <3>3 DEF Placed
  <2>2. \A r \in Threads : Finalizing(r)' => cur'[r] \in reserved
    BY <1>9, <1>10 DEF QueueInv, ReservedGood
  <2> QED BY <1>2, <2>1, <2>2 DEF ReservedGood, Placed, Live
<1>12. RememberGood'
  <2>1. ASSUME NEW r \in Threads, pc'[r] = "remember" PROVE MayRemember(r)'
    <3>1. r # t /\ pc[r] = "remember" /\ cur'[r] = cur[r] /\ cur[r] # u
      BY <1>4, <1>9, <1>10, <2>1
    <3>2. MayRemember(r)
      BY <3>1 DEF QueueInv, RememberGood, MayRemember
    <3>3. cur[r] \in Live /\ idOf[cur[r]] \in FileIds /\ idOf[cur[r]] # id
      <4>1. pc[r] \notin {"idle", "abort", "next"}
        BY <3>1
      <4>2. cur[r] \in Live /\ idOf[cur[r]] \in FileIds
        BY <4>1, SecondLook
      <4> QED BY <1>3, <3>1, <4>2 DEF IInv, UploadsGood, IdsUnique
    <3>4. PICK x : x = idOf[cur[r]]
      OBVIOUS
    <3>5. sessions'[x] = sessions[x] /\ ~Queued(x)'
      BY <1>7, <3>2, <3>3, <3>4 DEF MayRemember
    <3>6. x = idOf'[cur'[r]]
      BY <1>2, <3>1, <3>4
    <3>7. ~\E k \in 1 .. Len(order') : order'[k] = x
      BY <3>5 DEF Queued
    <3> QED BY <1>2, <3>1, <3>2, <3>4, <3>5, <3>6, <3>7 DEF MayRemember, Queued
  <2>2. ASSUME NEW r \in Threads, NEW w \in Threads, pc'[r] = "remember", pc'[w] = "remember",
               cur'[w] = cur'[r]
        PROVE  w = r
    <3>1. pc[r] = "remember" /\ pc[w] = "remember" /\ cur[w] = cur[r]
      BY <1>9, <1>10, <2>2
    <3> QED BY <3>1 DEF QueueInv, RememberGood
  <2> QED BY <2>1, <2>2 DEF RememberGood, MayRemember
<1> QED BY <1>7, <1>11, <1>12 DEF QueueInv

\* A new upload is active, or failed; a failed one without space is remembered.
LEMMA InitFileQueue ==
  ASSUME ConstantsAssumption, IInv, QueueInv, NEW id \in FileIds, NEW m \in Metas, InitFile(id, m)
  PROVE  QueueInv'
<1>1. /\ UNCHANGED <<completed, dead, pc, cur>> /\ handles[id] = Nil /\ sessions[id] = Nil
  BY DEF InitFile, threadVars
<1>2. PICK u \in Fresh :
        /\ idOf' = [idOf EXCEPT ![u] = id]
        /\ \/ /\ sessions' = [sessions EXCEPT ![id] = u] /\ handles' = [handles EXCEPT ![id] = u]
              /\ reserved' = reserved \cup {u} /\ UNCHANGED <<order, failed>>
           \/ /\ failed' = failed \cup {u} /\ UNCHANGED <<handles, reserved>>
              /\ RememberCompletedSession([sessions EXCEPT ![id] = u], id)
           \/ /\ sessions' = [sessions EXCEPT ![id] = u] /\ failed' = failed \cup {u}
              /\ reserved' = reserved \cup {u} /\ UNCHANGED <<handles, order>>
  BY DEF InitFile
<1>3. u \in Uploads /\ u \notin Live /\ u \notin reserved /\ u # Nil
  BY <1>2 DEF Fresh, Live, IInv, UploadsGood, FreshIsClean, ConstantsAssumption
<1>4. /\ \A v \in Uploads \ {u} : idOf'[v] = idOf[v]
      /\ \A v \in Live' : v = u \/ v \in Live
  <2>1. idOf \in [Uploads -> Maybe(FileIds)] /\ idOf' = [idOf EXCEPT ![u] = id]
    BY <1>2 DEF IInv, TypeOK, UploadTypes
  <2>2. \A v \in Uploads \ {u} : idOf'[v] = idOf[v]
    BY ONLY SMTT(60), <1>3, <2>1
  <2> QED BY <1>1, <2>2 DEF Live
<1>5. ~Queued(id)
  BY <1>1 DEF Queued, QueueInv, QueueGood
<1>6. handles \in [FileIds -> Maybe(Uploads)] /\ sessions \in [FileIds -> Maybe(Uploads)]
  BY DEF IInv, TypeOK, MapTypes
<1>7. \A i \in FileIds \ {id} : handles'[i] = handles[i]
  BY <1>2, <1>6
<1>8. /\ failed \subseteq failed' /\ reserved \subseteq reserved' /\ completed \subseteq completed'
      /\ \A v \in reserved' : v = u \/ v \in reserved
  BY <1>1, <1>2
<1>9. \A r \in Threads : Finalizing(r)' <=> Finalizing(r)
  BY <1>1 DEF Finalizing
<1>10. ReservedGood'
  <2>1. ASSUME NEW v \in Live', v \in reserved' PROVE Placed(v)'
    <3>1. CASE v = u
      <4>1. handles'[id] = u \/ u \in failed'
        BY <1>2, <1>6
      <4> QED BY <3>1, <4>1 DEF Placed, IsActive
    <3>2. CASE v # u
      <4>1. Placed(v)
        BY <1>4, <1>8, <2>1, <3>2 DEF QueueInv, ReservedGood, Placed
      <4>2. IsActive(v) => IsActive(v)'
        <5>1. v # Nil
          BY <1>4, <2>1, <3>2 DEF Live, ConstantsAssumption
        <5> QED BY <1>1, <1>7, <5>1 DEF IsActive
      <4> QED BY <1>1, <1>8, <1>9, <4>1, <4>2 DEF Placed
    <3> QED BY <3>1, <3>2
  <2>2. \A r \in Threads : Finalizing(r)' => cur'[r] \in reserved'
    BY <1>1, <1>8, <1>9 DEF QueueInv, ReservedGood
  <2> QED BY <2>1, <2>2 DEF ReservedGood, Placed
<1>11. /\ QueueGood'
       /\ \A i \in FileIds \ {id} : ~Queued(i) => sessions'[i] = sessions[i] /\ ~Queued(i)'
  <2>1. CASE UNCHANGED order /\ sessions' = [sessions EXCEPT ![id] = u]
    <3>1. \A i \in FileIds \ {id} : sessions'[i] = sessions[i]
      BY <1>6, <2>1
    <3>2. ASSUME NEW k \in 1 .. Len(order)
          PROVE  /\ sessions'[order[k]] # Nil /\ handles'[order[k]] = Nil
                 /\ sessions'[order[k]] \in (failed' \cup completed') \ reserved'
      <4>1. order[k] \in FileIds
        <5>1. order \in Seq(FileIds)
          BY DEF IInv, TypeOK, MapTypes
        <5> QED BY ONLY SMTT(60), <5>1, k \in 1 .. Len(order)
      <4>2. order[k] # id
        BY <1>5 DEF Queued
      <4>3. /\ sessions[order[k]] # Nil /\ handles[order[k]] = Nil
            /\ sessions[order[k]] \in (failed \cup completed) \ reserved
        BY DEF QueueInv, QueueGood
      <4>4. sessions[order[k]] # u
        BY <1>3, <4>1, <4>3 DEF IInv, UploadsGood, MapsAgree
      <4>5. sessions'[order[k]] = sessions[order[k]] /\ handles'[order[k]] = handles[order[k]]
        BY <1>7, <3>1, <4>1, <4>2
      <4> QED BY <1>8, <4>3, <4>4, <4>5
    <3>3. QueueGood'
      BY <2>1, <3>2 DEF QueueGood, QueueInv
    <3> QED BY <2>1, <3>1, <3>3 DEF Queued
  <2>2. ASSUME UNCHANGED <<handles, reserved>>, failed' = failed \cup {u},
               NEW s, s = [sessions EXCEPT ![id] = u], RememberCompletedSession(s, id)
        PROVE  /\ QueueGood'
               /\ \A i \in FileIds \ {id} : ~Queued(i) => sessions'[i] = sessions[i] /\ ~Queued(i)'
    <3>1. s \in [FileIds -> Maybe(Uploads)] /\ s[id] = u /\ \A i \in FileIds \ {id} : s[i] = sessions[i]
      <4>1. u \in Maybe(Uploads)
        BY <1>3 DEF Maybe
      <4>2. s = [sessions EXCEPT ![id] = u]
        BY <2>2
      <4> QED BY ONLY SMTT(60), <1>6, <4>1, <4>2, id \in FileIds
    <3>2. s[id] # Nil /\ s[id] \in (failed' \cup completed') \ reserved'
      BY <1>3, <2>2, <3>1
    <3> QED BY <1>1, <1>5, <1>8, <2>2, <3>1, <3>2, AddToQueue
  <2> QED BY <1>2, <2>1, <2>2
<1>12. RememberGood'
  <2>1. ASSUME NEW r \in Threads, pc'[r] = "remember" PROVE MayRemember(r)'
    <3>1. pc[r] = "remember" /\ cur'[r] = cur[r]
      BY <1>1, <2>1
    <3>2. MayRemember(r)
      BY <3>1 DEF QueueInv, RememberGood, MayRemember
    <3>3. cur[r] \in Live /\ cur[r] \in Uploads /\ idOf[cur[r]] \in FileIds /\ cur[r] # u
      <4>1. pc[r] \notin {"idle", "abort", "next"}
        BY <3>1
      <4> QED BY <1>3, <4>1, SecondLook
    <3>4. PICK x : x = idOf[cur[r]]
      OBVIOUS
    <3>5. x # id
      BY <1>1, <3>2, <3>3, <3>4 DEF MayRemember, Live, ConstantsAssumption
    <3>6. sessions'[x] = sessions[x] /\ ~Queued(x)'
      BY <1>11, <3>2, <3>3, <3>4, <3>5 DEF MayRemember
    <3>7. x = idOf'[cur'[r]]
      BY <1>4, <3>1, <3>3, <3>4
    <3>8. ~\E k \in 1 .. Len(order') : order'[k] = x
      BY <3>6 DEF Queued
    <3> QED BY <1>8, <3>1, <3>2, <3>4, <3>6, <3>7, <3>8 DEF MayRemember, Queued
  <2>2. \A r, w \in Threads : pc[r] = "remember" /\ pc[w] = "remember" /\ cur[w] = cur[r] => w = r
    BY DEF QueueInv, RememberGood
  <2> QED BY <1>1, <2>1, <2>2 DEF RememberGood, MayRemember
<1> QED BY <1>10, <1>11, <1>12 DEF QueueInv

\* The clock, the directory and the inventory.
LEMMA EnvironmentQueue ==
  ASSUME QueueInv,
         UNCHANGED <<handles, sessions, order, idOf, dead, reserved, failed, completed, pc, cur>>
  PROVE  QueueInv'
<1>1. ReservedGood'
  BY DEF QueueInv, ReservedGood, Live, IsActive, Finalizing
<1>2. QueueGood'
  BY DEF QueueInv, QueueGood
<1>3. RememberGood'
  BY DEF QueueInv, RememberGood, Queued
<1> QED BY <1>1, <1>2, <1>3 DEF QueueInv

\* A process that has just started remembers nothing.
LEMMA EmptyQueue ==
  ASSUME Live = {}, order = <<>>, pc = [t \in Threads |-> "idle"]
  PROVE  QueueInv
<1>1. 1 .. Len(order) = {}
  BY ONLY SMTT(60), order = <<>>
<1>2. \A t \in Threads : ~Finalizing(t) /\ pc[t] # "remember"
  BY DEF Finalizing
<1> QED BY <1>1, <1>2 DEF QueueInv, ReservedGood, QueueGood, RememberGood

\* Nor does one that has been restarted.
LEMMA RestartQueue ==
  ASSUME Restart
  PROVE  QueueInv'
<1>1. order' = <<>> /\ pc' = [t \in Threads |-> "idle"]
  BY DEF Restart
<1>2. Live' = {}
  BY DEF Restart, fixed, Live
<1>3. 1 .. Len(order') = {}
  BY ONLY SMTT(60), <1>1
<1>4. \A t \in Threads : ~Finalizing(t)' /\ pc'[t] # "remember"
  BY <1>1 DEF Finalizing
<1> QED BY <1>2, <1>3, <1>4 DEF QueueInv, ReservedGood, QueueGood, RememberGood

\* The steps of a thread inside a call.
LEMMA ThreadStepQueue ==
  ASSUME ConstantsAssumption, IInv, QueueInv, NEW t \in Threads, ThreadStep(t)
  PROVE  QueueInv'
<1>1. CASE AbortFile(t)
  <2>1. ~Finalizing(t)
    BY <1>1 DEF AbortFile, Finalizing
  <2> QED BY <1>1, <2>1, AbortQueue DEF AbortFile
<1>2. CASE WriteLocked(t) \/ WriteMappedRange(t) \/ CommitChunk(t) \/ AwaitReturn(t)
  BY <1>2, WriterQueue
<1>3. CASE Seal(t) \/ Decide(t) \/ Publish(t) \/ NextInLoop(t) \/ CloseAborted(t)
  BY <1>3, FinalizerQueue, LoopQueue
<1> QED BY <1>1, <1>2, <1>3, FinalizeLockedQueue, CompleteQueue, FailQueue, RetireQueue,
           RememberQueue DEF ThreadStep

\* The start of a call.
LEMMA RequestQueue ==
  ASSUME ConstantsAssumption, IInv, QueueInv, NEW t \in Workers, Request(t)
  PROVE  QueueInv'
<1>1. t \in Threads
  BY DEF Threads
<1>2. ASSUME NEW id, NEW i, NEW n, NEW d, WriteChunk(t, id, i, n, d) PROVE QueueInv'
  <2>1. PICK c : Lookup(t, c, "writeLock")
    BY <1>2 DEF WriteChunk
  <2> QED BY <1>1, <2>1, LookupQueue
<1>3. ASSUME NEW id, FinalizeFile(t, id) PROVE QueueInv'
  <2>1. PICK c : Lookup(t, c, "finalLock")
    BY <1>3 DEF FinalizeFile
  <2> QED BY <1>1, <2>1, LookupQueue
<1>4. pc[t] = "idle" => ~Finalizing(t)
  BY DEF Finalizing
<1>5. ASSUME NEW id, RequestAbort(t, id) PROVE QueueInv'
  BY <1>1, <1>4, <1>5, AbortQueue DEF RequestAbort
<1>6. ASSUME NEW o, AbortFilesWithPrefix(t, o) PROVE QueueInv'
  BY <1>1, <1>4, <1>6, AbortQueue DEF AbortFilesWithPrefix
<1> QED BY <1>2, <1>3, <1>5, <1>6 DEF Request

\* QueueInv is inductive relative to IInv.
LEMMA NextQueue ==
  ASSUME ConstantsAssumption, IInv, QueueInv, [Next]_vars
  PROVE  QueueInv'
<1>1. CASE UNCHANGED vars
  BY <1>1, EnvironmentQueue DEF vars, maps, uploadVars, fixed, flags, miscVars, threadVars
<1>2. CASE ExpireIdleFiles
  <2>1. Reaper \in Threads /\ ~Finalizing(Reaper)
    BY <1>2 DEF Threads, ExpireIdleFiles, Finalizing
  <2> QED BY <1>2, <2>1, AbortQueue DEF ExpireIdleFiles
<1>3. CASE Environment
  <2>1. ASSUME NEW u \in Uploads, TimePasses(u) PROVE QueueInv'
    BY <2>1, EnvironmentQueue DEF TimePasses, maps, fixed, miscVars, threadVars
  <2>2. ASSUME NEW f \in Filenames, IndexFile(f) PROVE QueueInv'
    BY <2>2, EnvironmentQueue DEF IndexFile, maps, uploadVars, fixed, flags, miscVars, threadVars
  <2>3. ASSUME NEW f \in Filenames, NEW c \in External, ExternalChange(f, c) PROVE QueueInv'
    BY <2>3, EnvironmentQueue
       DEF ExternalChange, maps, uploadVars, fixed, flags, miscVars, threadVars
  <2> QED BY <1>3, <2>1, <2>2, <2>3, RestartQueue DEF Environment
<1> QED BY <1>1, <1>2, <1>3, InitFileQueue, RequestQueue, ThreadStepQueue DEF Next

\* No reservation is lost, and no session is remembered twice or too early.
LEMMA NothingStranded ==
  ASSUME ConstantsAssumption, IInv, QueueInv
  PROVE  NoStrandedReservation
<1>1. ASSUME NEW u \in Charged
      PROVE  handles[idOf[u]] = u \/ u \in failed \/ \E t \in Threads : Handles(t, u)
  <2>1. u \in Live /\ u \in reserved
    BY ChargedIs
  <2>2. Placed(u)
    BY <2>1 DEF QueueInv, ReservedGood, Placed
  <2>3. IsActive(u) => handles[idOf[u]] = u
    <3>1. u # Nil
      BY <2>1 DEF Live, ConstantsAssumption
    <3>2. \A i \in FileIds : handles[i] = u => idOf[u] = i
      BY <3>1 DEF IInv, UploadsGood, MapsAgree
    <3> QED BY <3>2 DEF IsActive
  <2> QED BY <2>2, <2>3 DEF Placed, Handles
<1>2. \A i, j \in 1 .. Len(order) : i # j => order[i] # order[j]
  BY DEF QueueInv, QueueGood
<1>3. \A k \in 1 .. Len(order) :
        /\ sessions[order[k]] # Nil /\ handles[order[k]] = Nil
        /\ sessions[order[k]] \in (failed \cup completed) \ reserved
  BY DEF QueueInv, QueueGood
<1> QED BY <1>1, <1>2, <1>3 DEF NoStrandedReservation
----------------------------------------------------------------------------
(* StoredInv: what was found or put into the directory is still there *)

\* The server adds files to the directory and leaves the others alone.
DiskGrows == \A f \in Filenames : disk[f] # NoFile => disk'[f] = disk[f]

\* What a step has to see to: a thread knows a file only if it knew it before,
\* or it is there now, and so for an outcome.
LEMMA StoredStep ==
  ASSUME StoredInv, DiskGrows,
         \A r \in Threads : KnownInPlace(r)' =>
            (KnownInPlace(r) /\ verdict'[r] = verdict[r]) \/ InPlace(verdict[r])',
         \A u \in completed' : u \in completed /\ result'[u] = result[u]
  PROVE  StoredInv'
<1>1. ASSUME NEW v, InPlace(v) PROVE InPlace(v)'
  BY <1>1 DEF InPlace, DiskGrows
<1>2. ASSUME NEW r \in Threads, KnownInPlace(r)' PROVE InPlace(verdict[r])'
  <2>1. CASE KnownInPlace(r) /\ verdict'[r] = verdict[r]
    <3>1. PICK v : v = verdict[r]
      OBVIOUS
    <3>2. InPlace(v)'
      BY <1>1, <2>1, <3>1 DEF StoredInv
    <3> QED BY <2>1, <3>1, <3>2 DEF InPlace
  <2> QED BY <1>2, <2>1
<1>3. ASSUME NEW u \in completed', result'[u].disposition \in {"Saved", "Duplicate"}
      PROVE  InPlace(result[u])'
  <2>1. PICK v : v = result[u]
    OBVIOUS
  <2>2. InPlace(v) /\ result'[u] = v
    BY <1>3, <2>1 DEF StoredInv
  <2>3. InPlace(v)'
    BY <1>1, <2>2
  <2> QED BY <2>2, <2>3 DEF InPlace
<1> QED BY <1>2, <1>3 DEF StoredInv

\* A thread that goes where it knows no file.
LEMMA StoredGoto ==
  ASSUME StoredInv, UNCHANGED <<disk, completed, result>>, ThreadTypes, NEW t \in Threads,
         NEW x, x \notin {"publish", "complete"}, pc' = [pc EXCEPT ![t] = x],
         verdict' = verdict \/ \E y : verdict' = [verdict EXCEPT ![t] = y]
  PROVE  StoredInv'
<1>1. pc \in [Threads -> Labels] /\ verdict \in [Threads -> Verdicts]
  BY DEF ThreadTypes
<1>2. pc'[t] = x /\ \A r \in Threads \ {t} : pc'[r] = pc[r] /\ verdict'[r] = verdict[r]
  BY <1>1
<1>3. ~KnownInPlace(t)'
  BY <1>2 DEF KnownInPlace
<1>4. \A r \in Threads : KnownInPlace(r)' => KnownInPlace(r) /\ verdict'[r] = verdict[r]
  BY <1>2, <1>3 DEF KnownInPlace
<1>5. DiskGrows
  BY DEF DiskGrows
<1> QED BY <1>4, <1>5, StoredStep

\* A step that changes neither the threads' knowledge nor the directory.
LEMMA StoredSame ==
  ASSUME StoredInv, UNCHANGED <<disk, completed, result, pc, verdict>>
  PROVE  StoredInv'
BY DEF StoredInv, KnownInPlace, InPlace

\* The steps that neither decide nor publish nor conclude.
LEMMA QuietStored ==
  ASSUME IInv, StoredInv, NEW t \in Threads,
         \/ WriteLocked(t) \/ WriteMappedRange(t) \/ CommitChunk(t) \/ AwaitReturn(t)
         \/ FinalizeLocked(t) \/ Seal(t) \/ FailFinalization(t) \/ NextInLoop(t) \/ CloseAborted(t)
         \/ RetireTemporary(t) \/ RememberCompleted(t)
  PROVE  StoredInv'
<1>1. UNCHANGED <<disk, completed, result>>
  <2>1. CASE WriteLocked(t) \/ WriteMappedRange(t) \/ CommitChunk(t) \/ AwaitReturn(t)
    BY <2>1 DEF WriteLocked, WriteMappedRange, CommitChunk, AwaitReturn, diskVars, flags
  <2>2. CASE FinalizeLocked(t) \/ Seal(t) \/ FailFinalization(t)
    BY <2>2 DEF FinalizeLocked, Seal, FailFinalization, diskVars, flags
  <2>3. CASE NextInLoop(t) \/ CloseAborted(t) \/ RetireTemporary(t) \/ RememberCompleted(t)
    BY <2>3 DEF NextInLoop, CloseAborted, RetireTemporary, RememberCompleted, diskVars, flags
  <2> QED BY <2>1, <2>2, <2>3
<1>2. ThreadTypes
  BY DEF IInv, TypeOK
<1>3. CASE Finish(t)
  <2>1. pc' = [pc EXCEPT ![t] = "idle"] /\ \E y : verdict' = [verdict EXCEPT ![t] = y]
    BY <1>3 DEF Finish, Goto
  <2>2. "idle" \notin {"publish", "complete"}
    OBVIOUS
  <2> QED BY <1>1, <1>2, <2>1, <2>2, StoredGoto
<1>4. CASE ~Finish(t)
  <2>1. \/ UNCHANGED <<pc, verdict>>
        \/ \E x \in Labels \ {"publish", "complete"} :
             /\ pc' = [pc EXCEPT ![t] = x]
             /\ verdict' = verdict \/ \E y : verdict' = [verdict EXCEPT ![t] = y]
    <3>1. {"write", "await", "commit", "abort", "seal", "decide", "fail", "next", "close", "retire",
           "remember"} \subseteq Labels \ {"publish", "complete"}
      BY DEF Labels
    <3>2. CASE WriteLocked(t) \/ WriteMappedRange(t) \/ CommitChunk(t) \/ AwaitReturn(t)
      BY <1>4, <3>1, <3>2 DEF WriteLocked, WriteMappedRange, CommitChunk, AwaitReturn, Goto
    <3>3. CASE FinalizeLocked(t)
      BY <1>4, <3>1, <3>3 DEF FinalizeLocked, Goto
    <3>4. CASE Seal(t)
      BY <3>1, <3>4 DEF Seal, Goto
    <3>5. CASE FailFinalization(t) \/ NextInLoop(t) \/ CloseAborted(t)
      BY <1>4, <3>1, <3>5 DEF FailFinalization, NextInLoop, CloseAborted, Goto
    <3>6. CASE RetireTemporary(t) \/ RememberCompleted(t)
      BY <1>4, <3>1, <3>6 DEF RetireTemporary, RememberCompleted, ReturnFromRetire, Goto
    <3> QED BY <3>2, <3>3, <3>4, <3>5, <3>6
  <2>2. \A x \in Labels \ {"publish", "complete"} : x \notin {"publish", "complete"}
    OBVIOUS
  <2> QED BY <1>1, <1>2, <2>1, <2>2, StoredGoto, StoredSame
<1> QED BY <1>3, <1>4

\* A duplicate is decided on after its file was found to have the digest.
LEMMA DecideStored ==
  ASSUME ConstantsAssumption, IInv, IInv', ContentInv, StoredInv, NEW t \in Threads, Decide(t)
  PROVE  StoredInv'
<1>1. UNCHANGED <<disk, completed, result, cur>> /\ pc[t] = "decide"
  BY DEF Decide, uploadVars, flags
<1>2. ThreadTypes /\ pc \in [Threads -> Labels] /\ verdict \in [Threads -> Verdicts]
  BY DEF IInv, TypeOK, ThreadTypes
<1>3. CASE Goto(t, "fail") /\ UNCHANGED verdict
  <2>1. "fail" \notin {"publish", "complete"} /\ pc' = [pc EXCEPT ![t] = "fail"]
    BY <1>3 DEF Goto
  <2> QED BY <1>1, <1>2, <1>3, <2>1, StoredGoto
<1>4. ASSUME NEW d, NEW f, Plan(t, d, f), Goto(t, "publish"),
             d = "Duplicate" => disk[f] = verdict[t].sha256
      PROVE  StoredInv'
  <2>1. /\ pc'[t] = "publish" /\ \A r \in Threads \ {t} : pc'[r] = pc[r] /\ verdict'[r] = verdict[r]
    BY <1>2, <1>4 DEF Goto, Plan
  <2>2. /\ verdict'[t].disposition = d /\ verdict'[t].filename = f
        /\ verdict'[t].sha256 = verdict[t].sha256
    <3>1. verdict' = [verdict EXCEPT ![t].disposition = d, ![t].filename = f]
      BY <1>4 DEF Plan
    <3> QED BY ONLY SMTT(60), <1>2, <3>1, t \in Threads DEF Verdicts
  <2>3. f \in Filenames
    BY <2>1, <2>2 DEF IInv, ThreadsGood, ThreadGood, FinalizerGood
  <2>4. verdict[t].sha256 # NoFile
    <3>1. DigestGood(t)
      BY DEF ContentInv
    <3> QED BY <1>1, <3>1 DEF DigestGood
  <2>5. KnownInPlace(t)' => InPlace(verdict[t])'
    <3>1. KnownInPlace(t)' => d = "Duplicate"
      BY <2>1, <2>2 DEF KnownInPlace
    <3>2. d = "Duplicate" => InPlace(verdict[t])'
      BY <1>1, <1>4, <2>2, <2>3, <2>4 DEF InPlace
    <3> QED BY <3>1, <3>2
  <2>6. \A r \in Threads \ {t} : KnownInPlace(r)' => KnownInPlace(r) /\ verdict'[r] = verdict[r]
    BY <2>1 DEF KnownInPlace
  <2>7. DiskGrows
    BY <1>1 DEF DiskGrows
  <2> QED BY <1>1, <2>5, <2>6, <2>7, StoredStep
<1> DEFINE m == metaOf[own[t]]
           digest == verdict[t].sha256
           name == SafeName[m.name]
           first == <<name, 1>>
<1>5. \A f : Plan(t, "Saved", f) /\ Goto(t, "publish") => StoredInv'
  <2>1. "Saved" # "Duplicate"
    OBVIOUS
  <2> QED BY <1>4, <2>1
<1>6. \A f : Plan(t, "NameConflict", f) /\ Goto(t, "publish") => StoredInv'
  <2>1. "NameConflict" # "Duplicate"
    OBVIOUS
  <2> QED BY <1>4, <2>1
<1>7. CASE disk[first] = digest /\ Plan(t, "Duplicate", first) /\ Goto(t, "publish")
  BY <1>4, <1>7
<1>8. ASSUME NEW bad, NEW f \in Verified(digest, bad), Plan(t, "Duplicate", f), Goto(t, "publish")
      PROVE  StoredInv'
  <2>1. disk[f] = digest
    BY <1>8 DEF Verified
  <2> QED BY <1>4, <1>8, <2>1
<1>9. \/ Goto(t, "fail") /\ UNCHANGED verdict
      \/ disk[first] = digest /\ Plan(t, "Duplicate", first) /\ Goto(t, "publish")
      \/ \E bad : \E f \in Verified(digest, bad) : Plan(t, "Duplicate", f) /\ Goto(t, "publish")
      \/ \E f : (Plan(t, "Saved", f) \/ Plan(t, "NameConflict", f)) /\ Goto(t, "publish")
  BY DEF Decide
<1> HIDE DEF m, digest, name, first
<1> QED BY <1>3, <1>5, <1>6, <1>7, <1>8, <1>9

\* The rename puts the digest's content under the name, where there was no file.
LEMMA PublishStored ==
  ASSUME ConstantsAssumption, IInv, ContentInv, StoredInv, NEW t \in Threads, Publish(t)
  PROVE  StoredInv'
<1>1. PICK f : f = verdict[t].filename
  OBVIOUS
<1>2. UNCHANGED <<completed, result, cur, verdict>> /\ pc[t] = "publish" /\ Finalizing(t)
  <2>1. UNCHANGED <<uploadVars, cur, verdict>> /\ pc[t] = "publish"
    BY DEF Publish
  <2> QED BY <2>1 DEF uploadVars, flags, Finalizing
<1>3. own[t] = cur[t] /\ f \in Filenames
  BY <1>1, <1>2 DEF IInv, ThreadsGood, ThreadGood, FinalizerGood
<1>4. verdict[t].sha256 = tmp[own[t]] /\ tmp[own[t]] # NoFile
  <2>1. DigestGood(t)
    BY DEF ContentInv
  <2> QED BY <1>2, <1>3, <2>1 DEF DigestGood
<1>5. ThreadTypes /\ pc \in [Threads -> Labels] /\ disk \in [Filenames -> Contents \cup {NoFile}]
  BY DEF IInv, TypeOK, ThreadTypes, DiskTypes
<1>6. CASE Goto(t, "fail") /\ UNCHANGED disk
  <2>1. "fail" \notin {"publish", "complete"} /\ pc' = [pc EXCEPT ![t] = "fail"]
    BY <1>6 DEF Goto
  <2> QED BY <1>2, <1>5, <1>6, <2>1, StoredGoto
<1>7. CASE /\ Goto(t, "complete")
           /\ \/ /\ verdict[t].disposition = "Saved" /\ disk[f] = NoFile
                 /\ disk' = [disk EXCEPT ![f] = tmp[own[t]]]
              \/ verdict[t].disposition # "Saved" /\ UNCHANGED disk
  <2>1. pc'[t] = "complete" /\ \A r \in Threads \ {t} : pc'[r] = pc[r]
    BY <1>5, <1>7 DEF Goto
  <2>2. \A r \in Threads \ {t} : KnownInPlace(r)' => KnownInPlace(r)
    BY <1>2, <2>1 DEF KnownInPlace
  <2>3. DiskGrows
    BY <1>3, <1>5, <1>7 DEF DiskGrows
  <2>4. CASE verdict[t].disposition = "Saved"
    <3>1. disk'[f] = tmp[own[t]]
      BY <1>3, <1>5, <1>7, <2>4
    <3>2. InPlace(verdict[t])'
      BY <1>1, <1>2, <1>3, <1>4, <3>1 DEF InPlace
    <3> QED BY <1>2, <2>2, <2>3, <3>2, StoredStep
  <2>5. CASE verdict[t].disposition # "Saved"
    <3>1. KnownInPlace(t)' => KnownInPlace(t)
      BY <1>2, <2>1, <2>5 DEF KnownInPlace
    <3> QED BY <1>2, <2>2, <2>3, <3>1, StoredStep
  <2> QED BY <2>4, <2>5
<1> QED BY <1>1, <1>6, <1>7 DEF Publish, MayRename

\* The outcome is what the finalizer knows.
LEMMA CompleteStored ==
  ASSUME IInv, StoredInv, NEW t \in Threads, Complete(t)
  PROVE  StoredInv'
<1>1. PICK u, v : u = cur[t] /\ v = verdict[t]
  OBVIOUS
<1>2. /\ UNCHANGED <<disk, verdict>> /\ pc[t] = "complete" /\ pc' = [pc EXCEPT ![t] = "remember"]
      /\ result' = [result EXCEPT ![u] = v] /\ completed' = completed \cup {u}
  BY <1>1 DEF Complete, diskVars, Goto
<1>3. u \in Uploads
  BY <1>1, <1>2, FinalizerFacts DEF Finalizing
<1>4. result'[u] = v /\ \A w \in completed : w # u => result'[w] = result[w]
  BY <1>2, <1>3 DEF IInv, TypeOK, UploadTypes
<1>5. \A r \in Threads : KnownInPlace(r)' => KnownInPlace(r)
  <2>1. pc'[t] = "remember" /\ \A r \in Threads \ {t} : pc'[r] = pc[r]
    BY <1>2 DEF IInv, TypeOK, ThreadTypes
  <2> QED BY <1>2, <2>1 DEF KnownInPlace
<1>6. \A r \in Threads : KnownInPlace(r)' => InPlace(verdict[r])'
  BY <1>2, <1>5 DEF StoredInv, InPlace
<1>7. ASSUME NEW w \in completed', result'[w].disposition \in {"Saved", "Duplicate"}
      PROVE  InPlace(result[w])'
  <2>1. CASE w = u
    <3>1. InPlace(v)
      BY <1>1, <1>2, <1>4, <1>7, <2>1 DEF StoredInv, KnownInPlace
    <3> QED BY <1>2, <1>4, <2>1, <3>1 DEF InPlace
  <2>2. CASE w # u
    <3>1. w \in completed /\ result'[w] = result[w]
      BY <1>2, <1>4, <2>2
    <3>2. InPlace(result[w])
      BY <1>7, <3>1 DEF StoredInv
    <3> QED BY <1>2, <3>1, <3>2 DEF InPlace
  <2> QED BY <2>1, <2>2
<1> QED BY <1>6, <1>7 DEF StoredInv

\* The start of a call, and what aborts.
LEMMA StartStored ==
  ASSUME IInv, StoredInv, NEW t \in Threads,
         \/ \E M, j : AbortMatching(t, M, j)
         \/ \E c : Lookup(t, c, "writeLock") \/ Lookup(t, c, "finalLock")
  PROVE  StoredInv'
<1>1. UNCHANGED <<disk, completed, result, verdict>>
  BY DEF AbortMatching, Lookup, diskVars, uploadVars, flags
<1>2. \E x \in {"next", "await", "writeLock", "finalLock"} : pc' = [pc EXCEPT ![t] = x]
  BY DEF AbortMatching, Lookup, Goto
<1>3. {"next", "await", "writeLock", "finalLock"} \cap {"publish", "complete"} = {}
  OBVIOUS
<1>4. ThreadTypes
  BY DEF IInv, TypeOK
<1> QED BY <1>1, <1>2, <1>3, <1>4, StoredGoto

\* StoredInv is inductive relative to IInv and ContentInv when nobody else
\* changes the directory.
LEMMA NextStored ==
  ASSUME ConstantsAssumption, External = {}, IInv, IInv', ContentInv, StoredInv, [Next]_vars
  PROVE  StoredInv'
<1>1. CASE UNCHANGED vars
  BY <1>1, StoredSame DEF vars, diskVars, uploadVars, flags, threadVars
<1>2. ASSUME NEW id, NEW m, InitFile(id, m) PROVE StoredInv'
  BY <1>2, StoredSame DEF InitFile, threadVars
<1>3. ASSUME NEW t \in Workers, Request(t) PROVE StoredInv'
  <2>1. t \in Threads
    BY DEF Threads
  <2> QED BY <1>3, <2>1, StartStored
         DEF Request, WriteChunk, FinalizeFile, RequestAbort, AbortFilesWithPrefix
<1>4. CASE ExpireIdleFiles
  <2>1. Reaper \in Threads
    BY DEF Threads
  <2> QED BY <1>4, <2>1, StartStored DEF ExpireIdleFiles
<1>5. ASSUME NEW t \in Threads, ThreadStep(t) PROVE StoredInv'
  <2>1. CASE AbortFile(t)
    BY <2>1, StartStored DEF AbortFile
  <2>2. CASE Decide(t) \/ Publish(t) \/ Complete(t)
    BY <2>2, DecideStored, PublishStored, CompleteStored
  <2> QED BY <1>5, <2>1, <2>2, QuietStored DEF ThreadStep
<1>6. CASE Environment
  <2>1. ASSUME NEW u \in Uploads, TimePasses(u) PROVE StoredInv'
    BY <2>1, StoredSame DEF TimePasses, diskVars, threadVars
  <2>2. ASSUME NEW f \in Filenames, IndexFile(f) PROVE StoredInv'
    BY <2>2, StoredSame DEF IndexFile, uploadVars, flags, threadVars
  <2>3. CASE Restart
    <3>1. UNCHANGED <<disk, completed, result>> /\ pc' = [t \in Threads |-> "idle"]
      BY <2>3 DEF Restart, flags
    <3>2. \A r \in Threads : ~KnownInPlace(r)'
      BY <3>1 DEF KnownInPlace
    <3>3. DiskGrows
      BY <3>1 DEF DiskGrows
    <3> QED BY <3>1, <3>2, <3>3, StoredStep
  <2> QED BY <1>6, <2>1, <2>2, <2>3 DEF Environment
<1> QED BY <1>1, <1>2, <1>3, <1>4, <1>5, <1>6 DEF Next
=============================================================================
