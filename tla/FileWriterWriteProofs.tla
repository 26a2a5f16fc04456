------------------------ MODULE FileWriterWriteProofs ------------------------
(***************************************************************************)
(* Proofs about FileWriter: what most steps leave alone, and the steps of  *)
(* writeChunk and finalizeFileResult preserve the invariant IInv.          *)
(***************************************************************************)
EXTENDS FileWriterInv, TLAPS

\* A leaf is for Zenon, with a minute of time, unless it names SMT.
USE ZenonT(60)

----------------------------------------------------------------------------
(* What most steps leave alone *)

SameThread(r) ==
  /\ pc'[r] = pc[r] /\ call'[r] = call[r] /\ cur'[r] = cur[r]
  /\ own'[r] = own[r] /\ todo'[r] = todo[r] /\ verdict'[r] = verdict[r]
Others(t) == \A r \in Threads \ {t} : SameThread(r)

\* The state that the invariants about uploads are stated in.
Shared == <<handles, sessions, order, idOf, dead, tmp, published, finalizing,
            completed, failed, reserved, open, result>>

\* A step that leaves the shared state alone keeps what IInv says of uploads.
LEMMA SharedKept ==
  ASSUME UploadsGood, UNCHANGED Shared
  PROVE  UploadsGood'
<1>1. UNCHANGED <<handles, sessions, order, idOf, dead, tmp, published, finalizing>>
      /\ UNCHANGED <<completed, failed, reserved, open, result>>
  BY DEF Shared
<1>2. MapsAgree' /\ IdsUnique'
  BY <1>1 DEF UploadsGood, MapsAgree, IdsUnique, Live
<1>3. FreshIsClean' /\ ActiveIsIntact'
  BY <1>1 DEF UploadsGood, FreshIsClean, Fresh, ActiveIsIntact, IsActive
<1>4. ReservationsKept' /\ OutcomesGood'
  BY <1>1 DEF UploadsGood, ReservationsKept, OutcomesGood, Live
<1> QED BY <1>2, <1>3, <1>4 DEF UploadsGood

\* Entries only leave the maps, handles first.
LEMMA MapsKept ==
  ASSUME MapsAgree, IdsUnique, UNCHANGED <<idOf, dead>>,
         \A i \in FileIds : sessions'[i] \in {sessions[i], Nil},
         \A i \in FileIds : handles'[i] # Nil =>
                              handles'[i] = handles[i] /\ sessions'[i] = sessions[i]
  PROVE  MapsAgree' /\ IdsUnique'
BY SMTT(60) DEF MapsAgree, IdsUnique, Live

\* A thread that takes no part in a step keeps what it knows, if the step does
\* not touch the upload that thread is writing or finalizing.
LEMMA OtherThreadGood ==
  ASSUME NEW r \in Threads, SameThread(r), ThreadGood(r),
         UNCHANGED <<idOf, dead>>, failed \subseteq failed', reserved' \subseteq reserved,
         Writing(r) => /\ writeMutex'[cur[r]] = writeMutex[cur[r]]
                       /\ bytes'[cur[r]] = bytes[cur[r]],
         pc[r] = "write" => /\ cur[r] \in open => cur[r] \in open'
                            /\ tmp[cur[r]] # NoFile => tmp'[cur[r]] # NoFile,
         Finalizing(r) => /\ cur[r] \in finalizing' \ (completed' \cup failed')
                          /\ published'[cur[r]] = published[cur[r]]
                          /\ tmp[cur[r]] = NoFile => tmp'[cur[r]] = NoFile
  PROVE  ThreadGood(r)'
<1>1. PointerGood(r)'
  BY DEF SameThread, ThreadGood, PointerGood, Live
<1>2. WriterGood(r)'
  BY DEF SameThread, ThreadGood, WriterGood, Writing
<1>3. FinalizerGood(r)'
  BY DEF SameThread, ThreadGood, FinalizerGood, Finalizing
<1> QED BY <1>1, <1>2, <1>3 DEF ThreadGood

\* A thread between two uploads, or in no call at all, knows nothing.
LEMMA FreeThreadGood ==
  ASSUME NEW t \in Threads, pc'[t] \in {"idle", "next"},
         todo'[t] \subseteq Live', todo'[t] \subseteq failed'
  PROVE  ThreadGood(t)'
BY DEF ThreadGood, PointerGood, WriterGood, FinalizerGood, Writing, Finalizing

\* A step that makes its thread neither a writer nor a finalizer keeps them apart.
LEMMA OneFinalizerKept ==
  ASSUME NEW t \in Threads, OneFinalizer, Others(t),
         Finalizing(t)' => Finalizing(t) /\ cur'[t] = cur[t],
         Writing(t)' => Writing(t) /\ cur'[t] = cur[t]
  PROVE  OneFinalizer'
BY SMTT(60) DEF OneFinalizer, Others, SameThread, Finalizing, Writing

\* The return from a call resets the thread and changes no other thread.
LEMMA FinishTypes ==
  ASSUME ConstantsAssumption, ThreadTypes, NEW t \in Threads, Finish(t)
  PROVE  ThreadTypes' /\ Others(t) /\ pc'[t] = "idle" /\ todo'[t] = {}
<1>1. NoCall \in Calls
  BY DEF NoCall, Calls, Maybe
<1>2. NoVerdict \in Verdicts
  BY DEF NoVerdict, Verdicts, Maybe, Dispositions
<1>3. ThreadTypes'
  BY <1>1, <1>2 DEF ThreadTypes, Finish, Goto, Unlocked, Labels, Maybe
<1> QED BY SMTT(60), <1>3 DEF ThreadTypes, Finish, Goto, Others, SameThread

\* Steps that only read the uploads: the other threads keep what they know.
LEMMA QuietOthers ==
  ASSUME ThreadsGood, NEW t \in Threads, Others(t), UNCHANGED Shared,
         NEW r \in Threads \ {t},
         Writing(r) => /\ writeMutex'[cur[r]] = writeMutex[cur[r]]
                       /\ bytes'[cur[r]] = bytes[cur[r]]
  PROVE  ThreadGood(r)'
<1>1. UNCHANGED <<idOf, dead, tmp, published, finalizing, completed, failed, reserved, open>>
  BY DEF Shared
<1>2. Finalizing(r) => cur[r] \in finalizing \ (completed \cup failed)
  BY DEF ThreadsGood, ThreadGood, FinalizerGood
<1>3. SameThread(r) /\ ThreadGood(r)
  BY DEF Others, ThreadsGood
<1> QED BY <1>1, <1>2, <1>3, OtherThreadGood

\* The call of a thread ends.
LEMMA QuietFinish ==
  ASSUME ConstantsAssumption, IInv, NEW t \in Threads, Finish(t), UNCHANGED Shared,
         MapTypes', UploadTypes', DiskTypes',
         \A r \in Threads \ {t} : Writing(r) => bytes'[cur[r]] = bytes[cur[r]]
  PROVE  IInv'
<1>1. ThreadTypes' /\ Others(t) /\ pc'[t] = "idle" /\ todo'[t] = {}
  BY FinishTypes DEF IInv, TypeOK
<1>2. UploadsGood'
  BY SharedKept DEF IInv
<1>3. ThreadsGood'
  <2>1. ThreadGood(t)'
    BY <1>1, FreeThreadGood
  <2>2. ASSUME NEW r \in Threads \ {t} PROVE ThreadGood(r)'
    <3>1. Writing(r) => writeMutex[cur[r]] = r /\ cur[r] \in Uploads
      BY DEF IInv, ThreadsGood, ThreadGood, WriterGood, PointerGood, Writing, Live
    <3>2. Writing(r) => writeMutex'[cur[r]] = writeMutex[cur[r]]
      BY <3>1 DEF Finish, Unlocked
    <3> QED BY <1>1, <3>2, QuietOthers DEF IInv
  <2> QED BY <2>1, <2>2 DEF ThreadsGood
<1>4. OneFinalizer'
  BY <1>1, OneFinalizerKept DEF IInv, Finalizing, Writing
<1> QED BY <1>1, <1>2, <1>3, <1>4 DEF IInv, TypeOK

\* Returning from a wait keeps the invariant.
LEMMA AwaitReturnStep ==
  ASSUME ConstantsAssumption, IInv, NEW t \in Threads, AwaitReturn(t)
  PROVE  IInv'
<1>1. UNCHANGED <<maps, fixed, progress, flags, result, open, diskVars, suffix, hashCtx, dead>>
      /\ Finish(t)
  BY DEF AwaitReturn
<1>2. UNCHANGED Shared /\ UNCHANGED bytes
  BY <1>1 DEF Shared, maps, fixed, progress, flags, diskVars
<1>3. MapTypes'
  BY <1>1 DEF IInv, TypeOK, MapTypes, maps
<1>4. UploadTypes'
  BY <1>1 DEF IInv, TypeOK, UploadTypes, fixed, progress, flags
<1>5. DiskTypes'
  BY <1>1 DEF IInv, TypeOK, DiskTypes, diskVars
<1> QED BY <1>1, <1>2, <1>3, <1>4, <1>5, QuietFinish

\* What the second look of a call finds under the id it was made for is the
\* upload of its first look: an id has one upload.
LEMMA SecondLook ==
  ASSUME IInv, NEW t \in Threads, pc[t] \notin {"idle", "abort", "next"}
  PROVE  /\ cur[t] \in Live /\ cur[t] \in Uploads /\ call[t].id \in FileIds
         /\ call[t].id = idOf[cur[t]]
         /\ handles[call[t].id] \in {cur[t], Nil}
         /\ sessions[call[t].id] \in {cur[t], Nil}
<1>1. cur[t] \in Live /\ cur[t] \in Uploads /\ call[t].id = idOf[cur[t]]
      /\ call[t].id \in FileIds
  BY DEF IInv, ThreadsGood, ThreadGood, PointerGood, Live, TypeOK, UploadTypes, Maybe
<1>2. sessions[call[t].id] \in {cur[t], Nil}
  BY SMTT(60), <1>1 DEF IInv, UploadsGood, MapsAgree, IdsUnique
<1>3. handles[call[t].id] \in {cur[t], Nil}
  BY <1>1, <1>2 DEF IInv, UploadsGood, MapsAgree
<1> QED BY <1>1, <1>2, <1>3

\* Committing a chunk keeps the invariant: the writer still holds writeMutex.
LEMMA CommitChunkStep ==
  ASSUME ConstantsAssumption, IInv, NEW t \in Threads, CommitChunk(t)
  PROVE  IInv'
<1>1. UNCHANGED <<maps, fixed, flags, result, open, diskVars, suffix, hashCtx, dead>>
      /\ Finish(t) /\ pc[t] = "commit"
  BY DEF CommitChunk
<1>2. UNCHANGED Shared
  BY <1>1 DEF Shared, maps, fixed, flags, diskVars
<1>3. MapTypes'
  BY <1>1 DEF IInv, TypeOK, MapTypes, maps
<1>4. UploadTypes'
  <2>1. call[t].size \in Nat
    BY DEF IInv, TypeOK, ThreadTypes, Calls
  <2>2. bytes' \in [Uploads -> Nat] /\ sizes' \in [Uploads -> Seq(Nat)] /\ hashValid' \subseteq Uploads
    <3>1. /\ bytes \in [Uploads -> Nat] /\ sizes \in [Uploads -> Seq(Nat)]
          /\ hashValid \subseteq Uploads
      BY DEF IInv, TypeOK, UploadTypes
    <3>2. CASE handles[call[t].id] = Nil
      BY <3>1, <3>2 DEF CommitChunk, progress
    <3>3. CASE handles[call[t].id] # Nil
      <4> DEFINE h == handles[call[t].id]
      <4>1. /\ bytes' = [bytes EXCEPT ![h] = @ + call[t].size]
            /\ sizes' = [sizes EXCEPT ![h] = Append(@, call[t].size)]
            /\ hashValid' = IF call[t].hashed THEN hashValid ELSE hashValid \ {h}
        BY <3>3 DEF CommitChunk
      <4>2. h \in Uploads
        BY <1>1, <3>3, SecondLook
      <4> HIDE DEF h
      <4>3. bytes' \in [Uploads -> Nat]
        BY ONLY SMTT(60), <2>1, <3>1, <4>1, <4>2
      <4>4. Append(sizes[h], call[t].size) \in Seq(Nat)
        BY SMTT(60), <2>1, <3>1, <4>2
      <4>5. sizes' \in [Uploads -> Seq(Nat)]
        BY <3>1, <4>1, <4>4
      <4> QED BY <3>1, <4>1, <4>3, <4>5
    <3> QED BY <3>2, <3>3
  <2> QED BY <1>1, <2>2 DEF IInv, TypeOK, UploadTypes, fixed, flags
<1>5. DiskTypes'
  BY <1>1 DEF IInv, TypeOK, DiskTypes, diskVars
<1>6. ASSUME NEW r \in Threads \ {t}, Writing(r) PROVE bytes'[cur[r]] = bytes[cur[r]]
  <2>1. cur[r] \in Uploads /\ writeMutex[cur[r]] = r /\ writeMutex[cur[t]] = t
    BY <1>1, <1>6 DEF IInv, ThreadsGood, ThreadGood, WriterGood, PointerGood, Writing, Live
  <2>2. cur[r] # cur[t] /\ handles[call[t].id] \in {cur[t], Nil}
    BY <1>1, <2>1, SecondLook
  <2> QED BY <2>1, <2>2 DEF CommitChunk, progress, IInv, TypeOK, UploadTypes
<1> QED BY <1>1, <1>2, <1>3, <1>4, <1>5, <1>6, QuietFinish

\* The second look of writeChunk leaves a writer with an open upload, or none.
LEMMA WriteLockedStep ==
  ASSUME ConstantsAssumption, IInv, NEW t \in Threads, WriteLocked(t)
  PROVE  IInv'
<1> DEFINE id == call[t].id
           u == cur[t]
<1>1. /\ UNCHANGED <<maps, fixed, progress, finalizing, completed, failed, reserved,
                      result, open, diskVars, suffix, hashCtx, dead>>
      /\ pc[t] = "writeLock" /\ writeMutex[u] = Nil
  BY DEF WriteLocked
<1>2. UNCHANGED Shared /\ UNCHANGED bytes
  BY <1>1 DEF Shared, maps, fixed, progress, diskVars
<1>3. MapTypes'
  BY <1>1 DEF IInv, TypeOK, MapTypes, maps
<1>4. idle' \subseteq Uploads
  BY DEF WriteLocked, IInv, TypeOK, UploadTypes
<1>5. UploadTypes'
  BY <1>1, <1>4 DEF IInv, TypeOK, UploadTypes, fixed, progress
<1>6. DiskTypes'
  BY <1>1 DEF IInv, TypeOK, DiskTypes, diskVars
<1>7. UploadsGood'
  BY <1>2, SharedKept DEF IInv
<1>8. /\ u \in Live /\ u \in Uploads /\ id = idOf[u]
      /\ handles[id] \in {u, Nil} /\ sessions[id] \in {u, Nil}
  BY <1>1, SecondLook
<1>9. ASSUME NEW r \in Threads \ {t}, Others(t),
             \A v \in Uploads : v # u => writeMutex'[v] = writeMutex[v]
      PROVE  ThreadGood(r)'
  <2>1. Writing(r) => cur[r] \in Uploads /\ writeMutex[cur[r]] = r /\ r # Nil
    BY DEF IInv, ThreadsGood, ThreadGood, WriterGood, PointerGood, Writing, Live,
           ConstantsAssumption, Threads
  <2>2. Writing(r) => cur[r] # u
    BY <1>1, <2>1
  <2> QED BY <1>2, <1>9, <2>1, <2>2, QuietOthers DEF IInv
<1>10. CASE /\ handles[id] # Nil /\ Accepts(handles[id], call[t])
            /\ Goto(t, "write")
            /\ own' = [own EXCEPT ![t] = handles[id]]
            /\ call' = [call EXCEPT ![t].offset = bytes[handles[id]]]
            /\ writeMutex' = [writeMutex EXCEPT ![u] = t]
            /\ UNCHANGED <<cur, job, todo, verdict, finalizeMutex>>
  <2>1. handles[id] = u /\ u \in Uploads /\ id \in FileIds
    BY <1>1, <1>8, <1>10, SecondLook
  <2>2. ThreadTypes'
    <3>1. bytes[u] \in Nat
      BY <2>1 DEF IInv, TypeOK, UploadTypes
    <3>2. call' \in [Threads -> Calls]
      <4>1. call \in [Threads -> Calls]
        BY DEF IInv, TypeOK, ThreadTypes
      <4>2. [call[t] EXCEPT !.offset = bytes[u]] \in Calls
        BY <3>1, <4>1 DEF Calls
      <4> QED BY <1>10, <2>1, <4>1, <4>2
    <3> QED BY <1>10, <2>1, <3>2 DEF Goto, IInv, TypeOK, ThreadTypes, Labels, Maybe
  <2>3. /\ Others(t) /\ pc'[t] = "write" /\ own'[t] = u /\ cur'[t] = u
        /\ writeMutex'[u] = t /\ todo'[t] = todo[t]
        /\ call'[t].offset = bytes[u] /\ call'[t].id = id
    BY SMTT(60), <1>10, <2>1 DEF Goto, IInv, TypeOK, ThreadTypes, Others, SameThread, Calls
  <2>4. IsActive(u)
    BY <2>1 DEF IsActive
  <2>5. /\ u \in open /\ tmp[u] # NoFile /\ u \notin finalizing
    BY <2>1, <2>4 DEF IInv, UploadsGood, ActiveIsIntact
  <2>6. ThreadGood(t)'
    <3>1. UNCHANGED <<idOf, dead, failed, open, tmp, bytes>>
      BY <1>2 DEF Shared
    <3>2. todo[t] \subseteq Live /\ todo[t] \subseteq failed
      BY DEF IInv, ThreadsGood, ThreadGood, PointerGood
    <3>3. PointerGood(t)'
      BY <1>8, <2>3, <3>1, <3>2 DEF PointerGood, Live
    <3>4. WriterGood(t)'
      BY <2>3, <2>5, <3>1 DEF WriterGood, Writing
    <3>5. FinalizerGood(t)'
      BY <2>3 DEF FinalizerGood, Finalizing
    <3> QED BY <3>3, <3>4, <3>5 DEF ThreadGood
  <2>7. ThreadsGood'
    BY <1>9, <1>10, <2>3, <2>6 DEF ThreadsGood, IInv, TypeOK, ThreadTypes
  <2>8. OneFinalizer'
    <3>1. \A r \in Threads : Finalizing(r) => cur[r] # u
      BY <2>5 DEF IInv, ThreadsGood, ThreadGood, FinalizerGood
    <3> QED BY SMTT(60), <2>3, <3>1 DEF IInv, OneFinalizer, Finalizing, Writing, Others, SameThread
  <2> QED BY <1>3, <1>5, <1>6, <1>7, <2>2, <2>7, <2>8 DEF IInv, TypeOK
<1>11. CASE /\ handles[id] = Nil /\ sessions[id] # Nil
            /\ Goto(t, "await")
            /\ cur' = [cur EXCEPT ![t] = sessions[id]]
            /\ writeMutex' = [writeMutex EXCEPT ![u] = t]
            /\ UNCHANGED <<call, own, job, todo, verdict, idle, finalizeMutex>>
  <2>1. sessions[id] = u
    BY <1>8, <1>11
  <2>2. ThreadTypes' /\ Others(t) /\ pc'[t] = "await" /\ cur'[t] = u
    BY <1>8, <1>11, <2>1 DEF Goto, IInv, TypeOK, ThreadTypes, Labels, Maybe, Others, SameThread
  <2>3. ThreadGood(t)'
    <3>1. UNCHANGED <<idOf, dead, failed, call, todo>>
      BY <1>2, <1>11 DEF Shared
    <3>2. todo[t] \subseteq Live /\ todo[t] \subseteq failed
      BY DEF IInv, ThreadsGood, ThreadGood, PointerGood
    <3>3. PointerGood(t)'
      BY <1>8, <2>2, <3>1, <3>2 DEF PointerGood, Live
    <3> QED BY <2>2, <3>3 DEF ThreadGood, WriterGood, FinalizerGood, Writing, Finalizing
  <2>4. ThreadsGood'
    BY <1>9, <1>11, <2>2, <2>3 DEF ThreadsGood, IInv, TypeOK, ThreadTypes
  <2>5. OneFinalizer'
    BY <2>2, OneFinalizerKept DEF IInv, Finalizing, Writing
  <2> QED BY <1>3, <1>5, <1>6, <1>7, <2>2, <2>4, <2>5 DEF IInv, TypeOK
<1>12. CASE Finish(t)
  BY <1>2, <1>3, <1>5, <1>6, <1>12, QuietFinish
<1> QED BY <1>10, <1>11, <1>12 DEF WriteLocked

----------------------------------------------------------------------------
(* Contents *)

\* A function on 1 .. n with byte values is a content.
LEMMA FunctionIsContent ==
  ASSUME NEW n \in Nat, NEW f \in [1 .. n -> Data \cup {Blank}]
  PROVE  f \in Contents
BY SMTT(60) DEF Contents

\* An empty file is a content.
LEMMA EmptyIsContent == <<>> \in Contents
BY SMTT(60) DEF Contents

\* Contents of the same length and the same bytes are the same.
LEMMA ContentsEqual ==
  ASSUME NEW s \in Contents, NEW q \in Contents, Len(s) = Len(q),
         \A k \in 1 .. Len(s) : s[k] = q[k]
  PROVE  s = q
<1>1. s \in [1 .. Len(s) -> Data \cup {Blank}] /\ q \in [1 .. Len(s) -> Data \cup {Blank}]
  BY SMTT(60) DEF Contents
<1> QED BY SMTT(60), <1>1

\* Copying bytes into a content gives a content.
LEMMA OverwriteType ==
  ASSUME NEW s \in Contents, NEW c \in Calls, NEW n \in Nat
  PROVE  Overwrite(s, c, n) \in Contents
<1>1. /\ Len(s) \in Nat /\ DOMAIN s = 1 .. Len(s)
      /\ \A k \in 1 .. Len(s) : s[k] \in Data \cup {Blank}
  BY SMTT(60) DEF Contents
<1>2. c.data \in Data \cup {Blank}
  BY DEF Calls
<1>3. Overwrite(s, c, n) \in [1 .. Len(s) -> Data \cup {Blank}]
  BY <1>1, <1>2 DEF Overwrite
<1> QED BY <1>1, <1>3, FunctionIsContent

\* Some bytes of one value are a content.
LEMMA RepeatType ==
  ASSUME NEW s \in Contents, NEW c \in Calls
  PROVE  s \o Repeat(c.data, c.size) \in Contents
<1>1. c.size \in Nat /\ c.data \in Data \cup {Blank}
  BY DEF Calls
<1>2. Repeat(c.data, c.size) \in [1 .. c.size -> Data \cup {Blank}]
  BY <1>1 DEF Repeat
<1>3. Repeat(c.data, c.size) \in Contents
  BY <1>1, <1>2, FunctionIsContent
<1> QED BY SMTT(60), <1>3 DEF Contents

----------------------------------------------------------------------------
(* writeMappedRange: it needs its upload open, and leaves a file behind *)

\* A copy, complete or not, leaves a file behind and keeps the invariant.
LEMMA WriteMappedRangeStep ==
  ASSUME ConstantsAssumption, IInv, NEW t \in Threads, WriteMappedRange(t)
  PROVE  IInv'
<1> DEFINE u == cur[t]
           c == call[t]
<1>1. /\ UNCHANGED <<maps, fixed, progress, flags, result, open, disk, index, published,
                      finalizeMutex, suffix, dead, cur, own, todo, verdict>>
      /\ pc[t] = "write"
  BY DEF WriteMappedRange
<1>2. UNCHANGED <<handles, sessions, order, idOf, dead, published, finalizing, completed,
                  failed, reserved, open, result, bytes>>
  BY <1>1 DEF maps, fixed, flags, progress
<1>3. /\ u \in Live /\ u \in Uploads /\ own[t] = u /\ c \in Calls /\ c.id \in FileIds
      /\ c.id = idOf[u] /\ u \in open /\ tmp[u] \in Contents /\ writeMutex[u] = t
  <2>1. own[t] = u /\ u \in open /\ tmp[u] # NoFile /\ writeMutex[u] = t
    BY <1>1 DEF IInv, ThreadsGood, ThreadGood, WriterGood, Writing
  <2>2. pc[t] \notin {"idle", "abort", "next"}
    BY <1>1
  <2>3. /\ cur[t] \in Live /\ cur[t] \in Uploads /\ call[t].id \in FileIds
        /\ call[t].id = idOf[cur[t]]
    BY <2>2, SecondLook
  <2>4. call[t] \in Calls /\ tmp[cur[t]] \in Contents \cup {NoFile}
    BY SMTT(60), <2>3 DEF IInv, TypeOK, ThreadTypes, DiskTypes
  <2> QED BY <2>1, <2>3, <2>4
<1>4. PICK k \in 0 .. c.size : tmp' = [tmp EXCEPT ![u] = Overwrite(tmp[u], c, k)]
  <2>1. c.size \in Nat /\ tmp[u] # NoFile
    BY <1>3 DEF Calls, ConstantsAssumption
  <2>2. \/ tmp' = [tmp EXCEPT ![own[t]] = IF @ = NoFile THEN @ ELSE Overwrite(@, c, c.size)]
        \/ \E k \in 0 .. c.size :
             tmp' = [tmp EXCEPT ![own[t]] = IF @ = NoFile THEN @ ELSE Overwrite(@, c, k)]
    BY DEF WriteMappedRange
  <2>3. c.size \in 0 .. c.size
    BY SMTT(60), <2>1
  <2> QED BY ONLY ZenonT(60), <1>3, <2>1, <2>2, <2>3
<1>5. /\ tmp' \in [Uploads -> Contents \cup {NoFile}]
      /\ \A v \in Uploads : tmp'[v] = NoFile <=> tmp[v] = NoFile
  <2>1. Overwrite(tmp[u], c, k) \in Contents /\ k \in Nat
    <3>1. c.size \in Nat
      BY <1>3 DEF Calls
    <3> QED BY SMTT(60), <1>3, <3>1, OverwriteType
  <2>2. tmp \in [Uploads -> Contents \cup {NoFile}]
    BY DEF IInv, TypeOK, DiskTypes
  <2> QED BY <1>3, <1>4, <2>1, <2>2 DEF ConstantsAssumption
<1>6. hashCtx' \in [FileIds -> Contents \cup {NoFile}]
  <2>1. hashCtx \in [FileIds -> Contents \cup {NoFile}]
    BY DEF IInv, TypeOK, MapTypes
  <2>2. hashCtx[c.id] # NoFile => hashCtx[c.id] \o Repeat(c.data, c.size) \in Contents
    BY <1>3, <2>1, RepeatType
  <2>3. \/ hashCtx' = hashCtx
        \/ /\ hashCtx[c.id] # NoFile
           /\ hashCtx' = [hashCtx EXCEPT ![c.id] = hashCtx[c.id] \o Repeat(c.data, c.size)]
    BY DEF WriteMappedRange
  <2> QED BY <1>3, <2>1, <2>2, <2>3
<1>7. /\ Others(t) /\ pc'[t] \in {"commit", "abort"} /\ call'[t].id = c.id
      /\ call'[t].offset = c.offset /\ call' \in [Threads -> Calls]
      /\ pc' \in [Threads -> Labels]
      /\ job' \in [Threads -> {"none", "abort", "expire", "sweep"}]
  <2>1. /\ call \in [Threads -> Calls] /\ pc \in [Threads -> Labels]
        /\ job \in [Threads -> {"none", "abort", "expire", "sweep"}]
    BY DEF IInv, TypeOK, ThreadTypes
  <2>2. \A ok \in BOOLEAN : [c EXCEPT !.hashed = ok] \in Calls
    BY <1>3 DEF Calls
  <2>3. \/ call' = call
        \/ \E ok \in BOOLEAN : call' = [call EXCEPT ![t] = [c EXCEPT !.hashed = ok]]
    BY DEF WriteMappedRange
  <2>4. /\ call' \in [Threads -> Calls] /\ call'[t].id = c.id /\ call'[t].offset = c.offset
        /\ \A r \in Threads \ {t} : call'[r] = call[r]
    BY ONLY SMTT(60), <1>3, <2>1, <2>2, <2>3, t \in Threads DEF Calls
  <2>5. /\ pc' \in [Threads -> Labels] /\ pc'[t] \in {"commit", "abort"}
        /\ \A r \in Threads \ {t} : pc'[r] = pc[r]
        /\ job' \in [Threads -> {"none", "abort", "expire", "sweep"}]
    BY <2>1 DEF WriteMappedRange, Goto, Labels
  <2> QED BY <1>1, <2>4, <2>5 DEF Others, SameThread
<1>8. /\ writeMutex' \in [Uploads -> Maybe(Threads)]
      /\ \A v \in Uploads : writeMutex[v] # t => writeMutex'[v] = writeMutex[v]
      /\ pc'[t] = "commit" => writeMutex' = writeMutex
  BY DEF WriteMappedRange, Unlocked, Goto, IInv, TypeOK, ThreadTypes, Maybe
<1>9. TypeOK'
  <2>1. MapTypes'
    BY <1>1, <1>6 DEF IInv, TypeOK, MapTypes, maps
  <2>2. UploadTypes'
    BY <1>1 DEF IInv, TypeOK, UploadTypes, fixed, progress, flags
  <2>3. DiskTypes'
    BY <1>1, <1>5 DEF IInv, TypeOK, DiskTypes
  <2>4. ThreadTypes'
    BY <1>1, <1>7, <1>8 DEF IInv, TypeOK, ThreadTypes
  <2> QED BY <2>1, <2>2, <2>3, <2>4 DEF TypeOK
<1>10. UploadsGood'
  <2>1. MapsAgree' /\ IdsUnique'
    BY <1>2 DEF IInv, UploadsGood, MapsAgree, IdsUnique, Live
  <2>2. FreshIsClean' /\ ActiveIsIntact'
    BY <1>2, <1>5 DEF IInv, UploadsGood, FreshIsClean, Fresh, ActiveIsIntact, IsActive
  <2>3. ReservationsKept' /\ OutcomesGood'
    BY <1>2, <1>5 DEF IInv, UploadsGood, ReservationsKept, OutcomesGood, Live
  <2> QED BY <2>1, <2>2, <2>3 DEF UploadsGood
<1>11. ThreadsGood'
  <2>1. ThreadGood(t)'
    <3>1. ThreadGood(t)
      BY DEF IInv, ThreadsGood
    <3>2. PointerGood(t)'
      BY <1>1, <1>2, <1>3, <1>7, <3>1 DEF ThreadGood, PointerGood, Live
    <3>3. WriterGood(t)'
      BY <1>1, <1>2, <1>3, <1>7, <1>8, <3>1 DEF ThreadGood, WriterGood, Writing
    <3>4. FinalizerGood(t)'
      BY <1>7 DEF FinalizerGood, Finalizing
    <3> QED BY <3>2, <3>3, <3>4 DEF ThreadGood
  <2>2. ASSUME NEW r \in Threads \ {t} PROVE ThreadGood(r)'
    <3>1. SameThread(r) /\ ThreadGood(r)
      BY <1>7 DEF Others, IInv, ThreadsGood
    <3>2. Writing(r) \/ Finalizing(r) => cur[r] \in Uploads
      BY <3>1 DEF ThreadGood, PointerGood, Live, Writing, Finalizing
    <3>3. Writing(r) => writeMutex[cur[r]] # t
      BY <3>1 DEF ThreadGood, WriterGood
    <3>4. Finalizing(r) => cur[r] \in finalizing \ (completed \cup failed)
      BY <3>1 DEF ThreadGood, FinalizerGood
    <3>5. pc[r] = "write" => Writing(r)
      BY DEF Writing
    <3> QED BY <1>2, <1>5, <1>8, <3>1, <3>2, <3>3, <3>4, <3>5, OtherThreadGood
  <2> QED BY <2>1, <2>2 DEF ThreadsGood
<1>12. OneFinalizer'
  BY <1>1, <1>7, OneFinalizerKept DEF IInv, Finalizing, Writing
<1> QED BY <1>9, <1>10, <1>11, <1>12 DEF IInv

\* What a finalizer may rely on.
LEMMA FinalizerFacts ==
  ASSUME IInv, NEW t \in Threads, Finalizing(t)
  PROVE  /\ cur[t] \in Live /\ cur[t] \in Uploads /\ own[t] = cur[t]
         /\ cur[t] \in finalizing /\ cur[t] \notin completed /\ cur[t] \notin failed
         /\ pc[t] # "complete" => published[cur[t]] = {}
         /\ call[t].id \in FileIds /\ call[t].id = idOf[cur[t]]
         /\ ~IsActive(cur[t])
         /\ \A r \in Threads \ {t} : Finalizing(r) \/ Writing(r) => cur[r] # cur[t]
<1>1. cur[t] \in Live /\ cur[t] \in Uploads /\ call[t].id \in FileIds
      /\ call[t].id = idOf[cur[t]]
  BY SecondLook DEF Finalizing
<1>2. /\ own[t] = cur[t] /\ cur[t] \in finalizing /\ cur[t] \notin completed
      /\ cur[t] \notin failed /\ (pc[t] # "complete" => published[cur[t]] = {})
  BY DEF IInv, ThreadsGood, ThreadGood, FinalizerGood
<1>3. ~IsActive(cur[t])
  BY <1>1, <1>2 DEF IInv, UploadsGood, ActiveIsIntact
<1>4. \A r \in Threads \ {t} : Finalizing(r) \/ Writing(r) => cur[r] # cur[t]
  BY DEF IInv, OneFinalizer
<1> QED BY <1>1, <1>2, <1>3, <1>4


\* Where retireTemporary and the bookkeeping after it return to.
LEMMA ReturnEffect ==
  ASSUME ConstantsAssumption, ThreadTypes, NEW t \in Threads, ReturnFromRetire(t)
  PROVE  /\ ThreadTypes' /\ Others(t) /\ pc'[t] \in {"idle", "next"}
         /\ todo'[t] \subseteq todo[t]
         /\ \A v \in Uploads : writeMutex[v] # t => writeMutex'[v] = writeMutex[v]
<1>1. CASE Finish(t)
  <2>1. ThreadTypes' /\ Others(t) /\ pc'[t] = "idle" /\ todo'[t] = {}
    BY <1>1, FinishTypes
  <2> QED BY <1>1, <2>1 DEF Finish, Unlocked
<1>2. CASE /\ Goto(t, "next")
           /\ writeMutex' = Unlocked(t)
           /\ call' = [call EXCEPT ![t] = NoCall]
           /\ cur' = [cur EXCEPT ![t] = Nil]
           /\ UNCHANGED <<job, own, todo, verdict, finalizeMutex>>
  <2>1. NoCall \in Calls
    BY DEF NoCall, Calls, Maybe
  <2>2. ThreadTypes'
    BY <1>2, <2>1 DEF ThreadTypes, Goto, Unlocked, Labels, Maybe
  <2> QED BY <1>2, <2>2 DEF ThreadTypes, Goto, Unlocked, Others, SameThread
<1> QED BY <1>1, <1>2 DEF ReturnFromRetire

----------------------------------------------------------------------------
(* finalizeFileResult: from its second look on, one thread has the upload *)

\* A step of the finalizer of u disturbs no other thread.
LEMMA FinalizerOthers ==
  ASSUME IInv, NEW t \in Threads, Finalizing(t), Others(t), NEW r \in Threads \ {t},
         UNCHANGED <<idOf, dead, bytes, writeMutex>>,
         failed \subseteq failed', reserved' \subseteq reserved,
         open \ {cur[t]} \subseteq open',
         finalizing \ {cur[t]} \subseteq finalizing',
         completed' \subseteq completed \cup {cur[t]}, failed' \subseteq failed \cup {cur[t]},
         \A v \in Uploads \ {cur[t]} : tmp'[v] = tmp[v] /\ published'[v] = published[v]
  PROVE  ThreadGood(r)'
<1>1. ThreadGood(r) /\ SameThread(r)
  BY DEF IInv, ThreadsGood, Others
<1>2. Finalizing(r) \/ Writing(r) => cur[r] # cur[t] /\ cur[r] \in Uploads
  BY <1>1, FinalizerFacts DEF ThreadGood, PointerGood, Live, Finalizing, Writing
<1>3. Finalizing(r) => cur[r] \in finalizing \ (completed \cup failed)
  BY <1>1 DEF ThreadGood, FinalizerGood
<1>4. pc[r] = "write" => Writing(r)
  BY DEF Writing
<1> QED BY <1>1, <1>2, <1>3, <1>4, OtherThreadGood

\* Flushing, hashing and closing keep the finalizer alone with its upload.
LEMMA SealStep ==
  ASSUME ConstantsAssumption, IInv, NEW t \in Threads, Seal(t)
  PROVE  IInv'
<1> DEFINE u == cur[t]
<1>1. /\ UNCHANGED <<maps, fixed, progress, flags, result, writeMutex, diskVars,
                      finalizeMutex, suffix, dead, job, call, cur, own, todo>>
      /\ pc[t] = "seal" /\ Finalizing(t)
  BY DEF Seal, Finalizing
<1>2. UNCHANGED <<handles, sessions, order, idOf, dead, published, tmp, finalizing,
                  completed, failed, reserved, result, bytes, writeMutex>>
  BY <1>1 DEF maps, fixed, flags, progress, diskVars
<1>3. open' \in {open, open \ {u}}
  BY <1>1, FinalizerFacts DEF Seal
<1>4. /\ verdict' \in [Threads -> Verdicts]
      /\ \A r \in Threads \ {t} : verdict'[r] = verdict[r]
  <2>1. /\ verdict \in [Threads -> Verdicts] /\ tmp[own[t]] \in Contents \cup {NoFile}
        /\ hashCtx[call[t].id] \in Contents \cup {NoFile}
    BY <1>1, FinalizerFacts DEF IInv, TypeOK, ThreadTypes, DiskTypes, MapTypes
  <2>2. \A d \in Contents : [verdict[t] EXCEPT !.sha256 = d] \in Verdicts
    BY <2>1 DEF Verdicts
  <2>3. \/ verdict' = verdict
        \/ \E d \in Contents : verdict' = [verdict EXCEPT ![t] = [verdict[t] EXCEPT !.sha256 = d]]
    BY <2>1 DEF Seal
  <2> QED BY <2>1, <2>2, <2>3
<1>5. /\ pc' \in [Threads -> Labels] /\ pc'[t] \in {"decide", "fail"}
      /\ \A r \in Threads \ {t} : pc'[r] = pc[r]
  BY DEF Seal, Goto, Labels, IInv, TypeOK, ThreadTypes
<1>6. TypeOK'
  <2>1. hashCtx' \in [FileIds -> Contents \cup {NoFile}]
    BY DEF Seal, IInv, TypeOK, MapTypes
  <2>2. MapTypes'
    BY <1>1, <2>1 DEF IInv, TypeOK, MapTypes, maps
  <2>3. UploadTypes'
    BY <1>1, <1>3 DEF IInv, TypeOK, UploadTypes, fixed, progress, flags
  <2>4. DiskTypes'
    BY <1>1 DEF IInv, TypeOK, DiskTypes, diskVars
  <2>5. ThreadTypes'
    BY <1>1, <1>4, <1>5 DEF IInv, TypeOK, ThreadTypes
  <2> QED BY <2>2, <2>3, <2>4, <2>5 DEF TypeOK
<1>7. UploadsGood'
  <2>1. MapsAgree' /\ IdsUnique'
    BY <1>2 DEF IInv, UploadsGood, MapsAgree, IdsUnique, Live
  <2>2. FreshIsClean'
    BY <1>2 DEF IInv, UploadsGood, FreshIsClean, Fresh
  <2>3. ActiveIsIntact'
    <3>1. ActiveIsIntact BY DEF IInv, UploadsGood
    <3>2. ~IsActive(u)
      BY <1>1, FinalizerFacts
    <3>3. ASSUME NEW w \in Uploads, IsActive(w)' PROVE w \in open' /\ IsActive(w)
      <4>1. IsActive(w)
        BY <1>2, <3>3 DEF IsActive
      <4>2. w # u /\ w \in open
        BY <3>1, <3>2, <4>1 DEF ActiveIsIntact
      <4> HIDE DEF u
      <4> QED BY <1>3, <4>1, <4>2
    <3> QED BY <1>2, <3>1, <3>3 DEF ActiveIsIntact
  <2>4. ReservationsKept' /\ OutcomesGood'
    BY <1>2 DEF IInv, UploadsGood, ReservationsKept, OutcomesGood, Live
  <2> QED BY <2>1, <2>2, <2>3, <2>4 DEF UploadsGood
<1>8. Others(t)
  BY <1>1, <1>4, <1>5 DEF Others, SameThread
<1>9. ThreadsGood'
  <2>1. ThreadGood(t)'
    <3>1. ThreadGood(t)
      BY DEF IInv, ThreadsGood
    <3>2. PointerGood(t)'
      BY <1>1, <1>2, <1>5, <3>1 DEF ThreadGood, PointerGood, Live
    <3>3. FinalizerGood(t)' /\ WriterGood(t)'
      BY <1>1, <1>2, <1>5, <3>1 DEF ThreadGood, FinalizerGood, WriterGood, Finalizing, Writing
    <3> QED BY <3>2, <3>3 DEF ThreadGood
  <2>2. \A r \in Threads \ {t} : ThreadGood(r)'
    BY <1>1, <1>2, <1>3, <1>8, FinalizerOthers
  <2> QED BY <2>1, <2>2 DEF ThreadsGood
<1>10. OneFinalizer'
  BY <1>1, <1>5, <1>8, OneFinalizerKept DEF IInv, Finalizing, Writing
<1> QED BY <1>6, <1>7, <1>9, <1>10 DEF IInv

\* A finalization fails only while nothing has been published.
LEMMA FailFinalizationStep ==
  ASSUME ConstantsAssumption, IInv, NEW t \in Threads, FailFinalization(t)
  PROVE  IInv'
<1> DEFINE u == cur[t]
<1>1. /\ u \in Live /\ u \in Uploads /\ own[t] = u /\ u \notin completed
      /\ published[u] = {} /\ pc[t] = "fail" /\ Finalizing(t) /\ ~IsActive(u)
  BY FinalizerFacts DEF FailFinalization, Finalizing
<1>2. UNCHANGED <<handles, sessions, order, hashCtx, suffix, idOf, metaOf, bytes, sizes,
                  hashValid, completed, reserved, idle, dead, result, tmp, disk, index,
                  published, writeMutex, finalizeMutex, job, call, cur, own, todo, verdict>>
  BY DEF FailFinalization, maps, fixed, progress, diskVars, miscVars
<1>3. /\ open' = open \ {u} /\ finalizing' = finalizing \ {u} /\ failed' = failed \cup {u}
      /\ pc' = [pc EXCEPT ![t] = "retire"]
  BY <1>1 DEF FailFinalization, Goto
<1>4. TypeOK'
  <2>1. MapTypes' /\ DiskTypes'
    BY <1>2 DEF IInv, TypeOK, MapTypes, DiskTypes
  <2>2. UploadTypes'
    BY <1>1, <1>2, <1>3 DEF IInv, TypeOK, UploadTypes
  <2>3. ThreadTypes'
    BY <1>2, <1>3 DEF IInv, TypeOK, ThreadTypes, Labels
  <2> QED BY <2>1, <2>2, <2>3 DEF TypeOK
<1>5. UploadsGood'
  <2>1. MapsAgree' /\ IdsUnique' /\ ReservationsKept'
    BY <1>2 DEF IInv, UploadsGood, MapsAgree, IdsUnique, ReservationsKept, Live
  <2>2. FreshIsClean'
    BY <1>1, <1>2, <1>3 DEF IInv, UploadsGood, FreshIsClean, Fresh, Live
  <2>3. ActiveIsIntact'
    BY <1>1, <1>2, <1>3 DEF IInv, UploadsGood, ActiveIsIntact, IsActive
  <2>4. OutcomesGood'
    BY <1>1, <1>2, <1>3 DEF IInv, UploadsGood, OutcomesGood
  <2> QED BY <2>1, <2>2, <2>3, <2>4 DEF UploadsGood
<1>6. /\ Others(t) /\ pc'[t] = "retire"
  BY <1>2, <1>3 DEF Others, SameThread, IInv, TypeOK, ThreadTypes
<1>7. ThreadsGood'
  <2>1. ThreadGood(t)'
    <3>1. PointerGood(t)
      BY DEF IInv, ThreadsGood, ThreadGood
    <3>2. PointerGood(t)'
      BY <1>1, <1>2, <1>3, <1>6, <3>1 DEF PointerGood, Live
    <3> QED BY <1>6, <3>2 DEF ThreadGood, WriterGood, FinalizerGood, Writing, Finalizing
  <2>2. \A r \in Threads \ {t} : ThreadGood(r)'
    BY <1>1, <1>2, <1>3, <1>6, FinalizerOthers
  <2> QED BY <2>1, <2>2 DEF ThreadsGood
<1>8. OneFinalizer'
  BY <1>6, OneFinalizerKept DEF IInv, Finalizing, Writing
<1> QED BY <1>4, <1>5, <1>7, <1>8 DEF IInv

\* Completion releases the reservation of an upload whose file is gone.
LEMMA CompleteStep ==
  ASSUME ConstantsAssumption, IInv, NEW t \in Threads, Complete(t)
  PROVE  IInv'
<1> DEFINE u == cur[t]
<1>1. /\ u \in Live /\ u \in Uploads /\ u \notin failed /\ pc[t] = "complete"
      /\ Finalizing(t) /\ ~IsActive(u)
  BY FinalizerFacts DEF Complete, Finalizing
<1>2. UNCHANGED <<handles, sessions, order, hashCtx, suffix, idOf, metaOf, bytes, sizes,
                  hashValid, failed, idle, dead, open, tmp, disk, index, published,
                  writeMutex, finalizeMutex, job, call, cur, own, todo, verdict>>
  BY DEF Complete, maps, fixed, progress, diskVars, miscVars
<1>3. /\ result' = [result EXCEPT ![u] = verdict[t]]
      /\ finalizing' = finalizing \ {u} /\ completed' = completed \cup {u}
      /\ reserved' = reserved \ {u} /\ pc' = [pc EXCEPT ![t] = "remember"]
  BY DEF Complete, Goto
<1>4. tmp[u] = NoFile /\ (verdict[t].disposition = "Saved" => published[u] # {})
  BY <1>1 DEF IInv, ThreadsGood, ThreadGood, FinalizerGood
<1>5. TypeOK'
  <2>1. MapTypes' /\ DiskTypes'
    BY <1>2 DEF IInv, TypeOK, MapTypes, DiskTypes
  <2>2. result' \in [Uploads -> Verdicts]
    BY <1>3 DEF IInv, TypeOK, UploadTypes, ThreadTypes
  <2>3. UploadTypes'
    BY <1>1, <1>2, <1>3, <2>2 DEF IInv, TypeOK, UploadTypes
  <2>4. ThreadTypes'
    BY <1>2, <1>3 DEF IInv, TypeOK, ThreadTypes, Labels
  <2> QED BY <2>1, <2>3, <2>4 DEF TypeOK
<1>6. UploadsGood'
  <2>1. MapsAgree' /\ IdsUnique'
    BY <1>2 DEF IInv, UploadsGood, MapsAgree, IdsUnique, Live
  <2>2. ReservationsKept'
    BY <1>1, <1>2, <1>3, <1>4 DEF IInv, UploadsGood, ReservationsKept, Live
  <2>3. FreshIsClean'
    BY <1>1, <1>2, <1>3 DEF IInv, UploadsGood, FreshIsClean, Fresh, Live
  <2>4. ActiveIsIntact'
    BY <1>1, <1>2, <1>3 DEF IInv, UploadsGood, ActiveIsIntact, IsActive
  <2>5. OutcomesGood'
    <3>1. result \in [Uploads -> Verdicts] /\ completed \subseteq Uploads
      BY DEF IInv, TypeOK, UploadTypes
    <3>2. OutcomesGood BY DEF IInv, UploadsGood
    <3> QED BY <1>1, <1>2, <1>3, <1>4, <3>1, <3>2 DEF OutcomesGood
  <2> QED BY <2>1, <2>2, <2>3, <2>4, <2>5 DEF UploadsGood
<1>7. /\ Others(t) /\ pc'[t] = "remember"
  BY <1>2, <1>3 DEF Others, SameThread, IInv, TypeOK, ThreadTypes
<1>8. ThreadsGood'
  <2>1. ThreadGood(t)'
    <3>1. PointerGood(t)
      BY DEF IInv, ThreadsGood, ThreadGood
    <3>2. PointerGood(t)'
      BY <1>1, <1>2, <1>3, <1>7, <3>1 DEF PointerGood, Live
    <3> QED BY <1>7, <3>2 DEF ThreadGood, WriterGood, FinalizerGood, Writing, Finalizing
  <2>2. \A r \in Threads \ {t} : ThreadGood(r)'
    BY <1>1, <1>2, <1>3, <1>7, FinalizerOthers
  <2> QED BY <2>1, <2>2 DEF ThreadsGood
<1>9. OneFinalizer'
  BY <1>7, OneFinalizerKept DEF IInv, Finalizing, Writing
<1> QED BY <1>5, <1>6, <1>8, <1>9 DEF IInv

\* Publishing or removing the temporary file keeps the invariant.
LEMMA PublishStep ==
  ASSUME ConstantsAssumption, IInv, NEW t \in Threads, Publish(t)
  PROVE  IInv'
<1> DEFINE u == cur[t]
           v == verdict[t]
<1>1. /\ u \in Live /\ u \in Uploads /\ u \notin failed /\ u \notin completed
      /\ own[t] = u /\ pc[t] = "publish" /\ Finalizing(t) /\ ~IsActive(u)
  BY FinalizerFacts DEF Publish, Finalizing
<1>2. UNCHANGED <<handles, sessions, order, hashCtx, suffix, idOf, metaOf, bytes, sizes,
                  hashValid, finalizing, completed, failed, reserved, idle, dead, result,
                  open, writeMutex, job, call, cur, own, todo, verdict>>
  BY DEF Publish, maps, fixed, progress, flags, uploadVars
<1>3. v \in Verdicts /\ v.filename \in Filenames /\ tmp[u] \in Contents \cup {NoFile}
  BY <1>1 DEF IInv, ThreadsGood, ThreadGood, FinalizerGood, TypeOK, ThreadTypes, DiskTypes
<1>4. /\ index' \in [Filenames -> Contents \cup {NoFile}]
      /\ finalizeMutex' \in Maybe(Threads)
  <2>1. index \in [Filenames -> Contents \cup {NoFile}] /\ v.sha256 \in Contents \cup {NoFile}
        /\ finalizeMutex \in Maybe(Threads)
    BY <1>3 DEF IInv, TypeOK, DiskTypes, ThreadTypes, Verdicts
  <2>2. index' \in {index, [index EXCEPT ![v.filename] = v.sha256]}
    BY DEF Publish, StoreHash
  <2>3. finalizeMutex' \in {finalizeMutex, Nil}
    BY DEF Publish
  <2> QED BY <2>1, <2>2, <2>3 DEF Maybe
<1>5. \/ /\ tmp[u] # NoFile /\ pc' = [pc EXCEPT ![t] = "complete"]
         /\ disk' = [disk EXCEPT ![v.filename] = tmp[u]]
         /\ tmp' = [tmp EXCEPT ![u] = NoFile]
         /\ published' = [published EXCEPT ![u] = @ \cup {<<v.filename, tmp[u]>>}]
      \/ /\ v.disposition # "Saved" /\ pc' = [pc EXCEPT ![t] = "complete"]
         /\ tmp' = [tmp EXCEPT ![u] = NoFile]
         /\ UNCHANGED <<disk, published>>
      \/ /\ pc' = [pc EXCEPT ![t] = "fail"]
         /\ UNCHANGED <<tmp, disk, published>>
  BY <1>1 DEF Publish, MayRename, Goto
<1>6. /\ tmp \in [Uploads -> Contents \cup {NoFile}]
      /\ disk \in [Filenames -> Contents \cup {NoFile}]
      /\ published \in [Uploads -> SUBSET (Filenames \X Contents)]
      /\ pc \in [Threads -> Labels]
  BY DEF IInv, TypeOK, DiskTypes, ThreadTypes
<1>7. TypeOK'
  <2>1. MapTypes'
    BY <1>2 DEF IInv, TypeOK, MapTypes
  <2>2. UploadTypes'
    BY <1>2 DEF IInv, TypeOK, UploadTypes
  <2>3. /\ tmp' \in [Uploads -> Contents \cup {NoFile}]
        /\ disk' \in [Filenames -> Contents \cup {NoFile}]
    BY <1>3, <1>5, <1>6
  <2>4. published' \in [Uploads -> SUBSET (Filenames \X Contents)]
    <3>1. tmp[u] # NoFile => <<v.filename, tmp[u]>> \in Filenames \X Contents
      BY <1>3
    <3>2. tmp[u] # NoFile =>
            published[u] \cup {<<v.filename, tmp[u]>>} \in SUBSET (Filenames \X Contents)
      BY <1>1, <1>6, <3>1
    <3> QED BY <1>5, <1>6, <3>2
  <2>5. DiskTypes'
    BY <1>4, <2>3, <2>4 DEF DiskTypes
  <2>6. ThreadTypes'
    <3>1. pc' \in [Threads -> Labels]
      BY <1>5, <1>6 DEF Labels
    <3> QED BY <1>2, <1>4, <3>1 DEF IInv, TypeOK, ThreadTypes
  <2> QED BY <2>1, <2>2, <2>5, <2>6 DEF TypeOK
<1>8. /\ \A w \in Uploads \ {u} : tmp'[w] = tmp[w] /\ published'[w] = published[w]
      /\ tmp[u] = NoFile => tmp'[u] = NoFile
  BY SMTT(60), <1>5, <1>6
<1>9. UploadsGood'
  <2>1. MapsAgree' /\ IdsUnique'
    BY <1>2 DEF IInv, UploadsGood, MapsAgree, IdsUnique, Live
  <2>2. ReservationsKept'
    <3>1. ReservationsKept BY DEF IInv, UploadsGood
    <3> QED BY <1>1, <1>2, <1>8, <3>1 DEF ReservationsKept, Live
  <2>3. FreshIsClean'
    BY <1>1, <1>2, <1>8 DEF IInv, UploadsGood, FreshIsClean, Fresh, Live
  <2>4. ActiveIsIntact'
    BY <1>1, <1>2, <1>8 DEF IInv, UploadsGood, ActiveIsIntact, IsActive
  <2>5. OutcomesGood'
    BY <1>1, <1>2, <1>8 DEF IInv, UploadsGood, OutcomesGood, TypeOK, UploadTypes
  <2> QED BY <2>1, <2>2, <2>3, <2>4, <2>5 DEF UploadsGood
<1>10. Others(t) /\ pc'[t] \in {"complete", "fail"}
  BY <1>2, <1>5, <1>6 DEF Others, SameThread
<1>11. ThreadsGood'
  <2>1. ThreadGood(t)'
    <3>1. ThreadGood(t)
      BY DEF IInv, ThreadsGood
    <3>2. PointerGood(t)'
      BY <1>1, <1>2, <1>10, <3>1 DEF ThreadGood, PointerGood, Live
    <3>a. pc'[t] = "fail" => published' = published
      BY <1>5, <1>6
    <3>b. pc'[t] = "complete" => tmp'[u] = NoFile
      BY <1>1, <1>5, <1>6
    <3>c. pc'[t] = "complete" /\ v.disposition = "Saved" => published'[u] # {}
      <4>1. pc'[t] = "complete" /\ v.disposition = "Saved" =>
              published' = [published EXCEPT ![u] = @ \cup {<<v.filename, tmp[u]>>}]
        BY <1>5, <1>6
      <4>2. ASSUME published' = [published EXCEPT ![u] = @ \cup {<<v.filename, tmp[u]>>}]
            PROVE  <<v.filename, tmp[u]>> \in published'[u]
        <5>1. published'[u] = published[u] \cup {<<v.filename, tmp[u]>>}
          BY ONLY ZenonT(60), <1>1, <1>6, <4>2
        <5> QED BY ONLY ZenonT(60), <5>1
      <4> QED BY <4>1, <4>2
    <3>3. /\ pc'[t] = "fail" => published' = published
          /\ pc'[t] = "complete" =>
               tmp'[u] = NoFile /\ (v.disposition = "Saved" => published'[u] # {})
      BY <3>a, <3>b, <3>c
    <3>4. FinalizerGood(t)' /\ WriterGood(t)'
      BY <1>1, <1>2, <1>10, <3>1, <3>3
         DEF ThreadGood, FinalizerGood, WriterGood, Finalizing, Writing
    <3> QED BY <3>2, <3>4 DEF ThreadGood
  <2>2. \A r \in Threads \ {t} : ThreadGood(r)'
    BY <1>1, <1>2, <1>8, <1>10, FinalizerOthers
  <2> QED BY <2>1, <2>2 DEF ThreadsGood
<1>12. OneFinalizer'
  BY <1>1, <1>2, <1>10, OneFinalizerKept DEF IInv, Finalizing, Writing
<1> QED BY <1>7, <1>9, <1>11, <1>12 DEF IInv

\* Decide touches the inventory, the numbers and the finalizer's own verdict.
LEMMA DecideEffect ==
  ASSUME ConstantsAssumption, IInv, NEW t \in Threads, Decide(t)
  PROVE  /\ index' \in [Filenames -> Contents \cup {NoFile}]
         /\ suffix' \in [{SafeName[x] : x \in DOMAIN SafeName} -> Nat]
         /\ finalizeMutex' \in {finalizeMutex, t}
         /\ \/ verdict' = verdict /\ Goto(t, "fail")
            \/ /\ Goto(t, "publish")
               /\ \E d \in Dispositions, f \in Filenames : Plan(t, d, f)
<1> DEFINE m == metaOf[own[t]]
           digest == verdict[t].sha256
           name == SafeName[m.name]
           first == <<name, 1>>
<1>1. /\ m \in Metas /\ name \in {SafeName[x] : x \in DOMAIN SafeName}
      /\ first \in Filenames
  <2>1. own[t] \in Uploads /\ idOf[own[t]] # Nil
    BY FinalizerFacts DEF Decide, Finalizing, Live
  <2>2. m \in Metas
    BY <2>1 DEF IInv, TypeOK, UploadTypes, Maybe
  <2>3. m.name \in DOMAIN SafeName /\ 1 \in 1 .. MaxSuffix
    BY SMTT(60), <2>2 DEF ConstantsAssumption
  <2> QED BY <2>2, <2>3 DEF Filenames
<1>2. /\ index \in [Filenames -> Contents \cup {NoFile}]
      /\ disk \in [Filenames -> Contents \cup {NoFile}]
      /\ suffix \in [{SafeName[x] : x \in DOMAIN SafeName} -> Nat]
  BY DEF IInv, TypeOK, DiskTypes, MapTypes
<1>3. \A S, bad : Corrected(S, bad) \in [Filenames -> Contents \cup {NoFile}]
  BY <1>2 DEF Corrected
<1>4. \A bad : Verified(digest, bad) \subseteq Filenames
  BY DEF Verified, Recorded
<1>5. \A n \in FreeNumbers(name) : <<name, n>> \in Filenames /\ n \in Nat
  <2>1. suffix[name] \in Nat /\ MaxSuffix \in Nat
    BY <1>1, <1>2 DEF ConstantsAssumption
  <2>2. \A n \in FreeNumbers(name) : n \in 1 .. MaxSuffix
    <3> DEFINE k == IF suffix[name] = 0 THEN 2 ELSE suffix[name]
    <3>1. k \in Nat /\ k >= 1
      BY ONLY SMTT(60), <2>1
    <3>2. FreeNumbers(name) \subseteq k .. MaxSuffix
      BY ONLY SMTT(60) DEF FreeNumbers
    <3> HIDE DEF k
    <3> QED BY ONLY SMTT(60), <2>1, <3>1, <3>2
  <2>3. \A n \in 1 .. MaxSuffix : n \in Nat
    BY ONLY SMTT(60), <2>1
  <2> QED BY <1>1, <2>2, <2>3 DEF Filenames
<1>6. {"Saved", "Duplicate", "NameConflict"} \subseteq Dispositions
  BY DEF Dispositions
<1> DEFINE ToPublish == Goto(t, "publish") /\ \E d \in Dispositions, f \in Filenames : Plan(t, d, f)
           ToFail == verdict' = verdict /\ Goto(t, "fail")
<1>7. CASE Goto(t, "fail") /\ UNCHANGED <<verdict, index, suffix, finalizeMutex>>
  BY <1>2, <1>7
<1>8. ASSUME NEW bad \in SUBSET (Recorded(digest) \cup {first}), finalizeMutex' = t,
             m.skip /\ first \notin bad /\ disk[first] = digest,
             Plan(t, "Duplicate", first), Goto(t, "publish"), UNCHANGED <<index, suffix>>
      PROVE  /\ index' \in [Filenames -> Contents \cup {NoFile}]
             /\ suffix' \in [{SafeName[x] : x \in DOMAIN SafeName} -> Nat] /\ ToPublish
  BY <1>1, <1>2, <1>6, <1>8
<1>9. ASSUME NEW bad \in SUBSET (Recorded(digest) \cup {first}), finalizeMutex' = t,
             NEW f \in Verified(digest, bad), NEW S,
             Plan(t, "Duplicate", f), index' = Corrected(S, bad), Goto(t, "publish"),
             UNCHANGED suffix
      PROVE  /\ index' \in [Filenames -> Contents \cup {NoFile}]
             /\ suffix' \in [{SafeName[x] : x \in DOMAIN SafeName} -> Nat] /\ ToPublish
  BY <1>2, <1>3, <1>4, <1>6, <1>9
<1>10. ASSUME NEW bad \in SUBSET (Recorded(digest) \cup {first}), finalizeMutex' = t, NEW S,
              index' = IF m.skip THEN Corrected(S, bad) ELSE index,
              IF disk[first] = NoFile
              THEN Plan(t, "Saved", first) /\ Goto(t, "publish") /\ UNCHANGED suffix
              ELSE IF ~KeepBoth
              THEN Plan(t, "NameConflict", first) /\ Goto(t, "publish") /\ UNCHANGED suffix
              ELSE IF FreeNumbers(name) = {}
              THEN Goto(t, "fail") /\ UNCHANGED <<verdict, suffix>>
              ELSE \E n \in FreeNumbers(name) :
                      /\ \A k \in FreeNumbers(name) : n <= k
                      /\ Plan(t, "Saved", <<name, n>>)
                      /\ suffix' = [suffix EXCEPT ![name] = n + 1]
                      /\ Goto(t, "publish")
       PROVE  /\ index' \in [Filenames -> Contents \cup {NoFile}]
              /\ suffix' \in [{SafeName[x] : x \in DOMAIN SafeName} -> Nat]
              /\ ToPublish \/ ToFail
  <2>1. index' \in [Filenames -> Contents \cup {NoFile}]
    BY <1>2, <1>3, <1>10
  <2>2. CASE disk[first] = NoFile
    BY <1>1, <1>2, <1>6, <1>10, <2>1, <2>2
  <2>3. CASE disk[first] # NoFile /\ ~KeepBoth
    BY <1>1, <1>2, <1>6, <1>10, <2>1, <2>3
  <2>4. CASE disk[first] # NoFile /\ KeepBoth /\ FreeNumbers(name) = {}
    BY <1>2, <1>10, <2>1, <2>4
  <2>5. CASE disk[first] # NoFile /\ KeepBoth /\ FreeNumbers(name) # {}
    <3>1. PICK n \in FreeNumbers(name) : /\ Plan(t, "Saved", <<name, n>>)
                                         /\ suffix' = [suffix EXCEPT ![name] = n + 1]
                                         /\ Goto(t, "publish")
      BY <1>10, <2>5
    <3>2. <<name, n>> \in Filenames /\ n + 1 \in Nat
      <4>1. <<name, n>> \in Filenames /\ n \in Nat
        BY <1>5
      <4> QED BY ONLY SMTT(60), <4>1
    <3>3. suffix' \in [{SafeName[x] : x \in DOMAIN SafeName} -> Nat]
      <4> DEFINE Names == {SafeName[x] : x \in DOMAIN SafeName}
      <4>1. suffix \in [Names -> Nat] /\ name \in Names
        BY <1>1, <1>2
      <4> HIDE DEF Names
      <4>2. suffix' \in [Names -> Nat]
        BY <3>1, <3>2, <4>1
      <4> QED BY <4>2 DEF Names
    <3> QED BY <1>6, <2>1, <3>1, <3>2, <3>3
  <2> QED BY <2>2, <2>3, <2>4, <2>5
<1> HIDE DEF ToPublish, ToFail
<1>11. /\ index' \in [Filenames -> Contents \cup {NoFile}]
       /\ suffix' \in [{SafeName[x] : x \in DOMAIN SafeName} -> Nat]
       /\ finalizeMutex' \in {finalizeMutex, t}
       /\ ToPublish \/ ToFail
  BY <1>7, <1>8, <1>9, <1>10 DEF Decide, ToFail
<1> QED BY <1>11 DEF ToPublish, ToFail

\* The decision changes only the finalizer's verdict, the inventory and names.
LEMMA DecideStep ==
  ASSUME ConstantsAssumption, IInv, NEW t \in Threads, Decide(t)
  PROVE  IInv'
<1>1. /\ UNCHANGED <<maps, uploadVars, tmp, disk, published, hashCtx, dead, job, call,
                      cur, own, todo>>
      /\ pc[t] = "decide" /\ Finalizing(t)
  BY DEF Decide, Finalizing
<1>2. UNCHANGED Shared /\ UNCHANGED <<bytes, writeMutex>>
  BY <1>1 DEF Shared, maps, uploadVars, fixed, flags, progress
<1>3. /\ verdict' \in [Threads -> Verdicts]
      /\ \A r \in Threads \ {t} : verdict'[r] = verdict[r]
      /\ pc' \in [Threads -> Labels]
      /\ \A r \in Threads \ {t} : pc'[r] = pc[r]
      /\ pc'[t] \in {"publish", "fail"}
      /\ pc'[t] = "publish" => verdict'[t].filename \in Filenames
  <2>1. verdict \in [Threads -> Verdicts] /\ pc \in [Threads -> Labels]
    BY DEF IInv, TypeOK, ThreadTypes
  <2>2. CASE verdict' = verdict /\ Goto(t, "fail")
    BY <2>1, <2>2 DEF Goto, Labels
  <2>3. CASE Goto(t, "publish") /\ \E d \in Dispositions, f \in Filenames : Plan(t, d, f)
    <3>1. PICK d \in Dispositions, f \in Filenames : Plan(t, d, f)
      BY <2>3
    <3>2. verdict' = [verdict EXCEPT ![t] =
                        [verdict[t] EXCEPT !.disposition = d, !.filename = f]]
      BY <2>1, <3>1 DEF Plan
    <3>3. /\ [verdict[t] EXCEPT !.disposition = d, !.filename = f] \in Verdicts
          /\ [verdict[t] EXCEPT !.disposition = d, !.filename = f].filename = f
      BY <2>1 DEF Verdicts, Maybe
    <3>4. pc' = [pc EXCEPT ![t] = "publish"]
      BY <2>3 DEF Goto
    <3> QED BY <2>1, <3>2, <3>3, <3>4 DEF Labels
  <2> QED BY <2>2, <2>3, DecideEffect
<1>4. TypeOK'
  <2>1. MapTypes'
    BY <1>1, DecideEffect DEF IInv, TypeOK, MapTypes, maps
  <2>2. UploadTypes'
    BY <1>1 DEF IInv, TypeOK, UploadTypes, uploadVars, fixed, progress, flags
  <2>3. DiskTypes'
    BY <1>1, DecideEffect DEF IInv, TypeOK, DiskTypes
  <2>4. ThreadTypes'
    <3>1. finalizeMutex' \in Maybe(Threads)
      BY DecideEffect DEF IInv, TypeOK, ThreadTypes, Maybe
    <3> QED BY <1>1, <1>2, <1>3, <3>1 DEF IInv, TypeOK, ThreadTypes
  <2> QED BY <2>1, <2>2, <2>3, <2>4 DEF TypeOK
<1>5. UploadsGood'
  BY <1>2, SharedKept DEF IInv
<1>6. Others(t)
  BY <1>1, <1>3 DEF Others, SameThread
<1>7. ThreadsGood'
  <2>1. ThreadGood(t)'
    <3>1. ThreadGood(t)
      BY DEF IInv, ThreadsGood
    <3>2. UNCHANGED <<idOf, dead, failed, finalizing, completed, published, reserved>>
      BY <1>2 DEF Shared
    <3>3. PointerGood(t)'
      BY <1>1, <1>3, <3>1, <3>2 DEF ThreadGood, PointerGood, Live
    <3>4. FinalizerGood(t)' /\ WriterGood(t)'
      BY <1>1, <1>3, <3>1, <3>2 DEF ThreadGood, FinalizerGood, WriterGood, Finalizing, Writing
    <3> QED BY <3>3, <3>4 DEF ThreadGood
  <2>2. \A r \in Threads \ {t} : ThreadGood(r)'
    BY <1>2, <1>6, QuietOthers DEF IInv
  <2> QED BY <2>1, <2>2 DEF ThreadsGood
<1>8. OneFinalizer'
  BY <1>1, <1>3, <1>6, OneFinalizerKept DEF IInv, Finalizing, Writing
<1> QED BY <1>4, <1>5, <1>7, <1>8 DEF IInv

\* The second look of finalizeFileResult makes its thread the only finalizer,
\* with no writer left in the mapping.
LEMMA FinalizeLockedStep ==
  ASSUME ConstantsAssumption, IInv, NEW t \in Threads, FinalizeLocked(t)
  PROVE  IInv'
<1> DEFINE id == call[t].id
           u == cur[t]
<1>1. /\ UNCHANGED <<sessions, order, fixed, progress, completed, failed, reserved, idle,
                      result, open, diskVars, suffix, hashCtx, dead>>
      /\ pc[t] = "finalLock" /\ writeMutex[u] = Nil
  BY DEF FinalizeLocked
<1>2. UNCHANGED <<sessions, order, idOf, metaOf, dead, tmp, disk, index, published, completed,
                  failed, reserved, open, result, bytes>>
  BY <1>1 DEF fixed, progress, diskVars
<1>3. /\ u \in Live /\ u \in Uploads /\ id = idOf[u] /\ id \in FileIds
      /\ handles[id] \in {u, Nil} /\ sessions[id] \in {u, Nil}
  BY <1>1, SecondLook
<1>4. DiskTypes'
  BY <1>2 DEF IInv, TypeOK, DiskTypes
<1>5. UNCHANGED <<handles, finalizing>> => UNCHANGED Shared /\ MapTypes' /\ UploadTypes'
  <2> SUFFICES ASSUME UNCHANGED <<handles, finalizing>>
               PROVE  UNCHANGED Shared /\ MapTypes' /\ UploadTypes'
    OBVIOUS
  <2>1. UNCHANGED Shared
    BY <1>2 DEF Shared
  <2>2. MapTypes'
    BY <1>1 DEF IInv, TypeOK, MapTypes
  <2>3. UploadTypes'
    BY <1>1 DEF IInv, TypeOK, UploadTypes, fixed, progress
  <2> QED BY <2>1, <2>2, <2>3
<1>6. CASE /\ handles[id] # Nil
           /\ finalizing' = finalizing \cup {u}
           /\ handles' = [handles EXCEPT ![id] = Nil]
           /\ own' = [own EXCEPT ![t] = handles[id]]
           /\ Goto(t, "seal")
           /\ UNCHANGED <<job, call, cur, todo, verdict, writeMutex, finalizeMutex>>
  <2>1. /\ handles[id] = u /\ IsActive(u)
    BY <1>3, <1>6 DEF IsActive
  <2>2. /\ u \notin completed /\ u \notin failed /\ u \notin finalizing /\ published[u] = {}
    BY <1>3, <2>1 DEF IInv, UploadsGood, ActiveIsIntact
  <2>3. TypeOK'
    <3>1. MapTypes'
      BY <1>1, <1>3, <1>6 DEF IInv, TypeOK, MapTypes, Maybe
    <3>2. UploadTypes'
      BY <1>1, <1>3, <1>6 DEF IInv, TypeOK, UploadTypes, fixed, progress
    <3>3. ThreadTypes'
      BY <1>3, <1>6, <2>1 DEF Goto, IInv, TypeOK, ThreadTypes, Labels, Maybe
    <3> QED BY <1>4, <3>1, <3>2, <3>3 DEF TypeOK
  <2>4. \A i \in FileIds : handles'[i] \in {handles[i], Nil} /\ handles'[i] # u
    BY <1>3, <1>6, <2>1 DEF IInv, TypeOK, MapTypes, UploadsGood, MapsAgree, ConstantsAssumption
  <2>5. UploadsGood'
    <3>1. MapsAgree' /\ IdsUnique'
      BY <1>2, <2>4, MapsKept DEF IInv, UploadsGood
    <3>2. FreshIsClean'
      BY <1>2, <1>3, <1>6 DEF IInv, UploadsGood, FreshIsClean, Fresh, Live
    <3>3. ActiveIsIntact'
      BY <1>2, <1>6, <2>4 DEF IInv, UploadsGood, ActiveIsIntact, IsActive, ConstantsAssumption
    <3>4. ReservationsKept' /\ OutcomesGood'
      BY <1>2 DEF IInv, UploadsGood, ReservationsKept, OutcomesGood, Live
    <3> QED BY <3>1, <3>2, <3>3, <3>4 DEF UploadsGood
  <2>6. Others(t) /\ pc'[t] = "seal" /\ own'[t] = u
    BY <1>6, <2>1 DEF Goto, IInv, TypeOK, ThreadTypes, Others, SameThread
  <2>7. ThreadsGood'
    <3>1. ThreadGood(t)'
      <4>1. PointerGood(t)
        BY DEF IInv, ThreadsGood, ThreadGood
      <4>2. PointerGood(t)'
        BY <1>1, <1>2, <1>3, <1>6, <2>6, <4>1 DEF PointerGood, Live
      <4>3. WriterGood(t)' /\ FinalizerGood(t)'
        BY <1>2, <1>6, <2>2, <2>6 DEF WriterGood, FinalizerGood, Writing, Finalizing
      <4> QED BY <4>2, <4>3 DEF ThreadGood
    <3>2. ASSUME NEW r \in Threads \ {t} PROVE ThreadGood(r)'
      <4>1. ThreadGood(r) /\ SameThread(r)
        BY <2>6 DEF IInv, ThreadsGood, Others
      <4>2. Finalizing(r) => cur[r] \in finalizing \ (completed \cup failed)
        BY <4>1 DEF ThreadGood, FinalizerGood
      <4> QED BY <1>2, <1>6, <4>1, <4>2, OtherThreadGood
    <3> QED BY <3>1, <3>2 DEF ThreadsGood
  <2>8. OneFinalizer'
    <3>1. \A r \in Threads : Finalizing(r) => cur[r] # u
      BY <2>2 DEF IInv, ThreadsGood, ThreadGood, FinalizerGood
    <3>2. \A r \in Threads : Writing(r) => cur[r] # u
      <4>1. \A r \in Threads : Writing(r) => writeMutex[cur[r]] = r
        BY DEF IInv, ThreadsGood, ThreadGood, WriterGood
      <4>2. Nil \notin Threads
        BY DEF ConstantsAssumption, Threads
      <4> QED BY <1>1, <4>1, <4>2
    <3>3. OneFinalizer BY DEF IInv
    <3> QED BY ONLY SMTT(60), <1>6, <2>6, <3>1, <3>2, <3>3, t \in Threads
         DEF OneFinalizer, Finalizing, Writing, Others, SameThread
  <2> QED BY <2>3, <2>5, <2>7, <2>8 DEF IInv
<1>7. CASE /\ handles[id] # Nil
           /\ Goto(t, "abort")
           /\ job' = [job EXCEPT ![t] = "abort"]
           /\ UNCHANGED <<handles, finalizing, call, cur, own, todo, verdict, writeMutex,
                          finalizeMutex>>
  <2>1. UNCHANGED Shared /\ MapTypes' /\ UploadTypes' /\ UploadsGood'
    BY <1>5, <1>7, SharedKept DEF IInv
  <2>2. ThreadTypes' /\ Others(t) /\ pc'[t] = "abort"
    BY <1>7 DEF Goto, IInv, TypeOK, ThreadTypes, Labels, Others, SameThread
  <2>3. ThreadGood(t)'
    <3>1. PointerGood(t)
      BY DEF IInv, ThreadsGood, ThreadGood
    <3>2. PointerGood(t)'
      BY <1>2, <1>3, <1>7, <2>2, <3>1 DEF PointerGood, Live
    <3> QED BY <2>2, <3>2 DEF ThreadGood, WriterGood, FinalizerGood, Writing, Finalizing
  <2>4. ThreadsGood'
    BY <1>2, <1>7, <2>1, <2>2, <2>3, QuietOthers DEF ThreadsGood, IInv
  <2>5. OneFinalizer'
    BY <2>2, OneFinalizerKept DEF IInv, Finalizing, Writing
  <2> QED BY <1>4, <2>1, <2>2, <2>4, <2>5 DEF IInv, TypeOK
<1>8. CASE /\ handles[id] = Nil /\ sessions[id] # Nil
           /\ cur' = [cur EXCEPT ![t] = sessions[id]]
           /\ Goto(t, "await")
           /\ UNCHANGED <<handles, finalizing, job, call, own, todo, verdict, writeMutex,
                          finalizeMutex>>
  <2>1. UNCHANGED Shared /\ MapTypes' /\ UploadTypes' /\ UploadsGood'
    BY <1>5, <1>8, SharedKept DEF IInv
  <2>2. ThreadTypes' /\ Others(t) /\ pc'[t] = "await" /\ cur'[t] = u
    BY <1>3, <1>8 DEF Goto, IInv, TypeOK, ThreadTypes, Labels, Maybe, Others, SameThread
  <2>3. ThreadGood(t)'
    <3>1. PointerGood(t)
      BY DEF IInv, ThreadsGood, ThreadGood
    <3>2. PointerGood(t)'
      BY <1>2, <1>3, <1>8, <2>2, <3>1 DEF PointerGood, Live
    <3> QED BY <2>2, <3>2 DEF ThreadGood, WriterGood, FinalizerGood, Writing, Finalizing
  <2>4. ThreadsGood'
    BY <1>2, <1>8, <2>1, <2>2, <2>3, QuietOthers DEF ThreadsGood, IInv
  <2>5. OneFinalizer'
    BY <2>2, OneFinalizerKept DEF IInv, Finalizing, Writing
  <2> QED BY <1>4, <2>1, <2>2, <2>4, <2>5 DEF IInv, TypeOK
<1>9. CASE Finish(t) /\ UNCHANGED <<handles, finalizing>>
  BY <1>2, <1>4, <1>5, <1>9, QuietFinish
<1> QED BY <1>6, <1>7, <1>8, <1>9 DEF FinalizeLocked
==============================================================================
