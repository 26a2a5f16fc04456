----------------------- MODULE FileWriterContentProofs -----------------------
(***************************************************************************)
(* Proofs about FileWriter: what its files hold.  ContentInv is inductive  *)
(* relative to IInv: a step touches the content of one upload only, and    *)
(* that upload's writer or finalizer is the thread that takes it.          *)
(***************************************************************************)
EXTENDS FileWriterWriteProofs

\* A leaf is for Zenon, with a minute of time, unless it names SMT.
USE ZenonT(60)

----------------------------------------------------------------------------
(* What a step leaves alone *)

\* A step of thread t leaves alone what ContentInv says of upload u: it gives
\* it no handle, no valid digest and no outcome.
SameContent(t, u) ==
  /\ idOf'[u] = idOf[u] /\ metaOf'[u] = metaOf[u]
  /\ tmp'[u] = tmp[u] /\ bytes'[u] = bytes[u]
  /\ published'[u] = published[u] /\ result'[u] = result[u]
  /\ u \in hashValid' => u \in hashValid
  /\ u \in completed' => u \in completed
  /\ IsActive(u)' => IsActive(u)
  /\ HashesAhead(t, u) => HashesAhead(t, u)'
  /\ u \in Live => hashCtx'[idOf[u]] = hashCtx[idOf[u]]

\* It does so of every upload but w.
OnlyTouches(t, w) ==
  /\ Others(t) /\ UNCHANGED dead
  /\ \A u \in Uploads \ {w} : SameContent(t, u)
  /\ pc'[t] = "seal" => (pc[t] = "seal" /\ cur'[t] = cur[t]) \/ cur'[t] = w

\* Uploads other than w keep their content.
LEMMA OtherUploads ==
  ASSUME ContentInv, NEW t, NEW w, OnlyTouches(t, w),
         NEW u \in Uploads \ {w}
  PROVE  PublishedGood(u)' /\ (u \in Live' => TmpGood(u)' /\ StreamGood(u)')
<1>1. SameContent(t, u) /\ PublishedGood(u)
  BY DEF OnlyTouches, ContentInv
<1>2. PublishedGood(u)'
  BY <1>1 DEF SameContent, PublishedGood
<1>3. ASSUME u \in Live' PROVE TmpGood(u)' /\ StreamGood(u)'
  <2>1. u \in Live
    <3>1. UNCHANGED dead /\ idOf'[u] = idOf[u]
      BY <1>1 DEF OnlyTouches, SameContent
    <3> QED BY <1>3, <3>1 DEF Live
  <2>2. TmpGood(u) /\ StreamGood(u)
    BY <2>1 DEF ContentInv
  <2>3. TmpGood(u)'
    BY <1>1, <2>2 DEF SameContent, TmpGood, FilledTo
  <2>4. Sealing(u)' => Sealing(u)
    BY DEF Sealing, OnlyTouches, Others, SameThread
  <2>5. (\A r \in Threads : ~HashesAhead(r, u)') => \A r \in Threads : ~HashesAhead(r, u)
    <3>1. \A r \in Threads \ {t} : HashesAhead(r, u) => HashesAhead(r, u)'
      BY DEF HashesAhead, OnlyTouches, Others, SameThread
    <3> QED BY <1>1, <3>1 DEF SameContent
  <2>6. Streamed(u, bytes[u]) => Streamed(u, bytes[u])'
    BY <1>1, <2>1 DEF SameContent, Streamed
  <2> QED BY <1>1, <2>2, <2>3, <2>4, <2>5, <2>6 DEF SameContent, StreamGood
<1> QED BY <1>2, <1>3

\* Threads other than t know what they knew, unless they write or finalize w.
LEMMA OtherThreads ==
  ASSUME IInv, ContentInv, NEW t, NEW w, OnlyTouches(t, w),
         NEW r \in Threads \ {t}, Writing(r) \/ Finalizing(r) => cur[r] # w
  PROVE  ChunkGood(r)' /\ DigestGood(r)'
<1>1. SameThread(r) /\ ChunkGood(r) /\ DigestGood(r)
  BY DEF OnlyTouches, Others, ContentInv
<1>2. CASE ~(Writing(r) \/ Finalizing(r))
  BY <1>1, <1>2
     DEF SameThread, ChunkGood, DigestGood, HashesAhead, Writing, Finalizing
<1>3. CASE Writing(r) \/ Finalizing(r)
  <2>1. cur[r] \in Live /\ cur[r] \in Uploads \ {w}
    <3>1. pc[r] \notin {"idle", "abort", "next"}
      BY <1>3 DEF Writing, Finalizing
    <3> QED BY <1>3, <3>1, SecondLook
  <2>2. SameContent(t, cur[r])
    BY <2>1 DEF OnlyTouches
  <2>3. DigestGood(r)'
    BY <1>1, <2>2 DEF SameThread, SameContent, DigestGood
  <2>4. FilledTo(cur[r], bytes[cur[r]] + call[r].size) =>
          FilledTo(cur[r], bytes[cur[r]] + call[r].size)'
    BY <1>1, <2>2 DEF SameThread, SameContent, FilledTo
  <2>5. Streamed(cur[r], bytes[cur[r]] + call[r].size) =>
          Streamed(cur[r], bytes[cur[r]] + call[r].size)'
    <3>1. /\ hashCtx'[idOf'[cur'[r]]] = hashCtx[idOf[cur[r]]] /\ tmp'[cur'[r]] = tmp[cur[r]]
          /\ bytes'[cur'[r]] = bytes[cur[r]] /\ call'[r] = call[r]
      BY <1>1, <2>1, <2>2 DEF SameThread, SameContent
    <3> QED BY <3>1 DEF Streamed
  <2>6. ChunkGood(r)'
    BY <1>1, <2>2, <2>4, <2>5 DEF SameThread, SameContent, ChunkGood, HashesAhead, Writing
  <2> QED BY <2>3, <2>6
<1> QED BY <1>2, <1>3

\* A step that touches upload w only, taken by the thread that may.
LEMMA ContentStep ==
  ASSUME IInv, ContentInv, NEW t, NEW w, OnlyTouches(t, w),
         \A r \in Threads \ {t} : Writing(r) \/ Finalizing(r) => cur[r] # w,
         w \in Uploads => PublishedGood(w)' /\ idOf'[w] # Nil,
         w \in Live' => TmpGood(w)' /\ StreamGood(w)',
         t \in Threads => ChunkGood(t)' /\ DigestGood(t)'
  PROVE  ContentInv'
<1>1. \A r \in Threads : ChunkGood(r)' /\ DigestGood(r)'
  BY OtherThreads
<1>2. \A u \in Uploads : PublishedGood(u)' /\ (u \in Live' => TmpGood(u)' /\ StreamGood(u)')
  BY OtherUploads
<1>3. Live' \subseteq Uploads
  BY DEF Live
<1>4. FreshIsEmpty'
  <2>1. \A u \in Uploads \ {w} : SameContent(t, u)
    BY DEF OnlyTouches
  <2> QED BY <2>1 DEF ContentInv, FreshIsEmpty, Fresh, SameContent
<1> QED BY <1>1, <1>2, <1>3, <1>4 DEF ContentInv

\* The variables ContentInv speaks of, apart from the threads and the maps.
Content == <<idOf, metaOf, dead, tmp, bytes, hashValid, published, completed, result, hashCtx>>

\* A step that changes no content: only its thread's own knowledge is at stake.
LEMMA ContentFrame ==
  ASSUME ConstantsAssumption, IInv, ContentInv, NEW t \in Threads, Others(t),
         UNCHANGED Content, \A u \in Uploads : IsActive(u)' => IsActive(u),
         pc[t] = "commit" => pc'[t] = "commit" /\ cur'[t] = cur[t] /\ call'[t] = call[t],
         pc'[t] = "seal" => pc[t] = "seal" /\ cur'[t] = cur[t],
         ChunkGood(t)', DigestGood(t)'
  PROVE  ContentInv'
<1>1. OnlyTouches(t, Nil)
  BY DEF OnlyTouches, SameContent, Content, HashesAhead
<1>2. Nil \notin Uploads /\ Nil \notin Live'
  BY DEF ConstantsAssumption, Live
<1>3. \A r \in Threads : Writing(r) \/ Finalizing(r) => cur[r] # Nil
  BY <1>2, SecondLook DEF Writing, Finalizing
<1> QED BY <1>1, <1>2, <1>3, ContentStep

\* A thread that neither writes nor finalizes knows nothing of a content.
LEMMA QuietThread ==
  ASSUME NEW t \in Threads,
         pc'[t] \in {"idle", "await", "finalLock", "fail", "abort", "next", "close", "retire",
                     "remember"}
  PROVE  ChunkGood(t)' /\ DigestGood(t)'
BY DEF ChunkGood, DigestGood, HashesAhead, Writing
----------------------------------------------------------------------------
(* Steps that change no content *)

\* A thread that returns, or goes on without touching a file.
LEMMA QuietStep ==
  ASSUME ConstantsAssumption, IInv, ContentInv, NEW t \in Threads, Others(t), pc[t] # "commit",
         UNCHANGED Content, \A i \in FileIds : handles'[i] \in {handles[i], Nil},
         pc'[t] \in {"idle", "await", "finalLock", "fail", "abort", "next", "close", "retire",
                     "remember"}
  PROVE  ContentInv'
<1>1. \A u \in Uploads : IsActive(u)' => IsActive(u)
  BY DEF IsActive, ConstantsAssumption
<1>2. ChunkGood(t)' /\ DigestGood(t)' /\ pc'[t] # "seal"
  BY QuietThread
<1> QED BY <1>1, <1>2, ContentFrame

\* A call returns.
LEMMA FinishContent ==
  ASSUME ConstantsAssumption, IInv, ContentInv, NEW t \in Threads, Finish(t), pc[t] # "commit",
         UNCHANGED Content, UNCHANGED handles
  PROVE  ContentInv'
<1>1. Others(t) /\ pc'[t] = "idle"
  BY FinishTypes DEF IInv, TypeOK
<1> QED BY <1>1, QuietStep

\* The lookup with which a request starts: a chunk is some bytes of a byte value.
LEMMA LookupContent ==
  ASSUME ConstantsAssumption, IInv, ContentInv, NEW t \in Threads, NEW c, NEW label, Lookup(t, c, label),
         label = "finalLock" \/ (label = "writeLock" /\ c.data \in Data)
  PROVE  ContentInv'
<1>1. UNCHANGED <<Content, handles>> /\ pc[t] = "idle"
  BY DEF Lookup, Content, maps, uploadVars, fixed, progress, flags, diskVars, miscVars
<1>2. Others(t) /\ pc'[t] \in {label, "await"} /\ call'[t] = c
  BY DEF Lookup, Goto, Others, SameThread, IInv, TypeOK, ThreadTypes
<1>3. ChunkGood(t)' /\ DigestGood(t)'
  BY <1>2 DEF ChunkGood, DigestGood, HashesAhead, Writing
<1>4. pc'[t] # "seal" /\ pc[t] # "commit"
  BY <1>1, <1>2
<1>5. \A u \in Uploads : IsActive(u)' => IsActive(u)
  BY <1>1 DEF IsActive
<1> QED BY <1>1, <1>2, <1>3, <1>4, <1>5, ContentFrame DEF Content

\* Handles are moved out and marked failed; their files stay as they are.
LEMMA AbortContent ==
  ASSUME ConstantsAssumption, IInv, ContentInv, NEW t \in Threads, NEW M, NEW j, AbortMatching(t, M, j),
         pc[t] # "commit"
  PROVE  ContentInv'
<1>1. UNCHANGED Content
  BY DEF AbortMatching, Content, fixed, progress, diskVars, miscVars
<1>2. Others(t) /\ pc'[t] = "next"
  BY DEF AbortMatching, Goto, Others, SameThread, IInv, TypeOK, ThreadTypes
<1>3. \A i \in FileIds : handles'[i] \in {handles[i], Nil}
  BY DEF AbortMatching
<1> QED BY <1>1, <1>2, <1>3, QuietStep

\* The loops of abortMatching and of the reaper, between two uploads.
LEMMA NextInLoopContent ==
  ASSUME ConstantsAssumption, IInv, ContentInv, NEW t \in Threads, NextInLoop(t)
  PROVE  ContentInv'
<1>1. UNCHANGED <<Content, handles>> /\ pc[t] = "next"
  BY DEF NextInLoop, Content, maps, fixed, progress, flags, diskVars
<1>2. CASE Finish(t)
  BY <1>1, <1>2, FinishContent DEF Content
<1>3. CASE ~Finish(t)
  <2>1. Others(t) /\ pc'[t] \in {"retire", "close", "next"}
    BY <1>1, <1>3 DEF NextInLoop, Goto, Others, SameThread, IInv, TypeOK, ThreadTypes
  <2> QED BY <1>1, <2>1, QuietStep DEF Content
<1> QED BY <1>2, <1>3

\* failFinalization, and the bookkeeping after a release.
LEMMA FailContent ==
  ASSUME ConstantsAssumption, IInv, ContentInv, NEW t \in Threads,
         FailFinalization(t) \/ RememberCompleted(t) \/ AwaitReturn(t)
  PROVE  ContentInv'
<1>1. CASE FailFinalization(t)
  <2>1. UNCHANGED <<Content, handles>> /\ pc[t] = "fail"
    BY <1>1 DEF FailFinalization, Content, maps, fixed, progress, diskVars, miscVars
  <2>2. Others(t) /\ pc'[t] = "retire"
    BY <1>1 DEF FailFinalization, Goto, Others, SameThread, IInv, TypeOK, ThreadTypes
  <2> QED BY <2>1, <2>2, QuietStep DEF Content
<1>2. CASE RememberCompleted(t)
  <2>1. UNCHANGED <<Content, handles>> /\ pc[t] = "remember"
    BY <1>2 DEF RememberCompleted, Content, fixed, progress, flags, diskVars
  <2>2. Others(t) /\ pc'[t] \in {"idle", "next"}
    BY <1>2, ReturnEffect DEF RememberCompleted, IInv, TypeOK
  <2> QED BY <2>1, <2>2, QuietStep DEF Content
<1>3. CASE AwaitReturn(t)
  <2>1. UNCHANGED <<Content, handles>> /\ pc[t] = "await" /\ Finish(t)
    BY <1>3 DEF AwaitReturn, Content, maps, fixed, progress, flags, diskVars
  <2> QED BY <2>1, FinishContent DEF Content
<1> QED BY <1>1, <1>2, <1>3
----------------------------------------------------------------------------
(* writeChunk: the bytes that are counted are the bytes that were received *)

\* A writer shares its upload with no other writer and with no finalizer.
LEMMA WriterAlone ==
  ASSUME IInv, NEW t \in Threads, Writing(t)
  PROVE  /\ cur[t] \in Live /\ cur[t] \in Uploads /\ own[t] = cur[t] /\ call[t] \in Calls
         /\ call[t].id = idOf[cur[t]] /\ call[t].id \in FileIds
         /\ call[t].offset = bytes[cur[t]] /\ bytes[cur[t]] \in Nat /\ call[t].size \in Nat
         /\ \A r \in Threads \ {t} : Writing(r) \/ Finalizing(r) => cur[r] # cur[t]
         /\ \A u \in Live \ {cur[t]} : idOf[u] # call[t].id
<1>1. /\ cur[t] \in Live /\ cur[t] \in Uploads
      /\ call[t].id = idOf[cur[t]] /\ call[t].id \in FileIds
  <2>1. pc[t] \notin {"idle", "abort", "next"}
    BY DEF Writing
  <2> QED BY <2>1, SecondLook
<1>2. call[t] \in Calls /\ bytes[cur[t]] \in Nat
  BY <1>1 DEF IInv, TypeOK, ThreadTypes, UploadTypes
<1>3. \A r \in Threads : Writing(r) =>
        writeMutex[cur[r]] = r /\ own[r] = cur[r] /\ call[r].offset = bytes[cur[r]]
  BY DEF IInv, ThreadsGood, ThreadGood, WriterGood
<1>4. \A r \in Threads \ {t} : Writing(r) => cur[r] # cur[t]
  BY <1>3
<1>5. \A r \in Threads \ {t} : Finalizing(r) => cur[r] # cur[t]
  BY DEF IInv, OneFinalizer
<1>6. \A u \in Live \ {cur[t]} : idOf[u] # call[t].id
  BY <1>1 DEF IInv, UploadsGood, IdsUnique
<1>7. call[t].size \in Nat
  BY <1>2 DEF Calls
<1> QED BY <1>1, <1>2, <1>3, <1>4, <1>5, <1>6, <1>7

\* The second look accepts a chunk only if it fits.
LEMMA WriteLockedContent ==
  ASSUME ConstantsAssumption, IInv, ContentInv, NEW t \in Threads, WriteLocked(t)
  PROVE  ContentInv'
<1>1. UNCHANGED <<Content, handles>> /\ pc[t] = "writeLock"
  BY DEF WriteLocked, Content, maps, fixed, progress, diskVars
<1>2. CASE Finish(t)
  BY <1>1, <1>2, FinishContent DEF Content
<1>3. CASE ~Finish(t)
  <2>1. Others(t) /\ pc'[t] \in {"write", "await"}
    BY <1>3 DEF WriteLocked, Goto, Others, SameThread, IInv, TypeOK, ThreadTypes
  <2>2. CASE pc'[t] = "await"
    BY <1>1, <2>1, <2>2, QuietStep DEF Content
  <2>3. CASE pc'[t] = "write"
    <3>1. call[t].data \in Data
      BY <1>1 DEF ContentInv, ChunkGood
    <3>2. /\ handles[call[t].id] # Nil /\ Accepts(handles[call[t].id], call[t])
          /\ UNCHANGED cur
          /\ call' = [call EXCEPT ![t].offset = bytes[handles[call[t].id]]]
      <4>1. pc' # [pc EXCEPT ![t] = "await"] /\ pc' # [pc EXCEPT ![t] = "idle"]
        BY <2>3 DEF IInv, TypeOK, ThreadTypes
      <4> QED BY <4>1 DEF WriteLocked, Finish, Goto
    <3>3. handles[call[t].id] = cur[t]
      <4>1. pc[t] \notin {"idle", "abort", "next"}
        BY <1>1
      <4> QED BY <3>2, <4>1, SecondLook
    <3>4. bytes[cur[t]] + call[t].size <= metaOf[cur[t]].size
      BY <3>2, <3>3 DEF Accepts
    <3>5. call'[t].data = call[t].data /\ call'[t].size = call[t].size
      BY SMTT(60), <3>2 DEF IInv, TypeOK, ThreadTypes, Calls
    <3>6. ChunkGood(t)' /\ DigestGood(t)'
      BY <1>1, <2>3, <3>1, <3>2, <3>4, <3>5
         DEF ChunkGood, DigestGood, Content, HashesAhead
    <3>7. \A u \in Uploads : IsActive(u)' => IsActive(u)
      BY <1>1 DEF IsActive
    <3> QED BY <1>1, <2>1, <2>3, <3>6, <3>7, ContentFrame DEF Content
  <2> QED BY <2>1, <2>2, <2>3
<1> QED BY <1>2, <1>3

\* What a copy leaves in the file, and what updateHash adds to its context.
Copied(new, old, c, n) ==
  /\ Len(new) = Len(old)
  /\ \A k \in 1 .. Len(old) :
       new[k] = IF k \in c.offset + 1 .. c.offset + n THEN c.data ELSE old[k]
Extended(new, old, d, n) ==
  /\ Len(new) = Len(old) + n
  /\ \A k \in 1 .. Len(old) : new[k] = old[k]
  /\ \A k \in Len(old) + 1 .. Len(old) + n : new[k] = d

\* Overwrite changes the bytes of its chunk and no others.
LEMMA OverwriteEffect ==
  ASSUME NEW s \in Contents, NEW c \in Calls, NEW n \in Nat
  PROVE  Copied(Overwrite(s, c, n), s, c, n)
<1>1. Len(s) \in Nat /\ DOMAIN s = 1 .. Len(s)
  BY SMTT(60) DEF Contents
<1>2. DOMAIN Overwrite(s, c, n) = 1 .. Len(s)
  BY <1>1 DEF Overwrite
<1>3. Overwrite(s, c, n) \in Contents
  BY OverwriteType
<1>4. Len(Overwrite(s, c, n)) = Len(s)
  BY SMTT(60), <1>1, <1>2, <1>3 DEF Contents
<1> QED BY <1>1, <1>4 DEF Overwrite, Copied

\* Appending n equal bytes.
LEMMA AppendedEffect ==
  ASSUME NEW s \in Contents, NEW d \in Data \cup {Blank}, NEW n \in Nat
  PROVE  Extended(s \o Repeat(d, n), s, d, n)
<1>1. Repeat(d, n) \in [1 .. n -> Data \cup {Blank}]
  BY DEF Repeat
<1>2. Repeat(d, n) \in Contents
  BY <1>1, FunctionIsContent
<1>3. Len(Repeat(d, n)) = n /\ \A k \in 1 .. n : Repeat(d, n)[k] = d
  BY SMTT(60), <1>1, <1>2 DEF Repeat, Contents
<1> DEFINE q == Repeat(d, n)
<1> HIDE DEF q
<1>4. /\ Len(s \o q) = Len(s) + Len(q) /\ Len(s) \in Nat
      /\ \A k \in 1 .. Len(s) + Len(q) :
           (s \o q)[k] = IF k <= Len(s) THEN s[k] ELSE q[k - Len(s)]
  BY SMTT(60), <1>2 DEF Contents, q
<1>5. q \in Contents /\ Len(q) = n /\ \A k \in 1 .. n : q[k] = d
  BY <1>2, <1>3 DEF q
<1>6. Extended(s \o q, s, d, n)
  BY SMTT(60), <1>4, <1>5 DEF Extended
<1> QED BY <1>6 DEF q

\* Places in a file: b bytes are counted, k of a chunk of n bytes are copied.
LEMMA ChunkPlaces ==
  ASSUME NEW b \in Nat, NEW n \in Nat, NEW k \in 0 .. n, NEW m \in Nat, b + n <= m
  PROVE  /\ b <= m
         /\ \A j \in 1 .. b : j \in 1 .. m /\ j \notin b + 1 .. b + k
         /\ \A j \in b + 1 .. b + k : j \in 1 .. m
         /\ \A j \in 1 .. b + n : j \in 1 .. b \/ j \in b + 1 .. b + n
BY SMTT(60)

\* What writeMappedRange and updateHash change, for the writer's upload.
LEMMA CopyEffect ==
  ASSUME ConstantsAssumption, IInv, ContentInv, NEW t \in Threads, WriteMappedRange(t)
  PROVE  /\ pc[t] = "write" /\ pc'[t] \in {"commit", "abort"} /\ Others(t)
         /\ UNCHANGED <<handles, idOf, metaOf, dead, bytes, hashValid, published, completed,
                        result, cur>>
         /\ call'[t].data = call[t].data /\ call'[t].size = call[t].size
         /\ \A u \in Uploads \ {cur[t]} : tmp'[u] = tmp[u]
         /\ \A i \in FileIds \ {call[t].id} : hashCtx'[i] = hashCtx[i]
         /\ \E k \in 0 .. call[t].size :
              /\ tmp'[cur[t]] = Overwrite(tmp[cur[t]], call[t], k)
              /\ pc'[t] = "commit" => k = call[t].size
         /\ \/ /\ hashCtx' = hashCtx /\ (pc'[t] = "commit" => call'[t].hashed = FALSE)
            \/ /\ hashCtx[call[t].id] # NoFile /\ pc'[t] = "commit" /\ call'[t].hashed
               /\ hashCtx'[call[t].id] = hashCtx[call[t].id] \o Repeat(call[t].data, call[t].size)
<1> DEFINE c == call[t]
           u == cur[t]
<1>1. /\ pc[t] = "write"
      /\ UNCHANGED <<handles, idOf, metaOf, dead, bytes, hashValid, published, completed, result,
                     cur, own, todo, verdict>>
  BY DEF WriteMappedRange, maps, fixed, progress, flags
<1>2. /\ u \in Uploads /\ own[t] = u /\ c \in Calls /\ c.id \in FileIds /\ c.size \in Nat
      /\ tmp[u] # NoFile
  BY <1>1, WriterAlone DEF Writing, IInv, ThreadsGood, ThreadGood, WriterGood
<1>3. /\ pc \in [Threads -> Labels] /\ call \in [Threads -> Calls]
      /\ tmp \in [Uploads -> Contents \cup {NoFile}]
      /\ hashCtx \in [FileIds -> Contents \cup {NoFile}]
  BY DEF IInv, TypeOK, ThreadTypes, DiskTypes, MapTypes
<1>4. CASE /\ tmp' = [tmp EXCEPT ![own[t]] = IF @ = NoFile THEN @ ELSE Overwrite(@, c, c.size)]
           /\ \E ok \in BOOLEAN :
                /\ ok => hashCtx[c.id] # NoFile
                /\ hashCtx' = IF ok THEN [hashCtx EXCEPT ![c.id] = @ \o Repeat(c.data, c.size)]
                                    ELSE hashCtx
                /\ call' = [call EXCEPT ![t].hashed = ok]
           /\ Goto(t, "commit")
  <2>1. PICK ok \in BOOLEAN :
          /\ ok => hashCtx[c.id] # NoFile
          /\ hashCtx' = IF ok THEN [hashCtx EXCEPT ![c.id] = @ \o Repeat(c.data, c.size)]
                              ELSE hashCtx
          /\ call' = [call EXCEPT ![t].hashed = ok]
    BY <1>4
  <2>2. /\ call'[t].data = c.data /\ call'[t].size = c.size /\ call'[t].hashed = ok
        /\ \A r \in Threads \ {t} : call'[r] = call[r]
    BY <1>2, <1>3, <2>1 DEF Calls
  <2>3. pc'[t] = "commit" /\ \A r \in Threads \ {t} : pc'[r] = pc[r]
    BY <1>3, <1>4 DEF Goto
  <2>4. Others(t)
    BY <1>1, <2>2, <2>3 DEF Others, SameThread
  <2>5. /\ tmp'[u] = Overwrite(tmp[u], c, c.size) /\ c.size \in 0 .. c.size
        /\ \A v \in Uploads \ {u} : tmp'[v] = tmp[v]
    BY SMTT(60), <1>2, <1>3, <1>4
  <2>6. CASE ok
    <3>1. /\ hashCtx'[c.id] = hashCtx[c.id] \o Repeat(c.data, c.size)
          /\ \A i \in FileIds \ {c.id} : hashCtx'[i] = hashCtx[i]
      BY <1>2, <1>3, <2>1, <2>6
    <3> QED BY <1>1, <2>1, <2>2, <2>3, <2>4, <2>5, <2>6, <3>1
  <2>7. CASE ~ok
    BY <1>1, <2>1, <2>2, <2>3, <2>4, <2>5, <2>7
  <2> QED BY <2>6, <2>7
<1>5. CASE /\ \E k \in 0 .. c.size :
                tmp' = [tmp EXCEPT ![own[t]] = IF @ = NoFile THEN @ ELSE Overwrite(@, c, k)]
           /\ Goto(t, "abort") /\ UNCHANGED <<hashCtx, call>>
  <2>1. pc'[t] = "abort" /\ \A r \in Threads \ {t} : pc'[r] = pc[r]
    BY <1>3, <1>5 DEF Goto
  <2>2. Others(t)
    BY <1>1, <1>5, <2>1 DEF Others, SameThread
  <2>3. /\ \E k \in 0 .. c.size : tmp'[u] = Overwrite(tmp[u], c, k)
        /\ \A v \in Uploads \ {u} : tmp'[v] = tmp[v]
    BY <1>2, <1>3, <1>5
  <2>4. pc'[t] # "commit"
    BY <2>1
  <2> QED BY <1>1, <1>5, <2>1, <2>2, <2>3, <2>4
<1> QED BY <1>4, <1>5 DEF WriteMappedRange
\* A copy, complete or not, leaves the counted bytes alone, and fills the place
\* of its chunk before the chunk may be counted.
LEMMA WriteMappedRangeContent ==
  ASSUME ConstantsAssumption, IInv, ContentInv, NEW t \in Threads, WriteMappedRange(t)
  PROVE  ContentInv'
<1> DEFINE u == cur[t]
           c == call[t]
           old == tmp[u]
           new == tmp'[u]
           h == hashCtx[c.id]
<1>1. /\ pc[t] = "write" /\ pc'[t] \in {"commit", "abort"} /\ Others(t)
      /\ UNCHANGED <<handles, idOf, metaOf, dead, bytes, hashValid, published, completed,
                     result, cur>>
      /\ call'[t].data = c.data /\ call'[t].size = c.size
      /\ \A v \in Uploads \ {u} : tmp'[v] = tmp[v]
      /\ \A i \in FileIds \ {c.id} : hashCtx'[i] = hashCtx[i]
  BY CopyEffect
<1>2. PICK k \in 0 .. c.size :
        new = Overwrite(old, c, k) /\ (pc'[t] = "commit" => k = c.size)
  BY CopyEffect
<1>3. \/ /\ hashCtx' = hashCtx /\ (pc'[t] = "commit" => call'[t].hashed = FALSE)
      \/ /\ h # NoFile /\ pc'[t] = "commit" /\ call'[t].hashed
         /\ hashCtx'[c.id] = h \o Repeat(c.data, c.size)
  BY CopyEffect
<1>4. /\ u \in Live /\ u \in Uploads /\ c \in Calls /\ c.id = idOf[u] /\ c.id \in FileIds
      /\ c.offset = bytes[u] /\ bytes[u] \in Nat /\ c.size \in Nat
      /\ \A r \in Threads \ {t} : Writing(r) \/ Finalizing(r) => cur[r] # u
      /\ \A v \in Live \ {u} : idOf[v] # c.id
  BY <1>1, WriterAlone DEF Writing
<1>5. old \in Contents /\ old # NoFile /\ h \in Contents \cup {NoFile}
  <2>1. old # NoFile
    BY <1>1 DEF IInv, ThreadsGood, ThreadGood, WriterGood, Writing
  <2> QED BY <1>4, <2>1 DEF IInv, TypeOK, DiskTypes, MapTypes
<1>6. c.data \in Data /\ c.data # Blank /\ bytes[u] + c.size <= metaOf[u].size
  BY <1>1 DEF ContentInv, ChunkGood, Writing, ConstantsAssumption
<1>7. /\ Len(old) = metaOf[u].size /\ Len(old) \in Nat /\ FilledTo(u, bytes[u])
      /\ bytes[u] + c.size <= Len(old)
  <2>1. TmpGood(u)
    BY <1>4 DEF ContentInv
  <2>2. Len(old) \in Nat
    BY SMTT(60), <1>5 DEF Contents
  <2> QED BY <1>5, <1>6, <2>1, <2>2 DEF TmpGood
<1>8. k \in Nat /\ k <= c.size
  BY SMTT(60), <1>2, <1>4
<1> HIDE DEF u, c, old, new, h
<1>9. Copied(new, old, c, k)
  <2>1. c \in Calls
    BY <1>4
  <2>2. Copied(Overwrite(old, c, k), old, c, k)
    BY <1>5, <1>8, <2>1, OverwriteEffect
  <2> QED BY <1>2, <2>2
<1>10. /\ bytes[u] <= Len(old)
       /\ \A j \in 1 .. bytes[u] : j \in 1 .. Len(old) /\ j \notin bytes[u] + 1 .. bytes[u] + k
       /\ \A j \in bytes[u] + 1 .. bytes[u] + k : j \in 1 .. Len(old)
       /\ \A j \in 1 .. bytes[u] + c.size :
            j \in 1 .. bytes[u] \/ j \in bytes[u] + 1 .. bytes[u] + c.size
  <2>1. bytes[u] \in Nat /\ c.size \in Nat
    BY <1>4
  <2> QED BY ONLY SMTT(60), <1>2, <1>7, <2>1, ChunkPlaces
<1>11. /\ Len(new) = Len(old)
       /\ \A j \in 1 .. bytes[u] : new[j] = old[j] /\ new[j] # Blank
       /\ \A j \in bytes[u] + 1 .. bytes[u] + k : new[j] = c.data
  BY <1>4, <1>7, <1>9, <1>10 DEF Copied, FilledTo, old
<1>12. OnlyTouches(t, u)
  <2>1. \A v \in Uploads \ {u} : v \in Live => hashCtx'[idOf[v]] = hashCtx[idOf[v]]
    <3>1. \A v \in Live : idOf[v] \in FileIds
      BY DEF Live, IInv, TypeOK, UploadTypes, Maybe
    <3> QED BY <1>1, <1>4, <3>1
  <2> QED BY <1>1, <2>1 DEF OnlyTouches, SameContent, HashesAhead, IsActive, u
<1>13. TmpGood(u)'
  BY <1>1, <1>7, <1>10, <1>11 DEF TmpGood, FilledTo, u, new
<1>14. ASSUME u \in hashValid, IsActive(u) \/ Sealing(u) PROVE Streamed(u, bytes[u])
  <2>1. \A r \in Threads : ~HashesAhead(r, u)
    BY <1>1, <1>4 DEF HashesAhead, Writing, u
  <2> QED BY <1>4, <1>14, <2>1 DEF ContentInv, StreamGood
<1>15. StreamGood(u)'
  <2> SUFFICES ASSUME u' \in hashValid', (IsActive(u) \/ Sealing(u))',
                      \A r \in Threads : ~HashesAhead(r, u)'
               PROVE  Streamed(u, bytes[u])'
    BY DEF StreamGood
  <2>1. u' = u
    BY <1>1 DEF u
  <2>2. Sealing(u)' => Sealing(u)
    BY <1>1 DEF Sealing, Others, SameThread, u
  <2>3. Streamed(u, bytes[u])
    BY <1>1, <1>14, <2>1, <2>2 DEF IsActive
  <2>4. hashCtx' = hashCtx
    <3>1. ~(pc'[t] = "commit" /\ call'[t].hashed)
      BY <1>1 DEF HashesAhead, u
    <3> QED BY <1>3, <3>1
  <2> QED BY <1>1, <1>11, <2>1, <2>3, <2>4 DEF Streamed, new, old, u
<1>16. ASSUME pc'[t] = "commit", call'[t].hashed, u \in hashValid, IsActive(u)
       PROVE  Streamed(u, bytes[u] + c.size)'
  <2>1. h # NoFile /\ Len(h) = bytes[u] /\ \A j \in 1 .. bytes[u] : h[j] = old[j]
    BY <1>4, <1>14, <1>16 DEF Streamed, h, old
  <2>2. hashCtx'[c.id] = h \o Repeat(c.data, c.size)
    BY <1>3, <1>16
  <2>3. /\ Len(hashCtx'[c.id]) = bytes[u] + c.size
        /\ \A j \in 1 .. bytes[u] : hashCtx'[c.id][j] = h[j]
        /\ \A j \in bytes[u] + 1 .. bytes[u] + c.size : hashCtx'[c.id][j] = c.data
    <3>1. h \in Contents /\ c.data \in Data \cup {Blank}
      BY <1>5, <1>6, <2>1
    <3>2. Extended(h \o Repeat(c.data, c.size), h, c.data, c.size)
      BY <1>4, <3>1, AppendedEffect
    <3> QED BY <2>1, <2>2, <3>2 DEF Extended
  <2>4. hashCtx'[c.id] # NoFile
    <3>1. hashCtx'[c.id] \in Contents
      <4>1. h \in Contents
        BY <1>5, <2>1
      <4> QED BY <1>4, <2>2, <4>1, RepeatType
    <3> QED BY <3>1 DEF ConstantsAssumption
  <2>5. \A j \in 1 .. bytes[u] + c.size : hashCtx'[c.id][j] = new[j]
    <3> SUFFICES ASSUME NEW j \in 1 .. bytes[u] + c.size PROVE hashCtx'[c.id][j] = new[j]
      OBVIOUS
    <3>1. CASE j \in 1 .. bytes[u]
      BY <1>11, <2>1, <2>3, <3>1
    <3>2. CASE j \in bytes[u] + 1 .. bytes[u] + c.size
      BY <1>2, <1>11, <1>16, <2>3, <3>2
    <3> QED BY <1>10, <3>1, <3>2
  <2>6. idOf'[u'] = c.id /\ tmp'[u'] = new /\ bytes'[u'] = bytes[u] /\ c.size' = c.size
    BY <1>1, <1>4 DEF u, c, new
  <2> QED BY <2>3, <2>4, <2>5, <2>6 DEF Streamed
<1>17. ChunkGood(t)'
  <2>1. u' = u /\ c'.size = c.size /\ c'.data = c.data /\ tmp'[u'] = new /\ UNCHANGED <<bytes, metaOf>>
    BY <1>1 DEF u, c, new
  <2>2. pc'[t] = "commit" => \A j \in 1 .. bytes[u] + c.size : new[j] # Blank
    BY <1>2, <1>6, <1>10, <1>11
  <2>3. IsActive(u)' => IsActive(u)
    BY <1>1, <2>1 DEF IsActive
  <2> QED BY <1>1, <1>6, <1>16, <2>1, <2>2, <2>3
          DEF ChunkGood, FilledTo, HashesAhead, u, c
<1>18. DigestGood(t)'
  BY <1>1 DEF DigestGood
<1>19. PublishedGood(u)'
  <2>1. PublishedGood(u)
    BY <1>4 DEF ContentInv
  <2> QED BY <1>1, <2>1 DEF PublishedGood, u
<1>20. idOf'[u] # Nil
  BY <1>1, <1>4 DEF Live
<1> QED BY <1>4, <1>12, <1>13, <1>15, <1>17, <1>18, <1>19, <1>20, <1>1, ContentStep DEF u

\* Committing a chunk counts the bytes that were copied; a digest that missed
\* them is given up.
LEMMA CommitChunkContent ==
  ASSUME ConstantsAssumption, IInv, ContentInv, NEW t \in Threads, CommitChunk(t)
  PROVE  ContentInv'
<1>0. PICK u, n : u = cur[t] /\ n = bytes[u] + call[t].size
  OBVIOUS
<1>1. /\ pc[t] = "commit" /\ Writing(t) /\ Finish(t)
      /\ UNCHANGED <<handles, idOf, metaOf, dead, tmp, published, completed, result, hashCtx>>
  BY DEF CommitChunk, Writing, maps, fixed, flags, diskVars
<1>2. Others(t) /\ pc'[t] = "idle"
  BY <1>1, FinishTypes DEF IInv, TypeOK
<1>3. /\ u \in Live /\ u \in Uploads /\ call[t].id = idOf[u] /\ bytes[u] \in Nat
      /\ call[t].size \in Nat
      /\ \A r \in Threads \ {t} : Writing(r) \/ Finalizing(r) => cur[r] # u
  BY <1>0, <1>1, WriterAlone
<1>4. /\ n <= metaOf[u].size
      /\ tmp[u] # NoFile => Len(tmp[u]) = metaOf[u].size /\ FilledTo(u, n)
      /\ call[t].hashed /\ u \in hashValid /\ IsActive(u) => Streamed(u, n)
  BY <1>0, <1>1, <1>3 DEF ContentInv, TmpGood, ChunkGood, HashesAhead
<1>5. ~Sealing(u)'
  BY <1>2, <1>3 DEF Sealing, Others, SameThread, Finalizing
<1>6. IsActive(u) => handles[call[t].id] = u
  <2>1. MapsAgree /\ u # Nil
    BY <1>3 DEF IInv, UploadsGood, ConstantsAssumption
  <2> SUFFICES ASSUME IsActive(u) PROVE handles[call[t].id] = u
    OBVIOUS
  <2>2. PICK i \in FileIds : handles[i] = u
    BY DEF IsActive
  <2>3. handles[i] = sessions[i] /\ sessions[i] = u
    BY <2>1, <2>2 DEF MapsAgree
  <2>4. idOf[u] = i
    BY <2>1, <2>2, <2>3 DEF MapsAgree
  <2> QED BY ONLY SMTT(60), <1>3, <2>2, <2>4
<1>7. \/ UNCHANGED <<bytes, hashValid>> /\ ~IsActive(u)
      \/ /\ bytes' = [bytes EXCEPT ![u] = n]
         /\ hashValid' = IF call[t].hashed THEN hashValid ELSE hashValid \ {u}
  <2>1. handles[call[t].id] \in {u, Nil} /\ Nil \notin Uploads
    <3>1. pc[t] \notin {"idle", "abort", "next"}
      BY <1>1
    <3> QED BY <1>0, <3>1, SecondLook DEF ConstantsAssumption
  <2>2. CASE handles[call[t].id] = Nil
    BY <1>3, <1>6, <2>1, <2>2 DEF CommitChunk, progress
  <2>3. CASE handles[call[t].id] = u
    BY <1>0, <1>3, <2>1, <2>3 DEF CommitChunk
  <2> QED BY <2>1, <2>2, <2>3
<1>8. /\ \A v \in Uploads \ {u} : bytes'[v] = bytes[v] /\ (v \in hashValid' => v \in hashValid)
      /\ bytes'[u] = n \/ (bytes'[u] = bytes[u] /\ ~IsActive(u))
      /\ u \in hashValid' /\ IsActive(u) => u \in hashValid /\ call[t].hashed
  BY <1>3, <1>7 DEF IInv, TypeOK, UploadTypes
<1>9. OnlyTouches(t, u)
  BY <1>0, <1>1, <1>2, <1>8 DEF OnlyTouches, SameContent, HashesAhead, IsActive
<1>10. TmpGood(u) /\ PublishedGood(u)
  BY <1>3 DEF ContentInv
<1>11. PublishedGood(u)'
  BY <1>1, <1>10 DEF PublishedGood
<1>12. TmpGood(u)'
  BY <1>1, <1>4, <1>8, <1>10 DEF TmpGood, FilledTo
<1>13. StreamGood(u)'
  <2>1. IsActive(u)' => IsActive(u)
    BY <1>1 DEF IsActive
  <2> QED BY <1>1, <1>4, <1>5, <1>8, <2>1 DEF StreamGood, Streamed
<1>14. ChunkGood(t)' /\ DigestGood(t)'
  BY <1>2, QuietThread
<1>15. idOf'[u] # Nil
  BY <1>1, <1>3 DEF Live
<1> QED BY <1>3, <1>9, <1>11, <1>12, <1>13, <1>14, <1>15, ContentStep

----------------------------------------------------------------------------
(* finalizeFileResult: the file that is published is the file received *)

\* The second look of a finalization takes an upload over as complete as it is.
LEMMA FinalizeLockedContent ==
  ASSUME ConstantsAssumption, IInv, ContentInv, NEW t \in Threads, FinalizeLocked(t)
  PROVE  ContentInv'
<1>1. UNCHANGED Content /\ pc[t] = "finalLock" /\ writeMutex[cur[t]] = Nil
  BY DEF FinalizeLocked, Content, fixed, progress, diskVars
<1>2. CASE Finish(t)
  <2>1. Others(t) /\ pc'[t] = "idle"
    BY <1>2, FinishTypes DEF IInv, TypeOK
  <2>2. UNCHANGED handles
    <3>1. pc'[t] # "seal"
      BY <2>1
    <3> QED BY <3>1 DEF FinalizeLocked, Goto, IInv, TypeOK, ThreadTypes
  <2> QED BY <1>1, <1>2, <2>2, FinishContent
<1>3. CASE ~Finish(t) /\ pc'[t] # "seal"
  <2>1. Others(t) /\ pc'[t] \in {"abort", "await"} /\ UNCHANGED handles
    BY <1>3 DEF FinalizeLocked, Goto, Others, SameThread, IInv, TypeOK, ThreadTypes
  <2> QED BY <1>1, <2>1, QuietStep
<1>4. CASE ~Finish(t) /\ pc'[t] = "seal"
  <2>1. PICK u : u = cur[t]
    OBVIOUS
  <2>2. /\ handles[call[t].id] # Nil /\ IsComplete(handles[call[t].id])
        /\ handles' = [handles EXCEPT ![call[t].id] = Nil] /\ UNCHANGED cur /\ Others(t)
    BY <1>4 DEF FinalizeLocked, Goto, Others, SameThread, IInv, TypeOK, ThreadTypes
  <2>3. /\ handles[call[t].id] = u /\ u \in Live /\ u \in Uploads
        /\ call[t].id \in FileIds
    <3>1. pc[t] \notin {"idle", "abort", "next"}
      BY <1>1
    <3> QED BY <2>1, <2>2, <3>1, SecondLook
  <2>4. IsActive(u) /\ tmp[u] # NoFile /\ u \notin finalizing
    BY <2>3 DEF IsActive, IInv, UploadsGood, ActiveIsIntact
  <2>5. \A r \in Threads \ {t} : Writing(r) \/ Finalizing(r) => cur[r] # u
    <3>1. \A r \in Threads : Writing(r) => writeMutex[cur[r]] = r /\ r # Nil
      BY DEF IInv, ThreadsGood, ThreadGood, WriterGood, Threads, ConstantsAssumption
    <3>2. \A r \in Threads : Finalizing(r) => cur[r] \in finalizing
      BY DEF IInv, ThreadsGood, ThreadGood, FinalizerGood
    <3> QED BY <1>1, <2>1, <2>4, <3>1, <3>2
  <2>6. \A i \in FileIds : handles'[i] \in {handles[i], Nil}
    BY <2>2, <2>3 DEF IInv, TypeOK, MapTypes
  <2>7. \A v \in Uploads : IsActive(v)' => IsActive(v)
    BY <2>6 DEF IsActive, ConstantsAssumption
  <2>8. OnlyTouches(t, u)
    BY <1>1, <2>1, <2>2, <2>7 DEF OnlyTouches, SameContent, Content, HashesAhead
  <2>9. \A r \in Threads : ~HashesAhead(r, u)
    BY <1>1, <2>5 DEF HashesAhead, Writing
  <2>10. TmpGood(u) /\ StreamGood(u) /\ PublishedGood(u)
    BY <2>3 DEF ContentInv
  <2>11. TmpGood(u)' /\ PublishedGood(u)'
    BY <1>1, <2>10 DEF TmpGood, FilledTo, PublishedGood, Content
  <2>12. StreamGood(u)'
    BY <1>1, <2>4, <2>9, <2>10 DEF StreamGood, Streamed, Content
  <2>13. DigestGood(t)'
    BY <1>1, <1>4, <2>1, <2>2, <2>3, <2>4 DEF DigestGood, IsComplete, Content
  <2>14. ChunkGood(t)'
    BY <1>4 DEF ChunkGood, HashesAhead, Writing
  <2>15. idOf'[u] # Nil
    BY <1>1, <2>3 DEF Live, Content
  <2> QED BY <2>5, <2>8, <2>11, <2>12, <2>13, <2>14, <2>15, ContentStep
<1> QED BY <1>2, <1>3, <1>4

\* What a finalizer may take for granted of its upload's content: nobody else
\* touches it, and no streaming hash matters once it is sealed.
FinalizerKnows(t, u) ==
  /\ u \in Live /\ u \in Uploads /\ own[t] = u /\ call[t].id = idOf[u]
  /\ idOf[u] \in FileIds /\ u \notin completed
  /\ TmpGood(u) /\ StreamGood(u) /\ PublishedGood(u) /\ DigestGood(t)
  /\ \A r \in Threads \ {t} : Writing(r) \/ Finalizing(r) => cur[r] # u
  /\ \A v \in Live \ {u} : idOf[v] # idOf[u]
FinalizerKeeps(t, u) ==
  /\ idOf'[u] # Nil
  /\ \A v \in Uploads : IsActive(v)' => IsActive(v)
  /\ pc'[t] # "seal" => StreamGood(u)'
LEMMA FinalizerContent ==
  ASSUME ConstantsAssumption, IInv, ContentInv, NEW t \in Threads, Finalizing(t),
         NEW u, u = cur[t], UNCHANGED <<idOf, handles>>, Others(t), UNCHANGED cur
  PROVE  FinalizerKnows(t, u) /\ FinalizerKeeps(t, u)
<1>1. /\ u \in Live /\ u \in Uploads /\ own[t] = u /\ call[t].id = idOf[u]
      /\ idOf[u] \in FileIds /\ u \notin completed /\ ~IsActive(u)
      /\ \A r \in Threads \ {t} : Writing(r) \/ Finalizing(r) => cur[r] # u
  BY FinalizerFacts
<1>2. TmpGood(u) /\ StreamGood(u) /\ PublishedGood(u) /\ DigestGood(t)
  BY <1>1 DEF ContentInv
<1>3. \A v \in Uploads : IsActive(v)' => IsActive(v)
  BY DEF IsActive
<1>4. pc'[t] # "seal" => ~Sealing(u)'
  BY <1>1 DEF Sealing, Others, SameThread, Finalizing
<1>5. pc'[t] # "seal" => StreamGood(u)'
  BY <1>1, <1>3, <1>4 DEF StreamGood
<1>6. \A v \in Live \ {u} : idOf[v] # idOf[u]
  BY <1>1 DEF IInv, UploadsGood, IdsUnique
<1>7. idOf'[u] # Nil
  BY <1>1 DEF Live
<1> QED BY <1>1, <1>2, <1>3, <1>5, <1>6, <1>7 DEF FinalizerKnows, FinalizerKeeps

\* A finalizer's step touches its own upload: what is left to show.
Elsewhere(u) ==
  \A v \in Uploads \ {u} :
    /\ tmp'[v] = tmp[v] /\ published'[v] = published[v] /\ result'[v] = result[v]
    /\ v \in completed' => v \in completed
    /\ v \in Live => hashCtx'[idOf[v]] = hashCtx[idOf[v]]
LEMMA FinalizerStep ==
  ASSUME IInv, ContentInv, NEW t \in Threads, NEW u, FinalizerKnows(t, u), FinalizerKeeps(t, u),
         Others(t), UNCHANGED <<idOf, metaOf, dead, bytes, hashValid>>, Elsewhere(u),
         Finalizing(t), pc'[t] \notin {"seal", "write", "commit", "writeLock"},
         TmpGood(u)', PublishedGood(u)', DigestGood(t)'
  PROVE  ContentInv'
<1>1. pc'[t] # "seal" /\ pc[t] # "commit"
  BY DEF Finalizing
<1>2. /\ u \in Uploads /\ idOf'[u] # Nil /\ StreamGood(u)'
      /\ \A r \in Threads \ {t} : Writing(r) \/ Finalizing(r) => cur[r] # u
      /\ \A v \in Uploads : IsActive(v)' => IsActive(v)
  BY <1>1 DEF FinalizerKnows, FinalizerKeeps
<1>3. ASSUME NEW v \in Uploads \ {u} PROVE SameContent(t, v)
  BY <1>1, <1>2 DEF SameContent, Elsewhere, HashesAhead
<1>4. OnlyTouches(t, u)
  BY <1>1, <1>3 DEF OnlyTouches
<1>5. ChunkGood(t)'
  BY DEF ChunkGood, HashesAhead, Writing
<1> QED BY <1>2, <1>4, <1>5, ContentStep

\* The digest is the one of the temporary file, streamed or computed.
LEMMA SealContent ==
  ASSUME ConstantsAssumption, IInv, ContentInv, NEW t \in Threads, Seal(t)
  PROVE  ContentInv'
<1>1. PICK u : u = cur[t]
  OBVIOUS
<1>2. /\ pc[t] = "seal" /\ Finalizing(t) /\ hashCtx' = [hashCtx EXCEPT ![call[t].id] = NoFile]
      /\ UNCHANGED <<handles, idOf, metaOf, dead, tmp, bytes, hashValid, published, completed,
                     result, cur>>
      /\ pc'[t] \in {"decide", "fail"} /\ Others(t)
  <2>1. /\ pc[t] = "seal" /\ Finalizing(t)
        /\ hashCtx' = [hashCtx EXCEPT ![call[t].id] = NoFile]
        /\ UNCHANGED <<handles, idOf, metaOf, dead, tmp, bytes, hashValid, published, completed,
                       result, call, cur, own, todo>>
    BY DEF Seal, Finalizing, maps, fixed, progress, flags, diskVars
  <2>2. pc \in [Threads -> Labels] /\ verdict \in [Threads -> Verdicts]
    BY DEF IInv, TypeOK, ThreadTypes
  <2>3. Goto(t, "decide") \/ Goto(t, "fail")
    BY DEF Seal
  <2>4. \A r \in Threads \ {t} : verdict'[r] = verdict[r]
    BY <2>2 DEF Seal
  <2> QED BY <2>1, <2>2, <2>3, <2>4 DEF Goto, Others, SameThread
<1>3. FinalizerKnows(t, u) /\ FinalizerKeeps(t, u)
  BY <1>1, <1>2, FinalizerContent
<1>4. tmp[u] # NoFile /\ bytes[u] = metaOf[u].size /\ Len(tmp[u]) = bytes[u]
  BY <1>1, <1>2, <1>3 DEF DigestGood, TmpGood, FinalizerKnows
<1>5. u \in hashValid => hashCtx[idOf[u]] = tmp[u]
  <2> SUFFICES ASSUME u \in hashValid PROVE hashCtx[idOf[u]] = tmp[u]
    OBVIOUS
  <2>1. Sealing(u) /\ \A r \in Threads : ~HashesAhead(r, u)
    BY <1>1, <1>2, <1>3 DEF Sealing, HashesAhead, Writing, FinalizerKnows
  <2>2. Streamed(u, bytes[u])
    BY <1>3, <2>1 DEF StreamGood, FinalizerKnows
  <2>3. tmp[u] \in Contents /\ hashCtx[idOf[u]] \in Contents
    <3>1. hashCtx[idOf[u]] # NoFile
      BY <2>2 DEF Streamed
    <3> QED BY <1>3, <1>4, <3>1 DEF IInv, TypeOK, DiskTypes, MapTypes, FinalizerKnows
  <2>4. Len(hashCtx[idOf[u]]) = Len(tmp[u])
    BY <1>4, <2>2 DEF Streamed
  <2>5. \A k \in 1 .. Len(hashCtx[idOf[u]]) : hashCtx[idOf[u]][k] = tmp[u][k]
    BY <1>4, <2>2 DEF Streamed
  <2> QED BY ONLY SMTT(60), <2>3, <2>4, <2>5, ContentsEqual
<1>6. pc'[t] = "decide" => verdict'[t].sha256 = tmp[u]
  <2> SUFFICES ASSUME pc'[t] = "decide" PROVE verdict'[t].sha256 = tmp[u]
    OBVIOUS
  <2>1. PICK digest \in {tmp[u]} \cup (IF u \in hashValid THEN {hashCtx[idOf[u]]} ELSE {}) :
          verdict' = [verdict EXCEPT ![t].sha256 = digest]
    <3>1. pc' # [pc EXCEPT ![t] = "fail"]
      BY DEF IInv, TypeOK, ThreadTypes
    <3> QED BY <1>3, <3>1 DEF Seal, Goto, FinalizerKnows
  <2>2. digest = tmp[u]
    BY <1>5, <2>1
  <2> QED BY <2>1, <2>2 DEF IInv, TypeOK, ThreadTypes, Verdicts
<1>7. Elsewhere(u)
  <2>1. \A v \in Uploads \ {u} : v \in Live => hashCtx'[idOf[v]] = hashCtx[idOf[v]]
    <3>1. \A v \in Live : idOf[v] \in FileIds
      BY DEF Live, IInv, TypeOK, UploadTypes, Maybe
    <3> QED BY <1>2, <1>3, <3>1 DEF IInv, TypeOK, MapTypes, FinalizerKnows
  <2> QED BY <1>2, <2>1 DEF Elsewhere
<1>8. TmpGood(u)' /\ PublishedGood(u)'
  BY <1>2, <1>3 DEF TmpGood, FilledTo, PublishedGood, FinalizerKnows
<1>9. DigestGood(t)' /\ pc'[t] \notin {"seal", "write", "commit", "writeLock"}
  BY <1>1, <1>2, <1>4, <1>6 DEF DigestGood
<1> QED BY <1>2, <1>3, <1>7, <1>8, <1>9, FinalizerStep

\* Deciding what the upload becomes leaves the digest alone.
LEMMA DecideContent ==
  ASSUME ConstantsAssumption, IInv, ContentInv, NEW t \in Threads, Decide(t)
  PROVE  ContentInv'
<1>1. UNCHANGED <<Content, handles, cur>> /\ pc[t] = "decide"
  BY DEF Decide, Content, maps, uploadVars, fixed, progress, flags
<1>2. UNCHANGED verdict \/ \E d, f : Plan(t, d, f)
  BY DEF Decide
<1>3. verdict'[t].sha256 = verdict[t].sha256
  <2>1. \A d, f : Plan(t, d, f) => verdict'[t].sha256 = verdict[t].sha256
    BY SMTT(60) DEF Plan, IInv, TypeOK, ThreadTypes, Verdicts
  <2> QED BY <1>2, <2>1
<1>4. Others(t) /\ pc'[t] \in {"publish", "fail"}
  <2>1. pc \in [Threads -> Labels] /\ verdict \in [Threads -> Verdicts]
    BY DEF IInv, TypeOK, ThreadTypes
  <2>2. Goto(t, "publish") \/ Goto(t, "fail")
    BY DEF Decide
  <2>3. \A r \in Threads \ {t} : verdict'[r] = verdict[r]
    BY <1>2, <2>1 DEF Plan
  <2>4. UNCHANGED <<call, cur, own, todo>>
    BY DEF Decide
  <2> QED BY <2>1, <2>2, <2>3, <2>4 DEF Goto, Others, SameThread
<1>5. \A v \in Uploads : IsActive(v)' => IsActive(v)
  BY <1>1 DEF IsActive
<1>6. DigestGood(t)
  BY DEF ContentInv
<1>7. ChunkGood(t)' /\ DigestGood(t)'
  BY <1>1, <1>3, <1>4, <1>6 DEF ChunkGood, DigestGood, HashesAhead, Writing, Content
<1>8. pc[t] # "commit" /\ pc'[t] # "seal"
  BY <1>1, <1>4
<1> QED BY <1>1, <1>4, <1>5, <1>7, <1>8, ContentFrame

\* The file that appears in the directory is the temporary file.
LEMMA PublishContent ==
  ASSUME ConstantsAssumption, IInv, ContentInv, NEW t \in Threads, Publish(t)
  PROVE  ContentInv'
<1>1. PICK u : u = cur[t]
  OBVIOUS
<1>2. /\ pc[t] = "publish" /\ Finalizing(t)
      /\ UNCHANGED <<handles, idOf, metaOf, dead, bytes, hashValid, completed, result, hashCtx,
                     cur, verdict>>
      /\ pc'[t] \in {"complete", "fail"} /\ Others(t)
  BY DEF Publish, Finalizing, Goto, Others, SameThread, IInv, TypeOK, ThreadTypes, maps,
               uploadVars, fixed, progress, flags
<1>3. FinalizerKnows(t, u) /\ FinalizerKeeps(t, u)
  BY <1>1, <1>2, FinalizerContent
<1>4. CASE pc'[t] = "fail"
  <2>1. UNCHANGED Content
    <3>1. pc' # [pc EXCEPT ![t] = "complete"]
      BY <1>4 DEF IInv, TypeOK, ThreadTypes
    <3> QED BY <1>2, <3>1 DEF Publish, Goto, Content
  <2>2. pc[t] # "commit"
    BY <1>2
  <2> QED BY <1>2, <1>4, <2>1, <2>2, QuietStep
<1>5. CASE pc'[t] = "complete"
  <2>1. /\ tmp[u] # NoFile /\ bytes[u] = metaOf[u].size /\ Len(tmp[u]) = metaOf[u].size
        /\ FilledTo(u, bytes[u]) /\ verdict[t].sha256 = tmp[u] /\ published[u] = {}
    <3>1. pc[t] # "complete"
      BY <1>2
    <3> QED BY <1>1, <1>2, <1>3, <3>1, FinalizerFacts DEF DigestGood, TmpGood, FinalizerKnows
  <2>2. /\ tmp' = [tmp EXCEPT ![u] = NoFile]
        /\ \/ /\ verdict[t].disposition = "Saved"
              /\ published' = [published EXCEPT ![u] = @ \cup {<<verdict[t].filename, tmp[u]>>}]
           \/ verdict[t].disposition # "Saved" /\ UNCHANGED published
    <3>1. pc' # [pc EXCEPT ![t] = "fail"]
      BY <1>5 DEF IInv, TypeOK, ThreadTypes
    <3> QED BY <1>3, <3>1 DEF Publish, Goto, FinalizerKnows
  <2>3. /\ tmp'[u] = NoFile
        /\ published'[u] = IF verdict[t].disposition = "Saved"
                           THEN {<<verdict[t].filename, tmp[u]>>} ELSE {}
        /\ \A v \in Uploads \ {u} : tmp'[v] = tmp[v] /\ published'[v] = published[v]
    <3>1. tmp \in [Uploads -> Contents \cup {NoFile}] /\ DOMAIN published = Uploads
      BY DEF IInv, TypeOK, DiskTypes
    <3>2. u \in Uploads
      BY <1>3 DEF FinalizerKnows
    <3> QED BY ONLY ZenonT(60), <2>1, <2>2, <3>1, <3>2
  <2>4. TmpGood(u)'
    BY <2>3 DEF TmpGood
  <2>5. PublishedGood(u)'
    <3>1. \A p \in published'[u] : p = <<verdict[t].filename, tmp[u]>> /\ p[2] = tmp[u]
      BY SMTT(60), <2>3
    <3>2. \A k \in 1 .. Len(tmp[u]) : tmp[u][k] # Blank
      BY <2>1 DEF FilledTo
    <3>3. u \notin completed' /\ metaOf' = metaOf
      BY <1>2, <1>3 DEF FinalizerKnows
    <3>4. \A p \in published'[u] :
            Len(p[2]) = metaOf'[u].size /\ \A k \in 1 .. Len(p[2]) : p[2][k] # Blank
      BY <2>1, <3>1, <3>2, <3>3
    <3> QED BY <3>1, <3>3, <3>4 DEF PublishedGood
  <2>6. DigestGood(t)' /\ pc'[t] \notin {"seal", "write", "commit", "writeLock"}
    BY <1>1, <1>2, <1>5, <2>1, <2>3 DEF DigestGood
  <2>7. Elsewhere(u)
    BY <1>2, <2>3 DEF Elsewhere
  <2> QED BY <1>2, <1>3, <2>4, <2>5, <2>6, <2>7, FinalizerStep
<1> QED BY <1>2, <1>4, <1>5

\* Completing an upload reports the file that was published for it.
LEMMA CompleteContent ==
  ASSUME ConstantsAssumption, IInv, ContentInv, NEW t \in Threads, Complete(t)
  PROVE  ContentInv'
<1>1. PICK u : u = cur[t]
  OBVIOUS
<1>2. /\ pc[t] = "complete" /\ Finalizing(t)
      /\ result' = [result EXCEPT ![u] = verdict[t]] /\ completed' = completed \cup {u}
      /\ UNCHANGED <<handles, idOf, metaOf, dead, bytes, hashValid, hashCtx, tmp, published,
                     cur, verdict>>
      /\ pc'[t] = "remember" /\ Others(t)
  BY <1>1 DEF Complete, Finalizing, Goto, Others, SameThread, IInv, TypeOK, ThreadTypes, maps,
               fixed, progress, diskVars, miscVars
<1>3. FinalizerKnows(t, u) /\ FinalizerKeeps(t, u)
  BY <1>1, <1>2, FinalizerContent
<1>4. u \in Uploads /\ TmpGood(u) /\ PublishedGood(u) /\ DigestGood(t)
  BY <1>3 DEF FinalizerKnows
<1>5. Elsewhere(u) /\ result'[u] = verdict[t]
  BY <1>2, <1>4 DEF Elsewhere, IInv, TypeOK, UploadTypes
<1>6. TmpGood(u)'
  BY <1>2, <1>4 DEF TmpGood, FilledTo
<1>7. PublishedGood(u)'
  <2>1. published[u] = IF verdict[t].disposition = "Saved"
                       THEN {<<verdict[t].filename, verdict[t].sha256>>} ELSE {}
    BY <1>1, <1>2, <1>4 DEF DigestGood
  <2> QED BY <1>2, <1>4, <1>5, <2>1 DEF PublishedGood
<1>8. DigestGood(t)' /\ pc'[t] \notin {"seal", "write", "commit", "writeLock"}
  BY <1>2 DEF DigestGood
<1> QED BY <1>2, <1>3, <1>5, <1>6, <1>7, <1>8, FinalizerStep

----------------------------------------------------------------------------
(* Aborted uploads, new ones, and a new process *)

\* Closing an aborted upload drops its streaming hash, which nobody will ask for.
LEMMA CloseAbortedContent ==
  ASSUME ConstantsAssumption, IInv, ContentInv, NEW t \in Threads, CloseAborted(t)
  PROVE  ContentInv'
<1>1. PICK u : u = cur[t]
  OBVIOUS
<1>2. /\ pc[t] = "close" /\ writeMutex[u] = Nil
      /\ hashCtx' = [hashCtx EXCEPT ![call[t].id] = NoFile]
      /\ UNCHANGED <<handles, idOf, metaOf, dead, bytes, hashValid, tmp, published, completed,
                     result, cur>>
      /\ pc'[t] = "retire" /\ Others(t)
  BY <1>1 DEF CloseAborted, Goto, Others, SameThread, IInv, TypeOK, ThreadTypes, maps,
               fixed, progress, diskVars
<1>3. u \in Live /\ u \in Uploads /\ call[t].id = idOf[u] /\ call[t].id \in FileIds /\ u \in failed
  <2>1. pc[t] \notin {"idle", "abort", "next"} /\ pc[t] \in {"close", "retire"}
    BY <1>2
  <2>2. cur[t] \in failed
    BY <2>1 DEF IInv, ThreadsGood, ThreadGood, PointerGood
  <2> QED BY <1>1, <2>1, <2>2, SecondLook
<1>4. \A r \in Threads \ {t} : Writing(r) \/ Finalizing(r) => cur[r] # u
  <2>1. \A r \in Threads : Writing(r) => writeMutex[cur[r]] = r /\ r # Nil
    BY DEF IInv, ThreadsGood, ThreadGood, WriterGood, Threads, ConstantsAssumption
  <2>2. \A r \in Threads : Finalizing(r) => cur[r] \notin failed
    BY DEF IInv, ThreadsGood, ThreadGood, FinalizerGood
  <2> QED BY <1>2, <1>3, <2>1, <2>2
<1>5. ~IsActive(u)
  BY <1>3 DEF IInv, UploadsGood, ActiveIsIntact
<1>6. ASSUME NEW v \in Uploads \ {u} PROVE SameContent(t, v)
  <2>1. v \in Live => hashCtx'[idOf[v]] = hashCtx[idOf[v]]
    <3> SUFFICES ASSUME v \in Live PROVE hashCtx'[idOf[v]] = hashCtx[idOf[v]]
      OBVIOUS
    <3>1. idOf[v] \in FileIds /\ idOf[v] # call[t].id
      BY <1>3, <1>6 DEF Live, IInv, UploadsGood, IdsUnique, TypeOK, UploadTypes, Maybe
    <3> QED BY <1>2, <3>1 DEF IInv, TypeOK, MapTypes
  <2> QED BY <1>2, <2>1 DEF SameContent, HashesAhead, IsActive
<1>7. OnlyTouches(t, u)
  BY <1>2, <1>6 DEF OnlyTouches
<1>8. TmpGood(u) /\ PublishedGood(u)
  BY <1>3 DEF ContentInv
<1>9. TmpGood(u)' /\ PublishedGood(u)'
  BY <1>2, <1>8 DEF TmpGood, FilledTo, PublishedGood
<1>10. StreamGood(u)'
  <2>1. ~IsActive(u)' /\ ~Sealing(u)'
    BY <1>2, <1>4, <1>5 DEF IsActive, Sealing, Others, SameThread, Finalizing
  <2> QED BY <2>1 DEF StreamGood
<1>11. ChunkGood(t)' /\ DigestGood(t)' /\ idOf'[u] # Nil
  BY <1>2, <1>3, QuietThread DEF Live
<1> QED BY <1>3, <1>4, <1>7, <1>9, <1>10, <1>11, ContentStep

\* Deleting the temporary file of a failed upload.  Its writer may still be
\* about to commit; a commit finds no handle then.
LEMMA RetireTemporaryContent ==
  ASSUME ConstantsAssumption, IInv, ContentInv, NEW t \in Threads, RetireTemporary(t)
  PROVE  ContentInv'
<1>1. PICK u : u = cur[t]
  OBVIOUS
<1>2. /\ pc[t] = "retire"
      /\ UNCHANGED <<handles, idOf, metaOf, dead, bytes, hashValid, hashCtx, published, completed,
                     result, failed>>
  BY DEF RetireTemporary, maps, fixed, progress
<1>3. /\ Others(t) /\ pc'[t] \in {"remember", "idle", "next"}
      /\ UNCHANGED tmp \/ tmp' = [tmp EXCEPT ![u] = NoFile]
  <2>1. CASE ReturnFromRetire(t) /\ UNCHANGED tmp
    BY <2>1, ReturnEffect DEF IInv, TypeOK
  <2>2. CASE Goto(t, "remember") /\ UNCHANGED <<call, cur, own, todo, verdict>>
             /\ tmp' = [tmp EXCEPT ![u] = NoFile]
    BY <2>2 DEF Goto, Others, SameThread, IInv, TypeOK, ThreadTypes
  <2> QED BY <1>1, <2>1, <2>2 DEF RetireTemporary
<1>4. CASE UNCHANGED tmp
  BY <1>2, <1>3, <1>4, QuietStep DEF Content
<1>5. CASE tmp' = [tmp EXCEPT ![u] = NoFile]
  <2>1. u \in Uploads /\ u \in failed /\ u \in Live
    <3>1. pc[t] \notin {"idle", "abort", "next"} /\ pc[t] \in {"close", "retire"}
      BY <1>2
    <3>2. cur[t] \in failed
      BY <3>1 DEF IInv, ThreadsGood, ThreadGood, PointerGood
    <3> QED BY <1>1, <3>1, <3>2, SecondLook
  <2>2. tmp'[u] = NoFile /\ \A v \in Uploads \ {u} : tmp'[v] = tmp[v]
    BY <1>5, <2>1 DEF IInv, TypeOK, DiskTypes
  <2>3. pc'[t] # "seal" /\ pc[t] # "commit"
    BY <1>2, <1>3
  <2>4. ASSUME NEW v \in Uploads \ {u} PROVE SameContent(t, v)
    BY <1>2, <2>2, <2>3 DEF SameContent, HashesAhead, IsActive
  <2>5. OnlyTouches(t, u)
    BY <1>2, <1>3, <2>3, <2>4 DEF OnlyTouches
  <2>6. \A r \in Threads : Finalizing(r) => cur[r] # u
    <3>1. \A r \in Threads : Finalizing(r) => cur[r] \notin failed
      BY DEF IInv, ThreadsGood, ThreadGood, FinalizerGood
    <3> QED BY <2>1, <3>1
  <2>7. ~IsActive(u) /\ ~IsActive(u)'
    BY <1>2, <2>1 DEF IInv, UploadsGood, ActiveIsIntact, IsActive
  <2>8. StreamGood(u)' /\ TmpGood(u)'
    <3>1. ~Sealing(u)'
      BY <1>3, <2>3, <2>6 DEF Sealing, Others, SameThread, Finalizing
    <3> QED BY <2>2, <2>7, <3>1 DEF StreamGood, TmpGood
  <2>9. PublishedGood(u)'
    <3>1. PublishedGood(u)
      BY <2>1 DEF ContentInv
    <3> QED BY <1>2, <3>1 DEF PublishedGood
  <2>10. ASSUME NEW r \in Threads PROVE ChunkGood(r)' /\ DigestGood(r)'
    <3>1. CASE r = t
      BY <1>3, <3>1, QuietThread
    <3>2. CASE r # t /\ (Writing(r) => cur[r] # u)
      BY <2>5, <2>6, <3>2, OtherThreads
    <3>3. CASE r # t /\ Writing(r) /\ cur[r] = u
      <4>1. SameThread(r) /\ ChunkGood(r)
        BY <1>3, <3>3 DEF Others, ContentInv
      <4>2. ChunkGood(r)'
        BY <1>2, <2>2, <2>7, <3>3, <4>1 DEF ChunkGood, SameThread, HashesAhead, Writing
      <4>3. DigestGood(r)'
        BY <3>3, <4>1 DEF DigestGood, SameThread, Writing
      <4> QED BY <4>2, <4>3
    <3> QED BY <3>1, <3>2, <3>3
  <2>11. FreshIsEmpty'
    BY <1>2 DEF ContentInv, FreshIsEmpty, Fresh
  <2>12. \A v \in Uploads : PublishedGood(v)' /\ (v \in Live' => TmpGood(v)' /\ StreamGood(v)')
    <3>1. \A v \in Uploads \ {u} :
            PublishedGood(v)' /\ (v \in Live' => TmpGood(v)' /\ StreamGood(v)')
      BY <2>5, OtherUploads
    <3> QED BY <2>8, <2>9, <3>1
  <2>13. Live' \subseteq Uploads
    BY DEF Live
  <2> QED BY <2>10, <2>11, <2>12, <2>13 DEF ContentInv
<1> QED BY <1>3, <1>4, <1>5

\* A new upload is empty, and takes no id that a thread or another upload has.
LEMMA InitFileContent ==
  ASSUME ConstantsAssumption, IInv, ContentInv, ~ReuseIds, NEW id \in FileIds, NEW m \in Metas,
         InitFile(id, m)
  PROVE  ContentInv'
<1>1. /\ UNCHANGED <<bytes, completed, result, dead, published, threadVars>>
      /\ \A v \in Live : idOf[v] # id
  BY DEF InitFile, IdIsAdmissible
<1>2. PICK u \in Fresh :
       /\ idOf' = [idOf EXCEPT ![u] = id] /\ metaOf' = [metaOf EXCEPT ![u] = m]
       /\ \/ /\ handles' = [handles EXCEPT ![id] = u]
             /\ tmp' = [tmp EXCEPT ![u] = BlankFile(m.size)]
             /\ \/ hashValid' = hashValid \cup {u} /\ hashCtx' = [hashCtx EXCEPT ![id] = <<>>]
                \/ UNCHANGED <<hashValid, hashCtx>>
          \/ UNCHANGED <<handles, tmp, hashValid, hashCtx>>
          \/ /\ tmp' = [tmp EXCEPT ![u] = BlankFile(m.size)]
             /\ UNCHANGED <<handles, hashValid, hashCtx>>
  BY DEF InitFile
<1>3. /\ u \in Uploads /\ idOf[u] = Nil /\ tmp[u] = NoFile /\ published[u] = {}
      /\ u \notin completed /\ bytes[u] = 0 /\ u \notin hashValid /\ u \notin Live
  BY <1>2 DEF Fresh, Live, IInv, UploadsGood, FreshIsClean, ContentInv, FreshIsEmpty
<1>4. UNCHANGED <<pc, call, cur, own, todo, verdict>> /\ id # Nil
  BY <1>1 DEF threadVars, ConstantsAssumption
<1>5. \A r \in Threads : SameThread(r)
  BY <1>4 DEF SameThread
<1>6. \A r \in Threads : Writing(r) \/ Finalizing(r) => cur[r] # u
  <2>1. \A r \in Threads : Writing(r) \/ Finalizing(r) => cur[r] \in Live
    BY SecondLook DEF Writing, Finalizing
  <2> QED BY <1>3, <2>1
<1>7. /\ idOf'[u] = id /\ metaOf'[u] = m
      /\ tmp'[u] \in {NoFile, BlankFile(m.size)}
      /\ \A v \in Uploads \ {u} : idOf'[v] = idOf[v] /\ metaOf'[v] = metaOf[v] /\ tmp'[v] = tmp[v]
  <2>1. DOMAIN idOf = Uploads /\ DOMAIN metaOf = Uploads /\ DOMAIN tmp = Uploads
    BY DEF IInv, TypeOK, UploadTypes, DiskTypes
  <2>2. /\ idOf'[u] = id /\ metaOf'[u] = m
        /\ \A v \in Uploads \ {u} : idOf'[v] = idOf[v] /\ metaOf'[v] = metaOf[v]
    BY <1>2, <1>3, <2>1
  <2>3. UNCHANGED tmp \/ tmp' = [tmp EXCEPT ![u] = BlankFile(m.size)]
    BY <1>2
  <2>4. /\ tmp'[u] \in {NoFile, BlankFile(m.size)}
        /\ \A v \in Uploads \ {u} : tmp'[v] = tmp[v]
    BY <1>3, <2>1, <2>3
  <2> QED BY <2>2, <2>4
<1>8. \A v \in Uploads \ {u} : IsActive(v)' => IsActive(v)
  BY <1>2 DEF IsActive, IInv, TypeOK, MapTypes
<1>9. \A v \in Uploads \ {u} : v \in Live => hashCtx'[idOf[v]] = hashCtx[idOf[v]]
  <2>1. \A v \in Live : idOf[v] \in FileIds /\ idOf[v] # id
    BY <1>1 DEF Live, IInv, TypeOK, UploadTypes, Maybe
  <2> QED BY <1>2, <2>1 DEF IInv, TypeOK, MapTypes
<1>10. \A v \in Uploads \ {u} : v \in hashValid' => v \in hashValid
  BY <1>2
<1>11. ASSUME NEW v \in Uploads \ {u} PROVE SameContent(Nil, v)
  BY <1>1, <1>4, <1>7, <1>8, <1>9, <1>10 DEF SameContent, HashesAhead
<1>12. OnlyTouches(Nil, u)
  BY <1>1, <1>4, <1>5, <1>11 DEF OnlyTouches, Others
<1>13. PublishedGood(u)'
  BY <1>1, <1>3 DEF PublishedGood
<1>14. TmpGood(u)'
  <2>1. BlankFile(m.size) \in Contents /\ Len(BlankFile(m.size)) = m.size /\ m.size \in Nat
    <3>1. m.size \in Nat
      BY DEF ConstantsAssumption
    <3>2. BlankFile(m.size) \in [1 .. m.size -> Data \cup {Blank}]
      BY DEF BlankFile
    <3>3. BlankFile(m.size) \in Contents
      BY <3>1, <3>2, FunctionIsContent
    <3> QED BY SMTT(60), <3>1, <3>2, <3>3 DEF Contents
  <2>2. bytes'[u] = 0 /\ metaOf'[u] = m
    BY <1>1, <1>3, <1>7
  <2>3. tmp'[u] # NoFile => Len(tmp'[u]) = m.size
    BY <1>7, <2>1
  <2>4. 0 <= m.size /\ \A k \in 1 .. 0 : tmp'[u][k] # Blank
    BY ONLY SMTT(60), <2>1
  <2> QED BY <2>2, <2>3, <2>4 DEF TmpGood, FilledTo
<1>15. StreamGood(u)'
  <2> SUFFICES ASSUME u \in hashValid', (IsActive(u) \/ Sealing(u))'
               PROVE  Streamed(u, bytes[u])'
    BY DEF StreamGood
  <2>1. hashCtx' = [hashCtx EXCEPT ![id] = <<>>]
    BY <1>2, <1>3
  <2>2. hashCtx'[id] = <<>> /\ <<>> # NoFile
    BY <2>1, EmptyIsContent DEF IInv, TypeOK, MapTypes, ConstantsAssumption
  <2>3. Len(<<>>) = 0 /\ \A k \in 1 .. 0 : <<>>[k] = tmp'[u][k]
    BY ONLY SMTT(60)
  <2>4. bytes'[u] = 0 /\ idOf'[u] = id
    BY <1>1, <1>3, <1>7
  <2> QED BY <2>2, <2>3, <2>4 DEF Streamed
<1>16. Nil \notin Threads
  BY DEF ConstantsAssumption, Threads
<1> QED BY <1>4, <1>6, <1>7, <1>12, <1>13, <1>14, <1>15, <1>16, ContentStep

\* Steps of the directory, the inventory and the clock concern no upload's content.
LEMMA EnvironmentContent ==
  ASSUME ConstantsAssumption, IInv, ContentInv, UNCHANGED <<Content, handles, threadVars>>
  PROVE  ContentInv'
<1>1. UNCHANGED <<idOf, metaOf, dead, tmp, bytes, hashValid, published, completed, result, hashCtx,
                  pc, call, cur, own, todo, verdict>>
  BY DEF Content, threadVars
<1>2. \A r \in Threads : SameThread(r)
  BY <1>1 DEF SameThread
<1>3. \A v \in Uploads : SameContent(Nil, v)
  BY <1>1 DEF SameContent, HashesAhead, IsActive
<1>4. OnlyTouches(Nil, Nil)
  BY <1>1, <1>2, <1>3 DEF OnlyTouches, Others
<1>5. Nil \notin Threads /\ Nil \notin Uploads /\ Nil \notin Live'
  BY DEF ConstantsAssumption, Threads, Live
<1>6. \A r \in Threads : Writing(r) \/ Finalizing(r) => cur[r] # Nil
  BY <1>5, SecondLook DEF Writing, Finalizing
<1> QED BY <1>4, <1>5, <1>6, ContentStep

\* A new process has no uploads yet; what the old one published stays.
LEMMA RestartContent ==
  ASSUME ConstantsAssumption, IInv, ContentInv, Restart
  PROVE  ContentInv'
<1>1. /\ UNCHANGED <<idOf, metaOf, bytes, hashValid, completed, result, published>>
      /\ dead' = {u \in Uploads : idOf[u] # Nil} /\ pc' = [t \in Threads |-> "idle"]
  BY DEF Restart, fixed, progress, flags
<1>2. Live' = {}
  BY <1>1 DEF Live
<1>3. FreshIsEmpty'
  BY <1>1 DEF ContentInv, FreshIsEmpty, Fresh
<1>4. \A r \in Threads : ChunkGood(r)' /\ DigestGood(r)'
  BY <1>1, QuietThread
<1>5. ASSUME NEW u \in Uploads PROVE PublishedGood(u)'
  <2>1. PublishedGood(u)
    BY DEF ContentInv
  <2> QED BY <1>1, <2>1 DEF PublishedGood
<1> QED BY <1>2, <1>3, <1>4, <1>5 DEF ContentInv
----------------------------------------------------------------------------
(* ContentInv is an invariant *)

\* Every step of a thread inside a call keeps the contents right.
LEMMA ThreadStepContent ==
  ASSUME ConstantsAssumption, IInv, ContentInv, NEW t \in Threads, ThreadStep(t)
  PROVE  ContentInv'
<1>1. CASE AbortFile(t)
  <2>1. pc[t] # "commit"
    BY <1>1 DEF AbortFile
  <2> QED BY <1>1, <2>1, AbortContent DEF AbortFile
<1>2. CASE WriteLocked(t) \/ WriteMappedRange(t) \/ CommitChunk(t) \/ AwaitReturn(t)
  BY <1>2, WriteLockedContent, WriteMappedRangeContent, CommitChunkContent, FailContent
<1>3. CASE FinalizeLocked(t) \/ Seal(t) \/ Decide(t) \/ Publish(t) \/ Complete(t)
  BY <1>3, FinalizeLockedContent, SealContent, DecideContent, PublishContent, CompleteContent
<1>4. CASE FailFinalization(t) \/ NextInLoop(t) \/ CloseAborted(t) \/ RetireTemporary(t)
           \/ RememberCompleted(t)
  BY <1>4, FailContent, NextInLoopContent, CloseAbortedContent, RetireTemporaryContent
<1> QED BY <1>1, <1>2, <1>3, <1>4 DEF ThreadStep

\* So does every start of a call.
LEMMA RequestContent ==
  ASSUME ConstantsAssumption, IInv, ContentInv, NEW t \in Workers, Request(t)
  PROVE  ContentInv'
<1>1. t \in Threads
  BY DEF Threads
<1>2. ASSUME NEW id \in FileIds, NEW i \in 0 .. MaxChunks - 1, NEW n \in ChunkSizes, NEW d \in Data,
             WriteChunk(t, id, i, n, d)
      PROVE  ContentInv'
  <2> DEFINE c == [NoCall EXCEPT !.id = id, !.index = i, !.size = n, !.data = d]
  <2>1. c.data \in Data
    BY DEF NoCall
  <2>2. Lookup(t, c, "writeLock")
    BY <1>2 DEF WriteChunk
  <2> HIDE DEF c
  <2> QED BY <1>1, <2>1, <2>2, LookupContent
<1>3. ASSUME NEW id \in FileIds, FinalizeFile(t, id) PROVE ContentInv'
  <2>1. Lookup(t, [NoCall EXCEPT !.id = id], "finalLock")
    BY <1>3 DEF FinalizeFile
  <2> QED BY <1>1, <2>1, LookupContent
<1>4. ASSUME NEW id \in FileIds, RequestAbort(t, id) PROVE ContentInv'
  <2>1. AbortMatching(t, {id}, "abort") /\ pc[t] # "commit"
    BY <1>4 DEF RequestAbort
  <2> QED BY <1>1, <2>1, AbortContent
<1>5. ASSUME NEW o, AbortFilesWithPrefix(t, o) PROVE ContentInv'
  <2>1. AbortMatching(t, {i \in FileIds : Owner[i] = o}, "abort") /\ pc[t] # "commit"
    BY <1>5 DEF AbortFilesWithPrefix
  <2> QED BY <1>1, <2>1, AbortContent
<1> QED BY <1>2, <1>3, <1>4, <1>5 DEF Request

\* ContentInv is inductive relative to IInv.
LEMMA NextContent ==
  ASSUME ConstantsAssumption, ~ReuseIds, IInv, ContentInv, [Next]_vars
  PROVE  ContentInv'
<1>1. CASE UNCHANGED vars
  <2>1. UNCHANGED <<Content, handles, threadVars>>
    BY <1>1 DEF vars, Content, maps, uploadVars, fixed, progress, flags, diskVars, miscVars
  <2> QED BY <2>1, EnvironmentContent
<1>2. CASE ExpireIdleFiles
  <2>1. Reaper \in Threads /\ pc[Reaper] # "commit"
    BY <1>2 DEF Threads, ExpireIdleFiles
  <2> QED BY <1>2, <2>1, AbortContent DEF ExpireIdleFiles
<1>3. CASE Environment
  <2>1. ASSUME NEW u \in Uploads, TimePasses(u) PROVE ContentInv'
    <3>1. UNCHANGED <<Content, handles, threadVars>>
      BY <2>1 DEF TimePasses, Content, maps, fixed, progress, diskVars, miscVars
    <3> QED BY <3>1, EnvironmentContent
  <2>2. ASSUME NEW f \in Filenames, IndexFile(f) PROVE ContentInv'
    <3>1. UNCHANGED <<Content, handles, threadVars>>
      BY <2>2 DEF IndexFile, Content, maps, uploadVars, fixed, progress, flags, miscVars
    <3> QED BY <3>1, EnvironmentContent
  <2>3. ASSUME NEW f \in Filenames, NEW c \in External, ExternalChange(f, c) PROVE ContentInv'
    <3>1. UNCHANGED <<Content, handles, threadVars>>
      BY <2>3 DEF ExternalChange, Content, maps, uploadVars, fixed, progress, flags, miscVars
    <3> QED BY <3>1, EnvironmentContent
  <2> QED BY <1>3, <2>1, <2>2, <2>3, RestartContent DEF Environment
<1> QED BY <1>1, <1>2, <1>3, InitFileContent, RequestContent, ThreadStepContent DEF Next

\* Before the first request there is no content.
LEMMA InitContent ==
  ASSUME ConstantsAssumption, Init
  PROVE  ContentInv
<1>1. /\ idOf = [u \in Uploads |-> Nil] /\ bytes = [u \in Uploads |-> 0] /\ hashValid = {}
      /\ completed = {} /\ published = [u \in Uploads |-> {}] /\ pc = [t \in Threads |-> "idle"]
  BY DEF Init
<1>2. Live = {} /\ FreshIsEmpty
  BY <1>1 DEF Live, Fresh, FreshIsEmpty
<1>3. \A t \in Threads : ChunkGood(t) /\ DigestGood(t)
  BY <1>1 DEF ChunkGood, DigestGood, HashesAhead, Writing
<1>4. \A u \in Uploads : PublishedGood(u)
  BY <1>1 DEF PublishedGood
<1> QED BY <1>2, <1>3, <1>4 DEF ContentInv

=============================================================================
