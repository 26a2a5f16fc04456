----------------------------- MODULE FileWriter -----------------------------
(***************************************************************************)
(* The receiving side of an upload: FileWriter.cpp.  HTTP worker threads   *)
(* call initFile, writeChunk, finalizeFileResult and abort*; the server's  *)
(* main loop (the Reaper) calls expireIdleFiles.  A section of code under  *)
(* m_mutex, or under one FinalizationState's mutex, is one step; the       *)
(* per-file writeMutex and m_finalizeMutex are held across steps and are   *)
(* variables.  An upload is one FileHandle with its FinalizationState (the *)
(* pair initFile allocates), so a pointer held by a thread stays valid     *)
(* when the maps no longer name it.                                        *)
(*                                                                         *)
(* Data: a chunk is some bytes of one value, a content is a sequence of    *)
(* byte values, and SHA-256 is taken to be injective, so a digest is the   *)
(* content itself.  Result codes are not state: a call that only returns   *)
(* a refusal changes nothing and is no step.                               *)
(*                                                                         *)
(* A definition marked "Wrong:" belongs to no specification: it is the     *)
(* definition below it with a plausible mistake, which shows that the      *)
(* properties would notice.                                                *)
(***************************************************************************)
EXTENDS Naturals, Sequences, FiniteSets, Folds

CONSTANTS
  FileIds,               \* ids that clients use
  Owner,                 \* the credential namespace an id starts with
  Uploads,               \* objects initFile may allocate in a behaviour
  Metas,                 \* requests: [name, size, chunks, skip]
  SafeName,              \* sanitizeFilename, original name -> stored name
  Data,                  \* byte values
  ChunkSizes,            \* sizes a chunk request may have
  Workers, Reaper,       \* HTTP threads, and the thread of HttpServer::run
  KeepBoth,              \* filename conflict policy (FALSE: Reject)
  MaxFileBytes, MaxChunks,
  MaxReservedBytes, MaxOwnerBytes, MaxActiveFiles, MaxOwnerFiles,
  MaxCompletedSessions,
  MaxSuffix,             \* largest number of a numbered filename
  ReuseIds,              \* may a client reuse an id whose session was evicted
  External,              \* what others may put in place of a file (NoFile: delete)
  Restarts,              \* may the server process stop and start again
  Nil, Blank, NoFile

\* The files of the upload directory: a stored name, or one with " (n)", n >= 2.
Filenames == {SafeName[n] : n \in DOMAIN SafeName} \X (1 .. MaxSuffix)
Contents == Seq(Data \cup {Blank})

ASSUME ConstantsAssumption ==
  /\ IsFiniteSet(FileIds) /\ IsFiniteSet(Uploads)
  /\ Nil \notin FileIds \cup Uploads \cup Workers \cup {Reaper} \cup Metas
  /\ Reaper \notin Workers
  /\ Blank \notin Data /\ NoFile \notin Contents
  /\ External \subseteq Contents \cup {NoFile}
  /\ \A m \in Metas :
        /\ m.size \in Nat /\ m.chunks \in Nat
        /\ m.skip \in BOOLEAN /\ m.name \in DOMAIN SafeName
  /\ ChunkSizes \subseteq Nat \ {0}
  /\ {KeepBoth, ReuseIds, Restarts} \subseteq BOOLEAN
  /\ {MaxFileBytes, MaxChunks, MaxReservedBytes, MaxOwnerBytes, MaxActiveFiles,
      MaxOwnerFiles, MaxCompletedSessions} \subseteq Nat
  /\ MaxSuffix \in Nat \ {0}

Threads == Workers \cup {Reaper}

Dispositions == {"Saved", "Duplicate", "NameConflict", "Error"}

VARIABLES
  handles,        \* m_handles:  id -> upload
  sessions,       \* m_sessions: id -> upload
  order,          \* m_completedSessionOrder
  idOf, metaOf,   \* what initFile was called with, per upload
  bytes, sizes,   \* bytesWritten, acceptedChunkSizes
  hashValid,      \* uploads with streamingHashValid
  finalizing, completed, failed, reserved,   \* FinalizationState flags
  idle,           \* uploads whose lastActivity is idleTimeout ago
  result,         \* FinalizationState disposition, filename, sha256
  open,           \* uploads whose file and mapping are open
  writeMutex,     \* holder of the upload's writeMutex
  finalizeMutex,  \* holder of m_finalizeMutex
  suffix,         \* m_nextFilenameSuffix (0: no entry)
  hashCtx,        \* HashEngine's streaming context: bytes hashed, per id
  tmp,            \* temporary file of an upload
  disk,           \* files of the upload directory
  index,          \* HashEngine's inventory: filename -> digest
  dead,           \* uploads of an earlier server process
  published,      \* history: <<filename, content>> an upload was renamed to
  pc, job, call, cur, own, todo, verdict   \* the threads

maps == <<handles, sessions, order>>
fixed == <<idOf, metaOf>>
progress == <<bytes, sizes, hashValid>>
flags == <<finalizing, completed, failed, reserved, idle>>
uploadVars == <<fixed, progress, flags, result, open, writeMutex>>
diskVars == <<tmp, disk, index, published>>
miscVars == <<finalizeMutex, suffix, hashCtx, dead>>
threadVars == <<pc, job, call, cur, own, todo, verdict>>
vars == <<maps, uploadVars, diskVars, miscVars, threadVars>>

NoCall == [id |-> Nil, index |-> 0, size |-> 0, data |-> Blank,
           offset |-> 0, hashed |-> FALSE]
NoVerdict == [disposition |-> "Error", filename |-> Nil, sha256 |-> NoFile]

Live == {u \in Uploads : idOf[u] # Nil} \ dead
Fresh == {u \in Uploads : idOf[u] = Nil}
BlankFile(n) == [i \in 1 .. n |-> Blank]

Init ==
  /\ handles = [i \in FileIds |-> Nil]
  /\ sessions = [i \in FileIds |-> Nil]
  /\ order = <<>>
  /\ idOf = [u \in Uploads |-> Nil]
  /\ metaOf = [u \in Uploads |-> Nil]
  /\ bytes = [u \in Uploads |-> 0]
  /\ sizes = [u \in Uploads |-> <<>>]
  /\ hashValid = {}
  /\ finalizing = {} /\ completed = {} /\ failed = {} /\ reserved = {} /\ idle = {}
  /\ result = [u \in Uploads |-> NoVerdict]
  /\ open = {}
  /\ writeMutex = [u \in Uploads |-> Nil]
  /\ finalizeMutex = Nil
  /\ suffix = [n \in {SafeName[x] : x \in DOMAIN SafeName} |-> 0]
  /\ hashCtx = [i \in FileIds |-> NoFile]
  /\ tmp = [u \in Uploads |-> NoFile]
  /\ disk = [f \in Filenames |-> NoFile]
  /\ index = [f \in Filenames |-> NoFile]
  /\ dead = {}
  /\ published = [u \in Uploads |-> {}]
  /\ pc = [t \in Threads |-> "idle"]
  /\ job = [t \in Threads |-> "none"]
  /\ call = [t \in Threads |-> NoCall]
  /\ cur = [t \in Threads |-> Nil]
  /\ own = [t \in Threads |-> Nil]
  /\ todo = [t \in Threads |-> {}]
  /\ verdict = [t \in Threads |-> NoVerdict]

----------------------------------------------------------------------------
(* Admission: initFile, under m_mutex from its first check to its return. *)

Charged == {u \in reserved : \E i \in FileIds : sessions[i] = u}
ChargedTo(o) == {u \in Charged : Owner[idOf[u]] = o}
BytesOf(S) ==
  MapThenFoldSet(+, 0, LAMBDA u : metaOf[u].size, LAMBDA T : CHOOSE u \in T : TRUE, S)

\* Wrong: the new file itself is left out of the sums.
LimitsIgnoringSize(id, m) ==
  /\ Cardinality(Charged) < MaxActiveFiles
  /\ Cardinality(ChargedTo(Owner[id])) < MaxOwnerFiles
  /\ BytesOf(Charged) < MaxReservedBytes
  /\ BytesOf(ChargedTo(Owner[id])) < MaxOwnerBytes
WithinAdmissionLimits(id, m) ==
  /\ Cardinality(Charged) < MaxActiveFiles
  /\ Cardinality(ChargedTo(Owner[id])) < MaxOwnerFiles
  /\ BytesOf(Charged) + m.size <= MaxReservedBytes
  /\ BytesOf(ChargedTo(Owner[id])) + m.size <= MaxOwnerBytes

\* rememberCompletedSessionLocked, on the session map s: the queue never holds
\* more than its bound before the push, so its loop pops at most once.
RememberCompletedSession(s, id) ==
  LET q == Append(order, id) IN
  IF Len(q) > MaxCompletedSessions
  THEN /\ order' = Tail(q)
       /\ sessions' = IF handles[Head(q)] = Nil
                      THEN [s EXCEPT ![Head(q)] = Nil] ELSE s
  ELSE order' = q /\ sessions' = s

\* The id is new to this process, or the client may come back with an old one.
IdIsAdmissible(id) == ReuseIds \/ \A u \in Live : idOf[u] # id

InitFile(id, m) ==
  /\ m.size \in 1 .. MaxFileBytes /\ m.chunks \in 1 .. MaxChunks
  /\ handles[id] = Nil /\ sessions[id] = Nil
  /\ IdIsAdmissible(id)
  /\ WithinAdmissionLimits(id, m)
  /\ \E u \in Fresh :
       /\ idOf' = [idOf EXCEPT ![u] = id]
       /\ metaOf' = [metaOf EXCEPT ![u] = m]
       /\ \/ \* the temporary file is created and mapped
             /\ sessions' = [sessions EXCEPT ![id] = u]
             /\ handles' = [handles EXCEPT ![id] = u]
             /\ open' = open \cup {u}
             /\ reserved' = reserved \cup {u}
             /\ tmp' = [tmp EXCEPT ![u] = BlankFile(m.size)]
             /\ \/ /\ hashValid' = hashValid \cup {u}
                   /\ hashCtx' = [hashCtx EXCEPT ![id] = <<>>]
                \/ UNCHANGED <<hashValid, hashCtx>>
             /\ UNCHANGED <<order, failed>>
          \/ \* creation fails, and nothing is left of it
             /\ failed' = failed \cup {u}
             /\ RememberCompletedSession([sessions EXCEPT ![id] = u], id)
             /\ UNCHANGED <<handles, open, reserved, tmp, hashValid, hashCtx>>
          \/ \* sizing or mapping fails, and the file cannot be removed
             /\ sessions' = [sessions EXCEPT ![id] = u]
             /\ failed' = failed \cup {u}
             /\ reserved' = reserved \cup {u}
             /\ tmp' = [tmp EXCEPT ![u] = BlankFile(m.size)]
             /\ UNCHANGED <<handles, order, open, hashValid, hashCtx>>
  /\ UNCHANGED <<bytes, sizes, finalizing, completed, idle, result, writeMutex,
                 finalizeMutex, suffix, disk, index, dead, published, threadVars>>

----------------------------------------------------------------------------
(* Threads.  Finish(t) is the return from a call: every lock it holds is   *)
(* released by the destructors of its lock guards.                         *)

\* Wrong: returning releases other threads' mutexes too.
UnlockedForAll(t) == [u \in Uploads |-> Nil]
Unlocked(t) == [u \in Uploads |-> IF writeMutex[u] = t THEN Nil ELSE writeMutex[u]]

Goto(t, label) == pc' = [pc EXCEPT ![t] = label]

Finish(t) ==
  /\ Goto(t, "idle")
  /\ job' = [job EXCEPT ![t] = "none"]
  /\ call' = [call EXCEPT ![t] = NoCall]
  /\ cur' = [cur EXCEPT ![t] = Nil]
  /\ own' = [own EXCEPT ![t] = Nil]
  /\ todo' = [todo EXCEPT ![t] = {}]
  /\ verdict' = [verdict EXCEPT ![t] = NoVerdict]
  /\ writeMutex' = Unlocked(t)
  /\ finalizeMutex' = IF finalizeMutex = t THEN Nil ELSE finalizeMutex

\* writeChunk and finalizeFileResult start with the same lookup: a handle gives
\* its writeMutex, a session alone is waited for, an unknown id is refused.
Lookup(t, c, label) ==
  /\ t \in Workers /\ pc[t] = "idle"
  /\ sessions[c.id] # Nil
  /\ call' = [call EXCEPT ![t] = c]
  /\ IF handles[c.id] # Nil
     THEN cur' = [cur EXCEPT ![t] = handles[c.id]] /\ Goto(t, label)
     ELSE cur' = [cur EXCEPT ![t] = sessions[c.id]] /\ Goto(t, "await")
  /\ UNCHANGED <<maps, uploadVars, diskVars, miscVars, job, own, todo, verdict>>

WriteChunk(t, id, i, n, d) ==
  Lookup(t, [NoCall EXCEPT !.id = id, !.index = i, !.size = n, !.data = d],
         "writeLock")

\* The second look, with writeMutex and then m_mutex held.
Accepts(h, c) ==
  /\ c.index = Len(sizes[h])
  /\ bytes[h] + c.size <= metaOf[h].size

WriteLocked(t) ==
  LET id == call[t].id
      h == handles[id] IN
  /\ pc[t] = "writeLock" /\ writeMutex[cur[t]] = Nil
  /\ \/ /\ h # Nil /\ Accepts(h, call[t])
        /\ Goto(t, "write")
        /\ own' = [own EXCEPT ![t] = h]
        /\ call' = [call EXCEPT ![t].offset = bytes[h]]
        /\ idle' = idle \ {h}
        /\ writeMutex' = [writeMutex EXCEPT ![cur[t]] = t]
        /\ UNCHANGED <<cur, job, todo, verdict, finalizeMutex>>
     \/ \* gone meanwhile: wait for its outcome, still holding writeMutex
        /\ h = Nil /\ sessions[id] # Nil
        /\ Goto(t, "await")
        /\ cur' = [cur EXCEPT ![t] = sessions[id]]
        /\ writeMutex' = [writeMutex EXCEPT ![cur[t]] = t]
        /\ UNCHANGED <<call, own, job, todo, verdict, idle, finalizeMutex>>
     \/ \* UnknownFile, AlreadyAccepted, OutOfOrder or SizeExceeded
        /\ IF h = Nil THEN sessions[id] = Nil ELSE ~Accepts(h, call[t])
        /\ Finish(t)
        /\ UNCHANGED idle
  /\ UNCHANGED <<maps, fixed, progress, finalizing, completed, failed, reserved,
                 result, open, diskVars, suffix, hashCtx, dead>>

Overwrite(s, c, n) ==
  [k \in DOMAIN s |-> IF k \in c.offset + 1 .. c.offset + n THEN c.data ELSE s[k]]
Repeat(d, n) == [k \in 1 .. n |-> d]

\* writeMappedRange, then updateHash; neither holds m_mutex.
WriteMappedRange(t) ==
  LET c == call[t] IN
  /\ pc[t] = "write"
  /\ \/ /\ tmp' = [tmp EXCEPT ![own[t]] = IF @ = NoFile THEN @ ELSE Overwrite(@, c, c.size)]
        /\ \E ok \in BOOLEAN :
             /\ ok => hashCtx[c.id] # NoFile
             /\ hashCtx' = IF ok THEN [hashCtx EXCEPT ![c.id] = @ \o Repeat(c.data, c.size)]
                                 ELSE hashCtx
             /\ call' = [call EXCEPT ![t].hashed = ok]
        /\ Goto(t, "commit")
        /\ UNCHANGED <<writeMutex, job>>
     \/ \* a copy, map or flush fails part of the way; abortFile(fileId) follows
        /\ \E k \in 0 .. c.size :
             tmp' = [tmp EXCEPT ![own[t]] = IF @ = NoFile THEN @ ELSE Overwrite(@, c, k)]
        /\ writeMutex' = Unlocked(t)
        /\ Goto(t, "abort")
        /\ job' = [job EXCEPT ![t] = "abort"]
        /\ UNCHANGED <<hashCtx, call>>
  /\ UNCHANGED <<maps, fixed, progress, flags, result, open, disk, index, published,
                 finalizeMutex, suffix, dead, cur, own, todo, verdict>>

\* Wrong: a failed updateHash leaves streamingHashValid alone.
CommitTrustingHash(t) ==
  LET h == handles[call[t].id] IN
  /\ pc[t] = "commit"
  /\ IF h = Nil THEN UNCHANGED progress
     ELSE /\ bytes' = [bytes EXCEPT ![h] = @ + call[t].size]
          /\ sizes' = [sizes EXCEPT ![h] = Append(@, call[t].size)]
          /\ UNCHANGED hashValid
  /\ Finish(t)
  /\ UNCHANGED <<maps, fixed, flags, result, open, diskVars, suffix, hashCtx, dead>>
CommitChunk(t) ==
  LET h == handles[call[t].id] IN
  /\ pc[t] = "commit"
  /\ IF h = Nil THEN UNCHANGED progress
     ELSE /\ bytes' = [bytes EXCEPT ![h] = @ + call[t].size]
          /\ sizes' = [sizes EXCEPT ![h] = Append(@, call[t].size)]
          /\ hashValid' = IF call[t].hashed THEN hashValid ELSE hashValid \ {h}
  /\ Finish(t)
  /\ UNCHANGED <<maps, fixed, flags, result, open, diskVars, suffix, hashCtx, dead>>

\* waitForFinalization and waitForFinalizedResult: resolved, or 15 s are over.
AwaitReturn(t) ==
  /\ pc[t] = "await"
  /\ Finish(t)
  /\ UNCHANGED <<maps, fixed, progress, flags, result, open, diskVars, suffix,
                 hashCtx, dead>>

----------------------------------------------------------------------------
(* finalizeFileResult *)

FinalizeFile(t, id) == Lookup(t, [NoCall EXCEPT !.id = id], "finalLock")

IsComplete(h) ==
  /\ bytes[h] = metaOf[h].size
  /\ Len(sizes[h]) = metaOf[h].chunks

\* The second look.  writeMutex and m_mutex are both released at its end.
FinalizeLocked(t) ==
  LET id == call[t].id
      h == handles[id] IN
  /\ pc[t] = "finalLock" /\ writeMutex[cur[t]] = Nil
  /\ \/ /\ h # Nil /\ IsComplete(h)
        /\ finalizing' = finalizing \cup {cur[t]}
        /\ handles' = [handles EXCEPT ![id] = Nil]
        /\ own' = [own EXCEPT ![t] = h]
        /\ Goto(t, "seal")
        /\ UNCHANGED <<job, call, cur, todo, verdict, writeMutex, finalizeMutex>>
     \/ \* incomplete: abortFile(fileId) follows the unlocks
        /\ h # Nil /\ ~IsComplete(h)
        /\ Goto(t, "abort")
        /\ job' = [job EXCEPT ![t] = "abort"]
        /\ UNCHANGED <<handles, finalizing, call, cur, own, todo, verdict, writeMutex,
                       finalizeMutex>>
     \/ /\ h = Nil /\ sessions[id] # Nil
        /\ cur' = [cur EXCEPT ![t] = sessions[id]]
        /\ Goto(t, "await")
        /\ UNCHANGED <<handles, finalizing, job, call, own, todo, verdict, writeMutex,
                       finalizeMutex>>
     \/ /\ h = Nil /\ sessions[id] = Nil
        /\ Finish(t)
        /\ UNCHANGED <<handles, finalizing>>
  /\ UNCHANGED <<sessions, order, fixed, progress, completed, failed, reserved, idle,
                 result, open, diskVars, suffix, hashCtx, dead>>

\* flushFile, finalizeHash or abortHash, closeHandle, and computeFileHash of
\* the temporary file when there is no streamed digest.
Seal(t) ==
  LET u == own[t]
      id == call[t].id
      streamed == IF u \in hashValid THEN {hashCtx[id]} ELSE {} IN
  /\ pc[t] = "seal"
  /\ hashCtx' = [hashCtx EXCEPT ![id] = NoFile]
  /\ \/ /\ \E digest \in (streamed \cup {tmp[u]}) \ {NoFile} :
             verdict' = [verdict EXCEPT ![t].sha256 = digest]
        /\ open' = open \ {u}
        /\ Goto(t, "decide")
     \/ /\ Goto(t, "fail")
        /\ UNCHANGED <<open, verdict>>
  /\ UNCHANGED <<maps, fixed, progress, flags, result, writeMutex, diskVars,
                 finalizeMutex, suffix, dead, job, call, cur, own, todo>>

\* makeNumberedFilename: the numbers it may try, in increasing order.
FreeNumbers(name) ==
  {n \in (IF suffix[name] = 0 THEN 2 ELSE suffix[name]) .. MaxSuffix :
      disk[<<name, n>>] = NoFile}

\* findVerifiedDuplicate: records of the digest, and the ones whose file still
\* has it.  verifyInventoryRecord corrects the other records it visits; a file in
\* bad exists but cannot be read, and its record loses the digest.
Recorded(digest) == {f \in Filenames : index[f] = digest}
Verified(digest, bad) == {f \in Recorded(digest) \ bad : disk[f] = digest}
Corrected(S, bad) ==
  [f \in Filenames |-> IF f \in S THEN IF f \in bad THEN NoFile ELSE disk[f]
                                  ELSE index[f]]

Plan(t, d, f) == verdict' = [verdict EXCEPT ![t].disposition = d, ![t].filename = f]

\* The decision, under m_finalizeMutex: what the upload becomes, and where.
Decide(t) ==
  LET m == metaOf[own[t]]
      digest == verdict[t].sha256
      name == SafeName[m.name]
      first == <<name, 1>> IN
  /\ pc[t] = "decide" /\ finalizeMutex = Nil
  /\ \/ \E bad \in SUBSET (Recorded(digest) \cup {first}) :
        LET same == m.skip /\ first \notin bad /\ disk[first] = digest
            verified == Verified(digest, bad)
            stale == Recorded(digest) \ verified IN
        /\ finalizeMutex' = t
        /\ \/ \* the file of that name is the same file
              /\ same
              /\ Plan(t, "Duplicate", first) /\ Goto(t, "publish")
              /\ UNCHANGED <<index, suffix>>
           \/ \* some other file is
              /\ m.skip /\ ~same
              /\ \E f \in verified, S \in SUBSET stale :
                   Plan(t, "Duplicate", f) /\ index' = Corrected(S, bad)
              /\ Goto(t, "publish")
              /\ UNCHANGED suffix
           \/ \* no known file is, or duplicates are to be kept
              /\ ~same /\ (m.skip => verified = {})
              /\ index' = IF m.skip THEN Corrected(stale, bad) ELSE index
              /\ IF disk[first] = NoFile
                 THEN Plan(t, "Saved", first) /\ Goto(t, "publish") /\ UNCHANGED suffix
                 ELSE IF ~KeepBoth
                 THEN Plan(t, "NameConflict", first) /\ Goto(t, "publish") /\ UNCHANGED suffix
                 ELSE IF FreeNumbers(name) = {}
                 THEN Goto(t, "fail") /\ UNCHANGED <<verdict, suffix>>
                 ELSE \E n \in FreeNumbers(name) :
                      /\ \A k \in FreeNumbers(name) : n <= k
                      /\ Plan(t, "Saved", <<name, n>>)
                      /\ suffix' = [suffix EXCEPT ![name] = n + 1]
                      /\ Goto(t, "publish")
     \/ \* a file or inventory operation throws: the lock is already released
        \* when the catch block runs failFinalization
        /\ Goto(t, "fail")
        /\ UNCHANGED <<verdict, index, suffix, finalizeMutex>>
  /\ UNCHANGED <<maps, uploadVars, tmp, disk, published, hashCtx, dead, job, call,
                 cur, own, todo>>

\* storeHash: an inventory that fails is logged and leaves the outcome alone.
StoreHash(f, digest) ==
  \/ index' = [index EXCEPT ![f] = digest]
  \/ UNCHANGED index

\* Wrong: the rename replaces an existing file.
MayReplace(u, f) == tmp[u] # NoFile
\* publishTemporary: MoveFileEx without MOVEFILE_REPLACE_EXISTING.
MayRename(u, f) == tmp[u] # NoFile /\ disk[f] = NoFile

\* publishTemporary or removal of the temporary file, then storeHash; the end of
\* the scope releases m_finalizeMutex.  When it fails, failFinalization runs
\* before that.
Publish(t) ==
  LET u == own[t]
      v == verdict[t] IN
  /\ pc[t] = "publish"
  /\ \/ /\ v.disposition = "Saved" /\ MayRename(u, v.filename)
        /\ disk' = [disk EXCEPT ![v.filename] = tmp[u]]
        /\ tmp' = [tmp EXCEPT ![u] = NoFile]
        /\ published' = [published EXCEPT ![u] = @ \cup {<<v.filename, tmp[u]>>}]
        /\ StoreHash(v.filename, v.sha256)
        /\ finalizeMutex' = Nil
        /\ Goto(t, "complete")
     \/ /\ v.disposition # "Saved"
        /\ tmp' = [tmp EXCEPT ![u] = NoFile]
        /\ IF v.disposition = "Duplicate" THEN StoreHash(v.filename, v.sha256)
                                          ELSE UNCHANGED index
        /\ finalizeMutex' = Nil
        /\ Goto(t, "complete")
        /\ UNCHANGED <<disk, published>>
     \/ /\ Goto(t, "fail")
        /\ UNCHANGED <<tmp, disk, index, published, finalizeMutex>>
  /\ UNCHANGED <<maps, uploadVars, suffix, hashCtx, dead, job, call, cur, own, todo,
                 verdict>>

\* Wrong: completion keeps the reservation.
CompleteKeepingCharge(t) ==
  /\ pc[t] = "complete"
  /\ result' = [result EXCEPT ![cur[t]] = verdict[t]]
  /\ finalizing' = finalizing \ {cur[t]}
  /\ completed' = completed \cup {cur[t]}
  /\ Goto(t, "remember")
  /\ UNCHANGED <<maps, fixed, progress, failed, reserved, idle, open, writeMutex,
                 diskVars, miscVars, job, call, cur, own, todo, verdict>>
Complete(t) ==
  /\ pc[t] = "complete"
  /\ result' = [result EXCEPT ![cur[t]] = verdict[t]]
  /\ finalizing' = finalizing \ {cur[t]}
  /\ completed' = completed \cup {cur[t]}
  /\ reserved' = reserved \ {cur[t]}
  /\ Goto(t, "remember")
  /\ UNCHANGED <<maps, fixed, progress, failed, idle, open, writeMutex, diskVars,
                 miscVars, job, call, cur, own, todo, verdict>>

\* Wrong: a failed finalization is not marked failed.
FailWithoutFlag(t) ==
  /\ pc[t] = "fail"
  /\ open' = open \ {own[t]}
  /\ finalizing' = finalizing \ {cur[t]}
  /\ Goto(t, "retire")
  /\ UNCHANGED <<maps, fixed, progress, completed, failed, reserved, idle, result,
                 writeMutex, diskVars, miscVars, job, call, cur, own, todo, verdict>>
\* failFinalization, up to its call of retireTemporary.
FailFinalization(t) ==
  /\ pc[t] = "fail"
  /\ open' = open \ {own[t]}
  /\ finalizing' = finalizing \ {cur[t]}
  /\ failed' = failed \cup {cur[t]}
  /\ Goto(t, "retire")
  /\ UNCHANGED <<maps, fixed, progress, completed, reserved, idle, result, writeMutex,
                 diskVars, miscVars, job, call, cur, own, todo, verdict>>

----------------------------------------------------------------------------
(* abortMatching, retireTemporary and the reaper *)

Matched(M) == {handles[i] : i \in M} \ {Nil}

\* The first phase, under m_mutex: the handles of ids M are moved out and failed.
AbortMatching(t, M, j) ==
  LET S == Matched(M) IN
  /\ handles' = [i \in FileIds |-> IF i \in M THEN Nil ELSE handles[i]]
  /\ failed' = failed \cup S
  /\ job' = [job EXCEPT ![t] = j]
  /\ todo' = [todo EXCEPT ![t] = S]
  /\ Goto(t, "next")
  /\ call' = [call EXCEPT ![t] = NoCall]
  /\ cur' = [cur EXCEPT ![t] = Nil]
  /\ own' = [own EXCEPT ![t] = Nil]
  /\ UNCHANGED <<sessions, order, fixed, progress, finalizing, completed, reserved,
                 idle, result, open, writeMutex, diskVars, miscVars, verdict>>

AbortFile(t) == pc[t] = "abort" /\ AbortMatching(t, {call[t].id}, "abort")

\* A cancel request, and the SizeExceeded branch of the upload handler.
AbortFilesWithPrefix(t, o) ==
  /\ t \in Workers /\ pc[t] = "idle"
  /\ AbortMatching(t, {i \in FileIds : Owner[i] = o}, "abort")

RequestAbort(t, id) ==
  /\ t \in Workers /\ pc[t] = "idle"
  /\ AbortMatching(t, {id}, "abort")

\* Wrong: no handle is old enough to expire.
ExpireNothing == pc[Reaper] = "idle" /\ AbortMatching(Reaper, {}, "expire")
\* Wrong: undeleted temporary files are not collected.
ExpireWithoutSweep ==
  /\ pc[Reaper] = "idle"
  /\ AbortMatching(Reaper, {i \in FileIds : handles[i] # Nil /\ handles[i] \in idle},
                   "abort")
ExpireIdleFiles ==
  /\ pc[Reaper] = "idle"
  /\ AbortMatching(Reaper, {i \in FileIds : handles[i] # Nil /\ handles[i] \in idle},
                   "expire")

\* The loops over the moved handles, and over the sessions whose temporary file
\* could not be deleted before, which the reaper collects in between.
NextInLoop(t) ==
  /\ pc[t] = "next"
  /\ \/ \E u \in todo[t] :
          /\ todo' = [todo EXCEPT ![t] = @ \ {u}]
          /\ cur' = [cur EXCEPT ![t] = u]
          /\ call' = [call EXCEPT ![t] = [NoCall EXCEPT !.id = idOf[u]]]
          /\ Goto(t, IF job[t] = "sweep" THEN "retire" ELSE "close")
          /\ UNCHANGED <<job, own, verdict, writeMutex, finalizeMutex>>
     \/ /\ todo[t] = {} /\ job[t] = "expire"
        /\ todo' = [todo EXCEPT ![t] = Charged \cap failed]
        /\ job' = [job EXCEPT ![t] = "sweep"]
        /\ UNCHANGED <<pc, call, cur, own, verdict, writeMutex, finalizeMutex>>
     \/ /\ todo[t] = {} /\ job[t] # "expire"
        /\ Finish(t)
  /\ UNCHANGED <<maps, fixed, progress, flags, result, open, diskVars, suffix, hashCtx,
                 dead>>

\* Wrong: the writer's mutex is not taken before closing.
CloseWithoutMutex(t) ==
  LET u == cur[t] IN
  /\ pc[t] = "close"
  /\ hashCtx' = [hashCtx EXCEPT ![call[t].id] = NoFile]
  /\ open' = open \ {u}
  /\ finalizing' = finalizing \ {u}
  /\ failed' = failed \cup {u}
  /\ Goto(t, "retire")
  /\ UNCHANGED <<maps, fixed, progress, completed, reserved, idle, result, writeMutex,
                 diskVars, finalizeMutex, suffix, dead, job, call, cur, own, todo, verdict>>
\* The second phase for one handle, up to its call of retireTemporary.
CloseAborted(t) ==
  LET u == cur[t] IN
  /\ pc[t] = "close" /\ writeMutex[u] = Nil
  /\ writeMutex' = [writeMutex EXCEPT ![u] = t]
  /\ hashCtx' = [hashCtx EXCEPT ![call[t].id] = NoFile]
  /\ open' = open \ {u}
  /\ finalizing' = finalizing \ {u}
  /\ failed' = failed \cup {u}
  /\ Goto(t, "retire")
  /\ UNCHANGED <<maps, fixed, progress, completed, reserved, idle, result, diskVars,
                 finalizeMutex, suffix, dead, job, call, cur, own, todo, verdict>>

\* Where retireTemporary returns to: the loop it was called from, or the caller
\* of finalizeFileResult.
ReturnFromRetire(t) ==
  IF job[t] = "none" THEN Finish(t)
  ELSE /\ Goto(t, "next")
       /\ writeMutex' = Unlocked(t)
       /\ call' = [call EXCEPT ![t] = NoCall]
       /\ cur' = [cur EXCEPT ![t] = Nil]
       /\ UNCHANGED <<job, own, todo, verdict, finalizeMutex>>

\* Wrong: the charge ends although the deletion failed.
RetireUndeleted(t) ==
  LET u == cur[t] IN
  /\ pc[t] = "retire"
  /\ \/ /\ u \in reserved
        /\ tmp' \in {tmp, [tmp EXCEPT ![u] = NoFile]}
        /\ reserved' = reserved \ {u}
        /\ Goto(t, "remember")
        /\ UNCHANGED <<job, call, cur, own, todo, verdict, writeMutex, finalizeMutex>>
     \/ /\ u \notin reserved /\ ReturnFromRetire(t)
        /\ UNCHANGED <<tmp, reserved>>
  /\ UNCHANGED <<maps, fixed, progress, finalizing, completed, failed, idle, result,
                 open, disk, index, published, suffix, hashCtx, dead>>
\* retireTemporary under the FinalizationState's mutex.  Windows refuses to
\* delete a file that is open, and may refuse for other reasons.
RetireTemporary(t) ==
  LET u == cur[t] IN
  /\ pc[t] = "retire"
  /\ \/ /\ u \in reserved \ open
        /\ tmp' = [tmp EXCEPT ![u] = NoFile]
        /\ reserved' = reserved \ {u}
        /\ Goto(t, "remember")
        /\ UNCHANGED <<job, call, cur, own, todo, verdict, writeMutex, finalizeMutex>>
     \/ /\ ReturnFromRetire(t)
        /\ UNCHANGED <<tmp, reserved>>
  /\ UNCHANGED <<maps, fixed, progress, finalizing, completed, failed, idle, result,
                 open, disk, index, published, suffix, hashCtx, dead>>

RememberCompleted(t) ==
  /\ pc[t] = "remember"
  /\ RememberCompletedSession(sessions, call[t].id)
  /\ ReturnFromRetire(t)
  /\ UNCHANGED <<handles, fixed, progress, flags, result, open, diskVars, suffix,
                 hashCtx, dead>>

----------------------------------------------------------------------------
(* Time, the outside world, and the life of the process *)

TimePasses(u) ==
  /\ \E i \in FileIds : handles[i] = u
  /\ u \notin idle
  /\ idle' = idle \cup {u}
  /\ UNCHANGED <<maps, fixed, progress, finalizing, completed, failed, reserved,
                 result, open, writeMutex, diskVars, miscVars, threadVars>>

\* Somebody creates, changes or deletes a file of the upload directory.
ExternalChange(f, content) ==
  /\ disk[f] # content
  /\ disk' = [disk EXCEPT ![f] = content]
  /\ UNCHANGED <<maps, uploadVars, miscVars, threadVars, tmp, index, published>>

\* The inventory thread records the digest of a file it finds changed.
IndexFile(f) ==
  /\ index[f] # disk[f]
  /\ index' = [index EXCEPT ![f] = disk[f]]
  /\ UNCHANGED <<maps, uploadVars, miscVars, threadVars, tmp, disk, published>>

\* The process ends, at any point, and a new one starts: FileWriter's
\* constructor deletes the temporary files it finds (a deletion may fail) and
\* reconciles the inventory with the directory.
Restart ==
  /\ Restarts
  /\ handles' = [i \in FileIds |-> Nil]
  /\ sessions' = [i \in FileIds |-> Nil]
  /\ order' = <<>>
  /\ open' = {}
  /\ writeMutex' = [u \in Uploads |-> Nil]
  /\ finalizeMutex' = Nil
  /\ suffix' = [n \in DOMAIN suffix |-> 0]
  /\ hashCtx' = [i \in FileIds |-> NoFile]
  /\ \E kept \in SUBSET {u \in Uploads : tmp[u] # NoFile} :
       tmp' = [u \in Uploads |-> IF u \in kept THEN tmp[u] ELSE NoFile]
  /\ index' = [f \in Filenames |-> IF index[f] = disk[f] THEN index[f] ELSE NoFile]
  /\ dead' = {u \in Uploads : idOf[u] # Nil}
  /\ pc' = [t \in Threads |-> "idle"]
  /\ job' = [t \in Threads |-> "none"]
  /\ call' = [t \in Threads |-> NoCall]
  /\ cur' = [t \in Threads |-> Nil]
  /\ own' = [t \in Threads |-> Nil]
  /\ todo' = [t \in Threads |-> {}]
  /\ verdict' = [t \in Threads |-> NoVerdict]
  /\ UNCHANGED <<fixed, progress, flags, result, disk, published>>

Request(t) ==
  \/ \E id \in FileIds, i \in 0 .. MaxChunks - 1, n \in ChunkSizes, d \in Data :
       WriteChunk(t, id, i, n, d)
  \/ \E id \in FileIds : FinalizeFile(t, id) \/ RequestAbort(t, id)
  \/ \E o \in {Owner[i] : i \in FileIds} : AbortFilesWithPrefix(t, o)

ThreadStep(t) ==
  \/ WriteLocked(t) \/ WriteMappedRange(t) \/ CommitChunk(t) \/ AwaitReturn(t)
  \/ FinalizeLocked(t) \/ Seal(t) \/ Decide(t) \/ Publish(t) \/ Complete(t)
  \/ FailFinalization(t) \/ AbortFile(t) \/ NextInLoop(t) \/ CloseAborted(t)
  \/ RetireTemporary(t) \/ RememberCompleted(t)

Environment ==
  \/ \E u \in Uploads : TimePasses(u)
  \/ \E f \in Filenames : IndexFile(f)
  \/ \E f \in Filenames, c \in External : ExternalChange(f, c)
  \/ Restart

Next ==
  \/ \E id \in FileIds, m \in Metas : InitFile(id, m)
  \/ \E t \in Workers : Request(t)
  \/ ExpireIdleFiles
  \/ \E t \in Threads : ThreadStep(t)
  \/ Environment

Spec == Init /\ [][Next]_vars

----------------------------------------------------------------------------
(* Properties *)

Maybe(S) == S \cup {Nil}
Calls == [id : Maybe(FileIds), index : Nat, size : Nat, data : Data \cup {Blank},
          offset : Nat, hashed : BOOLEAN]
Verdicts == [disposition : Dispositions, filename : Maybe(Filenames),
             sha256 : Contents \cup {NoFile}]
Labels == {"idle", "writeLock", "write", "commit", "await", "finalLock", "seal",
           "decide", "publish", "complete", "fail", "abort", "next", "close",
           "retire", "remember"}

MapTypes ==
  /\ handles \in [FileIds -> Maybe(Uploads)]
  /\ sessions \in [FileIds -> Maybe(Uploads)]
  /\ order \in Seq(FileIds)
  /\ hashCtx \in [FileIds -> Contents \cup {NoFile}]
  /\ suffix \in [{SafeName[x] : x \in DOMAIN SafeName} -> Nat]
UploadTypes ==
  /\ idOf \in [Uploads -> Maybe(FileIds)]
  /\ metaOf \in [Uploads -> Maybe(Metas)]
  /\ \A u \in Uploads : idOf[u] = Nil <=> metaOf[u] = Nil
  /\ bytes \in [Uploads -> Nat]
  /\ sizes \in [Uploads -> Seq(Nat)]
  /\ finalizing \subseteq Uploads /\ completed \subseteq Uploads
  /\ failed \subseteq Uploads /\ reserved \subseteq Uploads
  /\ idle \subseteq Uploads /\ hashValid \subseteq Uploads
  /\ open \subseteq Uploads /\ dead \subseteq Uploads
  /\ result \in [Uploads -> Verdicts]
DiskTypes ==
  /\ tmp \in [Uploads -> Contents \cup {NoFile}]
  /\ disk \in [Filenames -> Contents \cup {NoFile}]
  /\ index \in [Filenames -> Contents \cup {NoFile}]
  /\ published \in [Uploads -> SUBSET (Filenames \X Contents)]
ThreadTypes ==
  /\ writeMutex \in [Uploads -> Maybe(Threads)]
  /\ finalizeMutex \in Maybe(Threads)
  /\ pc \in [Threads -> Labels]
  /\ job \in [Threads -> {"none", "abort", "expire", "sweep"}]
  /\ call \in [Threads -> Calls]
  /\ cur \in [Threads -> Maybe(Uploads)]
  /\ own \in [Threads -> Maybe(Uploads)]
  /\ todo \in [Threads -> SUBSET Uploads]
  /\ verdict \in [Threads -> Verdicts]

\* The values the variables of the writer take: what m_handles, m_sessions, the
\* handles and the threads of FileWriter.cpp may hold.
TypeOK == MapTypes /\ UploadTypes /\ DiskTypes /\ ThreadTypes

\* A temporary file that this process created stays charged to its client: it
\* has a session in m_sessions and the session is reserved.  So neither a
\* failed deletion, an abort nor an eviction releases disk space that is still
\* occupied (initFile "must remain charged until the reaper ... deletes it").
TempIsCharged == \A u \in Live : tmp[u] # NoFile => u \in Charged

Temporaries == {u \in Live : tmp[u] # NoFile}

\* What the admission limits on files are for: the temporary files that really
\* exist never outnumber them, for the server and for each client.
WithinFileLimits ==
  /\ Cardinality(Temporaries) <= MaxActiveFiles
  /\ \A o \in {Owner[i] : i \in FileIds} :
       Cardinality({u \in Temporaries : Owner[idOf[u]] = o}) <= MaxOwnerFiles

\* The same of the limits on bytes, which initFile compares with a sum over the
\* sessions it still charges.
WithinByteLimits ==
  /\ BytesOf(Temporaries) <= MaxReservedBytes
  /\ \A o \in {Owner[i] : i \in FileIds} :
       BytesOf({u \in Temporaries : Owner[idOf[u]] = o}) <= MaxOwnerBytes

\* A thread that copies into a mapping finds it open: neither an abort, the
\* reaper nor a finalization closes it or deletes its file meanwhile.
NoWriteAfterClose ==
  \A t \in Threads : pc[t] = "write" => own[t] \in open /\ tmp[own[t]] # NoFile

\* At most one thread copies into an upload, and the place it chose is still
\* the end of what was accepted when it gets to commit the chunk.
SerialWrites ==
  \A t \in Threads : pc[t] \in {"write", "commit"} =>
    /\ call[t].offset = bytes[own[t]]
    /\ \A r \in Threads \ {t} : pc[r] \in {"write", "commit"} => own[r] # own[t]

\* Of an upload at most one file is published; it is complete, has no byte
\* that was never written, and the digest reported for it is its own.
SavedIntact ==
  \A u \in Uploads :
    /\ Cardinality(published[u]) <= 1
    /\ \A p \in published[u] :
         /\ Len(p[2]) = metaOf[u].size
         /\ \A k \in 1 .. Len(p[2]) : p[2][k] # Blank
         /\ u \in completed =>
              result[u] = [disposition |-> "Saved", filename |-> p[1], sha256 |-> p[2]]

\* An upload whose abort or failure was reported has left no file behind, and
\* one reported as saved has.
NoPublishAfterFailure ==
  \A u \in Uploads :
    /\ u \in failed => published[u] = {} /\ u \notin completed
    /\ u \in completed /\ result[u].disposition = "Saved" => published[u] # {}

\* As long as nobody else touches the directory, a completed upload's content
\* is in it, under the name reported to the client.
CompletedIsStored ==
  \A u \in completed :
    result[u].disposition \in {"Saved", "Duplicate"} =>
      disk[result[u].filename] = result[u].sha256

\* The server never changes or removes a file that is already in the directory:
\* its renames do not replace, even one that appeared after the name was chosen.
NeverReplaces ==
  [][(\E t \in Threads : ThreadStep(t)) =>
       \A f \in Filenames : disk[f] # NoFile => disk'[f] = disk[f]]_vars

\* A session's outcome is final: retries that wait for it all get the same one.
OutcomeIsFinal ==
  [][/\ failed \subseteq failed' /\ completed \subseteq completed'
     /\ failed' \cap completed' = {}
     /\ \A u \in completed : result'[u] = result[u]]_vars

\* Threads that are responsible for an upload that has left m_handles.
Finalizing(t) == pc[t] \in {"seal", "decide", "publish", "complete", "fail"}
Handles(t, u) ==
  \/ u \in todo[t]
  \/ cur[t] = u /\ (Finalizing(t) \/ pc[t] \in {"close", "retire", "remember"})

\* No reservation is lost: an upload that is charged has a handle, or a thread
\* that will finish it, or is failed, so that the reaper collects it.  Nor is
\* one forgotten: a session enters the eviction queue once, after its outcome is
\* known and its disk space is released.
NoStrandedReservation ==
  /\ \A u \in Charged :
       \/ handles[idOf[u]] = u
       \/ u \in failed
       \/ \E t \in Threads : Handles(t, u)
  /\ \A i, j \in 1 .. Len(order) : i # j => order[i] # order[j]
  /\ \A k \in 1 .. Len(order) :
       LET u == sessions[order[k]] IN
       /\ u # Nil /\ handles[order[k]] = Nil
       /\ u \in (failed \cup completed) \ reserved
=============================================================================
