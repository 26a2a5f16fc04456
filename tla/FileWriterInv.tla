---------------------------- MODULE FileWriterInv ----------------------------
(***************************************************************************)
(* The inductive invariant behind the safety properties of FileWriter.     *)
(* Every upload of the process is in one phase at a time, and whoever may  *)
(* change it knows which: it is active while m_handles names it; the       *)
(* finalizer that moved its handle out is the only one, and no writer is   *)
(* left in its mapping; an aborted or failed one is marked failed before   *)
(* any thread closes it.  Until its space is released, m_sessions names it.*)
(* This needs ids that are not reused after an eviction.                   *)
(***************************************************************************)
EXTENDS FileWriter

IsActive(u) == \E i \in FileIds : handles[i] = u

MapsAgree ==
  \A i \in FileIds :
    /\ sessions[i] # Nil => sessions[i] \in Live /\ idOf[sessions[i]] = i
    /\ handles[i] # Nil => handles[i] = sessions[i]

IdsUnique == \A u, v \in Live : idOf[u] = idOf[v] => u = v

FreshIsClean ==
  \A u \in Fresh :
    /\ tmp[u] = NoFile /\ published[u] = {}
    /\ u \notin finalizing \cup completed \cup failed \cup reserved \cup dead

ActiveIsIntact ==
  \A u \in Uploads : IsActive(u) =>
    /\ u \in open \cap reserved
    /\ u \notin finalizing \cup completed \cup failed
    /\ tmp[u] # NoFile /\ published[u] = {}

ReservationsKept ==
  /\ \A u \in Live : tmp[u] # NoFile => u \in reserved
  /\ \A u \in Live : u \in reserved => sessions[idOf[u]] = u
  /\ \A k \in 1 .. Len(order) :
       /\ \E u \in Live : idOf[u] = order[k]
       /\ sessions[order[k]] \notin reserved

Writing(t) == pc[t] \in {"write", "commit"}

\* What a thread's pointers stand for, and what it knows of its upload.
PointerGood(t) ==
  /\ todo[t] \subseteq Live /\ todo[t] \subseteq failed
  /\ pc[t] \notin {"idle", "abort", "next"} =>
       cur[t] \in Live /\ call[t].id = idOf[cur[t]]
  /\ pc[t] = "abort" => call[t].id \in FileIds
  /\ pc[t] \in {"close", "retire"} => cur[t] \in failed
  /\ pc[t] = "remember" => cur[t] \notin reserved

WriterGood(t) ==
  /\ Writing(t) =>
       /\ own[t] = cur[t] /\ writeMutex[cur[t]] = t
       /\ call[t].offset = bytes[cur[t]]
  /\ pc[t] = "write" => cur[t] \in open /\ tmp[cur[t]] # NoFile

FinalizerGood(t) ==
  /\ Finalizing(t) =>
       /\ own[t] = cur[t]
       /\ cur[t] \in finalizing \ (completed \cup failed)
       /\ pc[t] # "complete" => published[cur[t]] = {}
  /\ pc[t] = "publish" => verdict[t].filename \in Filenames
  /\ pc[t] = "complete" =>
       /\ tmp[cur[t]] = NoFile
       /\ verdict[t].disposition = "Saved" => published[cur[t]] # {}

ThreadGood(t) == PointerGood(t) /\ WriterGood(t) /\ FinalizerGood(t)
ThreadsGood == \A t \in Threads : ThreadGood(t)

\* A finalizer shares its upload with no other finalizer and with no writer.
OneFinalizer ==
  \A t, r \in Threads :
    Finalizing(t) /\ (Finalizing(r) \/ Writing(r)) /\ cur[r] = cur[t] => r = t

OutcomesGood ==
  /\ failed \cap completed = {}
  /\ \A u \in failed : published[u] = {}
  /\ \A u \in completed : result[u].disposition = "Saved" => published[u] # {}

\* The conjuncts that speak of no thread.
UploadsGood ==
  /\ MapsAgree /\ IdsUnique /\ FreshIsClean /\ ActiveIsIntact /\ ReservationsKept
  /\ OutcomesGood

IInv == TypeOK /\ UploadsGood /\ ThreadsGood /\ OneFinalizer

----------------------------------------------------------------------------
(* What is in the files.  A temporary file has its announced size, and the  *)
(* bytes counted in bytesWritten are the ones received; the streaming hash  *)
(* has seen exactly those, or also the chunk that is about to be committed. *)

Streamed(u, n) ==
  LET h == hashCtx[idOf[u]] IN
  /\ h # NoFile /\ Len(h) = n
  /\ \A k \in 1 .. n : h[k] = tmp[u][k]
FilledTo(u, n) == \A k \in 1 .. n : tmp[u][k] # Blank

\* The committing thread whose chunk the streaming hash has already seen.
HashesAhead(t, u) == pc[t] = "commit" /\ cur[t] = u /\ call[t].hashed
Sealing(u) == \E t \in Threads : pc[t] = "seal" /\ cur[t] = u

TmpGood(u) ==
  tmp[u] # NoFile =>
    /\ Len(tmp[u]) = metaOf[u].size /\ bytes[u] <= metaOf[u].size
    /\ FilledTo(u, bytes[u])
StreamGood(u) ==
  /\ u \in hashValid /\ (IsActive(u) \/ Sealing(u))
  /\ \A t \in Threads : ~HashesAhead(t, u)
  => Streamed(u, bytes[u])

ChunkGood(t) ==
  LET u == cur[t]
      n == bytes[u] + call[t].size IN
  /\ pc[t] \in {"writeLock", "write", "commit"} => call[t].data \in Data
  /\ Writing(t) => n <= metaOf[u].size
  /\ pc[t] = "commit" /\ tmp[u] # NoFile => FilledTo(u, n)
  /\ HashesAhead(t, u) /\ u \in hashValid /\ IsActive(u) => Streamed(u, n)

\* From the moment its handle is moved out an upload is complete, and the
\* digest decided on is the one of its temporary file.
DigestGood(t) ==
  LET u == cur[t]
      v == verdict[t] IN
  /\ pc[t] \in {"seal", "decide", "publish"} =>
       tmp[u] # NoFile /\ bytes[u] = metaOf[u].size
  /\ pc[t] \in {"decide", "publish"} => v.sha256 = tmp[u]
  /\ pc[t] = "complete" =>
       published[u] = IF v.disposition = "Saved" THEN {<<v.filename, v.sha256>>} ELSE {}

PublishedGood(u) ==
  /\ \A p, q \in published[u] : p = q
  /\ \A p \in published[u] :
       Len(p[2]) = metaOf[u].size /\ \A k \in 1 .. Len(p[2]) : p[2][k] # Blank
  /\ u \in completed =>
       published[u] = IF result[u].disposition = "Saved"
                      THEN {<<result[u].filename, result[u].sha256>>} ELSE {}

FreshIsEmpty == \A u \in Fresh : bytes[u] = 0 /\ u \notin hashValid

ContentInv ==
  /\ FreshIsEmpty
  /\ \A u \in Live : TmpGood(u) /\ StreamGood(u)
  /\ \A t \in Threads : ChunkGood(t) /\ DigestGood(t)
  /\ \A u \in Uploads : PublishedGood(u)

----------------------------------------------------------------------------
(* What is remembered.  A charged upload has a handle, a finalizer or the  *)
(* mark that the reaper looks for; the queue of released sessions names    *)
(* each once, and so do the threads that are about to add to it.           *)

Queued(id) == \E k \in 1 .. Len(order) : order[k] = id

ReservedGood ==
  /\ \A u \in Live : u \in reserved =>
       IsActive(u) \/ u \in failed \/ \E t \in Threads : Finalizing(t) /\ cur[t] = u
  /\ \A t \in Threads : Finalizing(t) => cur[t] \in reserved

QueueGood ==
  /\ \A i, j \in 1 .. Len(order) : order[i] = order[j] => i = j
  /\ \A k \in 1 .. Len(order) :
       /\ sessions[order[k]] # Nil /\ handles[order[k]] = Nil
       /\ sessions[order[k]] \in (failed \cup completed) \ reserved

RememberGood ==
  \A t \in Threads : pc[t] = "remember" =>
    /\ cur[t] \in failed \cup completed
    /\ sessions[idOf[cur[t]]] = cur[t] /\ ~Queued(idOf[cur[t]])
    /\ \A r \in Threads : pc[r] = "remember" /\ cur[r] = cur[t] => r = t

QueueInv == ReservedGood /\ QueueGood /\ RememberGood

\* All that the proofs rest on, at every step of initFile, writeChunk,
\* finalizeFileResult, the aborts and the reaper: who may touch an upload, what its
\* file holds, and which sessions m_completedSessionOrder names.
FullInv == IInv /\ ContentInv /\ QueueInv

----------------------------------------------------------------------------
(* When nobody else touches the directory, what was found or put there is  *)
(* still there.                                                            *)

InPlace(v) ==
  v.filename \in Filenames /\ v.sha256 # NoFile /\ disk[v.filename] = v.sha256

\* From the decision for a duplicate on, and from the rename on.
KnownInPlace(t) ==
  \/ pc[t] = "publish" /\ verdict[t].disposition = "Duplicate"
  \/ pc[t] = "complete" /\ verdict[t].disposition \in {"Saved", "Duplicate"}

\* Both hold from then on, and of every result that was remembered.
StoredInv ==
  /\ \A t \in Threads : KnownInPlace(t) => InPlace(verdict[t])
  /\ \A u \in completed :
       result[u].disposition \in {"Saved", "Duplicate"} => InPlace(result[u])
=============================================================================
