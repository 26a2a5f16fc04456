------------------------- MODULE DuplicatePreflight -------------------------
(***************************************************************************)
(* The duplicate preflight of the iPhone app, window after window of one    *)
(* transfer (runDuplicatePreflightWindow), with the uploads its decisions   *)
(* lead to running beside the later windows.                                *)
(*                                                                          *)
(* A file is its position in picker order, its bytes are a content, and two *)
(* files have the same SHA-256 when they have the same content. Requests    *)
(* are split into batches in the code; a batch only groups answers that may *)
(* each be anything, so one step stands for all the batches of a stage.     *)
(*                                                                          *)
(* A definition marked "Wrong:" belongs to no specification: it is an       *)
(* operation with a mistake that one of the properties excludes.            *)
(***************************************************************************)
EXTENDS Integers, Sequences

CONSTANTS
    WindowOf,  \* the preparation window of each file, in picker order
    Contents,
    SizeOf     \* size of each content: only equal sizes are local candidates

ASSUME WindowAssumption ==
    /\ WindowOf \in Seq(Nat \ {0})
    /\ \A f, g \in DOMAIN WindowOf : f < g => WindowOf[f] <= WindowOf[g]
ASSUME SizeAssumption == SizeOf \in [Contents -> Nat]

VARIABLES
    native,     \* the native module is installed
    skipping,   \* shouldSkipDuplicates
    content,    \* the bytes of each file
    stored,     \* contents on the receiver's disk
    window,     \* the window being checked
    stage,      \* what the window waits for
    decision,   \* preflightResults
    receiverCandidates,
    hashed,     \* computedHashes
    unhashed,   \* hashFailureCodes
    matched,    \* matchedFilenames of receiver matches, in the current window
    outgoingHashes, \* the registry shared by the windows of the transfer
    result      \* the outcome reported for each file

vars == <<native, skipping, content, stored, window, stage, decision, receiverCandidates,
          hashed, unhashed, matched, outgoingHashes, result>>

Files == DOMAIN WindowOf
Batch == {f \in Files : WindowOf[f] = window}

Init ==
    /\ native \in BOOLEAN
    /\ skipping \in BOOLEAN
    /\ content \in [Files -> Contents]
    /\ stored \in SUBSET Contents
    /\ window = 1
    /\ stage = "metadata"
    /\ decision = [f \in Files |-> "none"]
    /\ receiverCandidates = {}
    /\ hashed = {}
    /\ unhashed = {}
    /\ matched = {}
    /\ outgoingHashes = [c \in Contents |-> "none"]
    /\ result = [f \in Files |-> "none"]
-----------------------------------------------------------------------------
(* The receiver. It names a match only for bytes that are on its disk; it   *)
(* may miss one (a stale inventory, an inconclusive verification).          *)

Answers(f) == {"upload"} \cup IF content[f] \in stored THEN {"skip", "skip-unnamed"} ELSE {}

Skips(answer) == answer \in {"skip", "skip-unnamed"}

\* The decision an answer is turned into; a file missing from the answer, like
\* an inconclusive one, is uploaded.
Decided(answer) == IF Skips(answer) THEN "skip" ELSE "upload"
-----------------------------------------------------------------------------
\* The window is settled and the next one begins.
NextWindow ==
    /\ window' = window + 1
    /\ stage' = "metadata"

\* With duplicate skipping off every file is uploaded unseen.
Bypass ==
    /\ stage = "metadata"
    /\ Batch # {}
    /\ ~skipping
    /\ decision' = [f \in Files |-> IF f \in Batch THEN "upload" ELSE decision[f]]
    /\ NextWindow
    /\ UNCHANGED <<native, skipping, content, stored, receiverCandidates, hashed, unhashed,
                   matched, outgoingHashes, result>>

\* preflightCheck answers, or fails and everything is uploaded. Files the
\* receiver may have are candidates. Without the native module they are
\* uploaded, for nothing can hash them.
Metadata ==
    /\ stage = "metadata"
    /\ Batch # {}
    /\ skipping
    /\ \E candidates \in SUBSET Batch :
       \E answer \in [Batch \ candidates -> {"upload", "skip", "skip-unnamed"}] :
         /\ \A f \in DOMAIN answer : answer[f] \in Answers(f)
         /\ decision' = [f \in Files |-> IF f \in DOMAIN answer THEN Decided(answer[f])
                                         ELSE IF f \in candidates
                                              THEN IF native THEN "hash_required" ELSE "upload"
                                              ELSE decision[f]]
         /\ matched' = {f \in DOMAIN answer : answer[f] = "skip"}
         /\ receiverCandidates' = candidates
    /\ IF native
       THEN stage' = "hash" /\ UNCHANGED window
       ELSE NextWindow
    /\ UNCHANGED <<native, skipping, content, stored, hashed, unhashed, outgoingHashes, result>>

\* localCandidateIds: the files of the window that share their size with another.
LocalCandidates ==
    {f \in Batch : \E g \in Batch \ {f} : SizeOf[content[g]] = SizeOf[content[f]]}

\* hashPreparedFiles: each candidate is hashed, fails (a file that changed is
\* tried once more; a rejected call fails its whole batch), or is cancelled.
Hash ==
    /\ stage = "hash"
    /\ \E ok, failed \in SUBSET (LocalCandidates \cup receiverCandidates) :
         /\ ok \cap failed = {}
         /\ hashed' = hashed \cup ok
         /\ unhashed' = unhashed \cup failed
    /\ stage' = "verify"
    /\ UNCHANGED <<native, skipping, content, stored, window, decision, receiverCandidates,
                   matched, outgoingHashes, result>>

\* preflightVerify answers for the hashed receiver candidates, or fails and
\* they are uploaded; a candidate without a hash is uploaded.
Verify ==
    /\ stage = "verify"
    /\ \E answer \in [receiverCandidates \cap hashed -> {"upload", "skip", "skip-unnamed"}] :
         /\ \A f \in DOMAIN answer : answer[f] \in Answers(f)
         /\ decision' = [f \in Files |-> IF f \in DOMAIN answer THEN Decided(answer[f])
                                         ELSE IF f \in receiverCandidates THEN "upload"
                                         ELSE decision[f]]
         /\ matched' = matched \cup {f \in DOMAIN answer : answer[f] = "skip"}
    /\ stage' = "resolve"
    /\ UNCHANGED <<native, skipping, content, stored, window, receiverCandidates, hashed,
                   unhashed, outgoingHashes, result>>

\* The hashed files of the window with content c.
Group(c) == {f \in Batch \cap hashed : content[f] = c}

ReceiverMatch(c) == Group(c) \cap matched # {} \/ outgoingHashes[c] = "receiver"

\* Wrong: every file of the group is a duplicate of another, the first too.
DuplicateOfAny(f) ==
    \/ ReceiverMatch(content[f])
    \/ outgoingHashes[content[f]] = "outgoing"
    \/ \E g \in Group(content[f]) : g # f

\* Wrong: earlier windows are forgotten.
DuplicateInWindow(f) ==
    \/ ReceiverMatch(content[f])
    \/ \E g \in Group(content[f]) : g < f

\* One content of the window: all of it is skipped when the receiver has it or
\* an earlier window sends it; otherwise all but the first in picker order.
Duplicate(f) ==
    LET c == content[f]
    IN \/ ReceiverMatch(c)
       \/ outgoingHashes[c] = "outgoing"
       \/ \E g \in Group(c) : g < f

Resolve ==
    /\ stage = "resolve"
    /\ decision' = [f \in Files |-> IF f \in Batch \cap hashed /\ Duplicate(f)
                                    THEN "skip" ELSE decision[f]]
    /\ outgoingHashes' = [c \in Contents |->
                            IF Group(c) = {} THEN outgoingHashes[c]
                            ELSE IF ReceiverMatch(c) THEN "receiver"
                            ELSE "outgoing"]
    /\ NextWindow
    /\ matched' = {}
    /\ receiverCandidates' = {}
    /\ UNCHANGED <<native, skipping, content, stored, hashed, unhashed, result>>

Checked(f) == WindowOf[f] < window

\* The worker settles a file of a checked window: a skipped one at once, one
\* that could not be hashed as failed, any other by uploading it.
Transfer(f) ==
    /\ Checked(f)
    /\ result[f] = "none"
    /\ IF decision[f] = "skip"
       THEN result' = [result EXCEPT ![f] = "skipped"] /\ UNCHANGED stored
       ELSE IF f \in unhashed
            THEN result' = [result EXCEPT ![f] = "failed"] /\ UNCHANGED stored
            ELSE \/ /\ result' = [result EXCEPT ![f] = "saved"]
                    /\ stored' = stored \cup {content[f]}
                 \/ /\ result' = [result EXCEPT ![f] = "failed"]
                    /\ UNCHANGED stored
    /\ UNCHANGED <<native, skipping, content, window, stage, decision, receiverCandidates,
                   hashed, unhashed, matched, outgoingHashes>>

\* A preflight request answered 401 ends the preflight and the transfer.
Unauthorized ==
    /\ stage \in {"metadata", "verify"}
    /\ Batch # {}
    /\ skipping
    /\ stage' = "aborted"
    /\ UNCHANGED <<native, skipping, content, stored, window, decision, receiverCandidates,
                   hashed, unhashed, matched, outgoingHashes, result>>

Next ==
    \/ Unauthorized
    \/ Bypass \/ Metadata \/ Hash \/ Verify \/ Resolve
    \/ \E f \in Files : Transfer(f)

Spec == Init /\ [][Next]_vars
-----------------------------------------------------------------------------
\* The decisions of a checked window are final: skip or upload.
TypeOK ==
    /\ stage \in {"metadata", "hash", "verify", "resolve", "aborted"}
    /\ stored \subseteq Contents
    /\ decision \in [Files -> {"none", "hash_required", "upload", "skip"}]
    /\ \A f \in Files : Checked(f) => decision[f] \in {"upload", "skip"}
    /\ hashed \subseteq Files /\ unhashed \subseteq Files
    /\ outgoingHashes \in [Contents -> {"none", "outgoing", "receiver"}]
    /\ result \in [Files -> {"none", "saved", "skipped", "failed"}]

\* A skipped file rests on something: the receiver has its bytes, or another
\* file with the same bytes is still to be uploaded by this transfer or is
\* reported as failed. Skipping never loses bytes without a word, although the
\* file it was skipped for may fail long after the decision.
SkipIsBacked ==
    \A f \in Files : (Checked(f) /\ decision[f] = "skip") =>
       \/ content[f] \in stored
       \/ \E g \in Files : /\ content[g] = content[f]
                           /\ Checked(g) /\ decision[g] = "upload"
                           /\ result[g] \in {"none", "failed"}

\* The files of one transfer that were hashed to the same content are sent at
\* most once, across windows.
OneUploadPerHash ==
    \A f, g \in hashed : (f # g /\ content[f] = content[g] /\ Checked(f) /\ Checked(g)) =>
       ~(decision[f] = "upload" /\ decision[g] = "upload")
=============================================================================
