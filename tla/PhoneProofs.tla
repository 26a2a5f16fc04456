----------------------------- MODULE PhoneProofs -----------------------------
(***************************************************************************)
(* Proofs about the phone's side of a transfer, for any library, selection *)
(* and number of files.  The check for duplicates (DuplicatePreflight): a  *)
(* skipped file is backed, and hashed duplicates are sent once.  The       *)
(* picker (MediaSelection) and the transfer screen (TransferScreen), as    *)
(* PickAndTransfer joins them: the grid shows its own album, a drag        *)
(* changes exactly the cells it has crossed, the results of a transfer add *)
(* up, and a screen is quiet once its transfer has ended.                  *)
(***************************************************************************)
EXTENDS DuplicatePreflight, PickAndTransfer, FiniteSetTheorems,
        WellFoundedInduction, TLAPS

\* A leaf is for Zenon, with a minute of time, unless it names SMT.
USE ZenonT(60)

-----------------------------------------------------------------------------
(* The preflight: its invariant *)

PreflightTypes ==
    /\ TypeOK
    /\ window \in Nat
    /\ content \in [Files -> Contents]
    /\ matched \subseteq Files /\ receiverCandidates \subseteq Files

\* Content c is on the receiver, or a file with it is still to be uploaded by
\* the transfer or is reported as failed.
Backed(c) ==
    \/ c \in stored
    \/ \E g \in Files : /\ content[g] = c
                        /\ Checked(g) /\ decision[g] = "upload"
                        /\ result[g] \in {"none", "failed"}

\* What the current window knows.  Its skips so far rest on stored bytes; after
\* "verify" every file is decided; candidates and hashes are its own.
WindowIsSound ==
    /\ \A f \in Files : result[f] # "none" => Checked(f)
    /\ \A f \in Files : ~Checked(f) /\ decision[f] = "skip" => content[f] \in stored
    /\ \A f \in matched : content[f] \in stored
    /\ stage \in {"hash", "verify"} =>
          /\ receiverCandidates \subseteq Batch
          /\ \A f \in Batch : \/ decision[f] \in {"upload", "skip"}
                              \/ f \in receiverCandidates
    /\ stage = "resolve" => \A f \in Batch : decision[f] \in {"upload", "skip"}
    /\ \A f \in hashed : \/ Checked(f)
                         \/ f \in Batch /\ stage \in {"verify", "resolve", "aborted"}

\* What the registry says of a content is true, and it knows the contents of
\* all hashed files of earlier windows.
RegistryIsSound ==
    /\ \A c \in Contents : outgoingHashes[c] = "receiver" => c \in stored
    /\ \A c \in Contents : outgoingHashes[c] = "outgoing" => Backed(c)
    /\ \A f \in hashed : Checked(f) => outgoingHashes[content[f]] # "none"

PreflightInv ==
    /\ PreflightTypes
    /\ WindowIsSound
    /\ RegistryIsSound
    /\ SkipIsBacked
    /\ OneUploadPerHash

-----------------------------------------------------------------------------
(* The preflight: facts about files *)

\* Files are positive numbers, and a file has one window.
LEMMA FilesAreNumbers ==
    /\ Files \subseteq Nat
    /\ \A f \in Files : WindowOf[f] \in Nat \ {0}
BY SMTT(60), WindowAssumption DEF Files

\* A group that is not empty has a first file in picker order.
LEMMA FirstOfGroup ==
    ASSUME NEW S, S \subseteq Nat, S # {}
    PROVE  \E f \in S : \A g \in S : ~(g < f)
<1> DEFINE R == {p \in Nat \X Nat : p[1] < p[2]}
<1>1. IsWellFoundedOn(R, Nat)
  BY NatLessThanWellFounded DEF OpToRel
<1>2. \E f \in S : \A g \in S : ~(<<g, f>> \in R)
  <2> HIDE DEF R
  <2> QED BY <1>1, WFMin
<1>3. ASSUME NEW f \in S, NEW g \in S, g < f
      PROVE  <<g, f>> \in R
  BY <1>3
<1> QED BY <1>2, <1>3

\* The window moves on: its files are the ones checked in addition.
LEMMA WindowMoves ==
    ASSUME PreflightTypes, window' = window + 1
    PROVE  \A f \in Files : Checked(f)' <=> (Checked(f) \/ f \in Batch)
BY SMTT(60), FilesAreNumbers DEF PreflightTypes, Checked, Batch

\* While the window stays, so does what is checked.
LEMMA WindowStays ==
    ASSUME window' = window
    PROVE  /\ \A f \in Files : Checked(f)' <=> Checked(f)
           /\ Batch' = Batch
           /\ \A f \in Batch : ~Checked(f)
BY SMTT(60), FilesAreNumbers DEF Checked, Batch

-----------------------------------------------------------------------------
(* The preflight: the steps *)

\* The invariant holds before the first window.
LEMMA InitInv == Init => PreflightInv
<1> SUFFICES ASSUME Init PROVE PreflightInv
  OBVIOUS
<1>1. \A f \in Files : ~Checked(f)
  BY SMTT(60), FilesAreNumbers DEF Init, Checked
<1>2. PreflightTypes
  BY <1>1 DEF Init, PreflightTypes, TypeOK
<1>3. WindowIsSound /\ RegistryIsSound /\ SkipIsBacked /\ OneUploadPerHash
  BY <1>1 DEF Init, WindowIsSound, RegistryIsSound, SkipIsBacked, OneUploadPerHash
<1> QED BY <1>2, <1>3 DEF PreflightInv

\* With skipping off the files of the window are uploaded.
LEMMA BypassStep ==
    ASSUME PreflightInv, Bypass
    PROVE  PreflightInv'
<1> USE DEF PreflightInv, Bypass, NextWindow
<1>1. \A f \in Files : Checked(f)' <=> (Checked(f) \/ f \in Batch)
  BY WindowMoves
<1>2. \A f \in Files : Checked(f) => f \notin Batch
  BY SMTT(60), FilesAreNumbers DEF PreflightTypes, Checked, Batch
<1>3. PreflightTypes'
  BY SMTT(60), <1>1 DEF PreflightTypes, TypeOK
<1>4. \A f \in Files : Checked(f) => decision'[f] = decision[f]
  BY <1>2
<1>5. \A c \in Contents : Backed(c) => Backed(c)'
  BY <1>1, <1>4 DEF Backed
<1>6. \A f \in hashed : Checked(f)
  BY DEF WindowIsSound
<1>7. WindowIsSound'
  BY <1>1, <1>6 DEF WindowIsSound, PreflightTypes, TypeOK
<1>8. RegistryIsSound'
  BY <1>5, <1>6 DEF RegistryIsSound
<1>9. SkipIsBacked'
  <2> SUFFICES ASSUME NEW f \in Files, Checked(f)', decision'[f] = "skip"
               PROVE  Backed(content[f])'
    BY DEF SkipIsBacked, Backed
  <2>1. Checked(f) /\ decision[f] = "skip"
    BY <1>1, <1>4
  <2> QED BY SMTT(60), <2>1, <1>5 DEF SkipIsBacked, Backed, PreflightTypes
<1>10. OneUploadPerHash'
  BY SMTT(60), <1>4, <1>6 DEF OneUploadPerHash, PreflightTypes, TypeOK
<1> QED BY <1>3, <1>7, <1>8, <1>9, <1>10

\* An answer is a skip only for bytes on the receiver.
LEMMA SkipsAreStored ==
    ASSUME NEW f, NEW answer, answer \in Answers(f), Skips(answer)
    PROVE  content[f] \in stored
BY DEF Answers, Skips

\* The receiver's answers for a window keep what is checked.
LEMMA MetadataStep ==
    ASSUME PreflightInv, Metadata
    PROVE  PreflightInv'
<1> USE DEF PreflightInv
<1>1. PICK candidates \in SUBSET Batch :
      \E answer \in [Batch \ candidates -> {"upload", "skip", "skip-unnamed"}] :
         /\ \A f \in DOMAIN answer : answer[f] \in Answers(f)
         /\ decision' = [f \in Files |-> IF f \in DOMAIN answer THEN Decided(answer[f])
                                         ELSE IF f \in candidates
                                              THEN IF native THEN "hash_required" ELSE "upload"
                                              ELSE decision[f]]
         /\ matched' = {f \in DOMAIN answer : answer[f] = "skip"}
         /\ receiverCandidates' = candidates
  BY DEF Metadata
<1>2. PICK answer \in [Batch \ candidates -> {"upload", "skip", "skip-unnamed"}] :
         /\ \A f \in DOMAIN answer : answer[f] \in Answers(f)
         /\ decision' = [f \in Files |-> IF f \in DOMAIN answer THEN Decided(answer[f])
                                         ELSE IF f \in candidates
                                              THEN IF native THEN "hash_required" ELSE "upload"
                                              ELSE decision[f]]
         /\ matched' = {f \in DOMAIN answer : answer[f] = "skip"}
         /\ receiverCandidates' = candidates
  BY <1>1
<1>3. DOMAIN answer = Batch \ candidates /\ Batch \subseteq Files
  BY DEF Batch
<1>4. \A f \in Files \ Batch : decision'[f] = decision[f]
  BY <1>2, <1>3
<1>skip. \A f \in Batch : decision'[f] = "skip" => content[f] \in stored
  BY <1>2, <1>3, SkipsAreStored DEF Decided
<1>5. \A f \in Batch : decision'[f] \in {"upload", "skip"} \/ (f \in candidates /\ native)
  BY <1>2, <1>3 DEF Decided
<1>6. \A f \in matched' : content[f] \in stored
  BY <1>2, SkipsAreStored DEF Skips
<1>7. decision' \in [Files -> {"none", "hash_required", "upload", "skip"}]
  BY <1>2 DEF PreflightTypes, TypeOK, Decided
<1>8. \A f \in Files : Checked(f) => f \notin Batch
  BY SMTT(60), FilesAreNumbers DEF PreflightTypes, Checked, Batch
<1>9. \A f \in Files : Checked(f) => decision'[f] = decision[f]
  BY <1>4, <1>8
<1>10. \A f \in hashed : Checked(f)
  BY DEF WindowIsSound, Metadata
<1>11. matched' \subseteq Files /\ receiverCandidates' \subseteq Batch
  BY <1>2, <1>3
<1> DEFINE Same == UNCHANGED <<native, skipping, content, stored, hashed, unhashed,
                               outgoingHashes, result>>
<1>same. Same
  BY DEF Metadata
<1>12. CASE native
  <2>1. /\ stage' = "hash" /\ window' = window
        /\ \A f \in Files : Checked(f)' <=> Checked(f)
        /\ Batch' = Batch
    BY <1>12, WindowStays DEF Metadata
  <2>2. PreflightTypes'
    BY <2>1, <1>3, <1>7, <1>9, <1>11 DEF PreflightTypes, TypeOK, Metadata
  <2>3. \A c \in Contents : Backed(c) => Backed(c)'
    BY <2>1, <1>9 DEF Backed, Metadata
  <2>4. \A f \in Files : ~Checked(f)' /\ decision'[f] = "skip" => content[f] \in stored
    <3>1. \A f \in Files \ Batch : ~Checked(f)' /\ decision'[f] = "skip" => content[f] \in stored
      BY <2>1, <1>4 DEF WindowIsSound
    <3> QED BY <3>1, <1>skip
  <2>5. WindowIsSound'
    BY <2>1, <2>4, <1>2, <1>5, <1>6, <1>10, <1>11 DEF WindowIsSound, Metadata, PreflightTypes, TypeOK
  <2>6. RegistryIsSound'
    BY <2>1, <2>3, <1>same DEF RegistryIsSound, PreflightTypes, TypeOK
  <2>7. SkipIsBacked'
    BY SMTT(60), <2>1, <2>3, <1>9 DEF SkipIsBacked, Backed, PreflightTypes, Metadata
  <2>8. OneUploadPerHash'
    BY SMTT(60), <2>1, <1>9 DEF OneUploadPerHash, PreflightTypes, TypeOK, Metadata
  <2> QED BY <2>2, <2>5, <2>6, <2>7, <2>8
<1>13. CASE ~native
  <2>1. /\ stage' = "metadata" /\ window' = window + 1
        /\ \A f \in Files : Checked(f)' <=> (Checked(f) \/ f \in Batch)
    BY <1>13, WindowMoves DEF Metadata, NextWindow
  <2>2. PreflightTypes'
    <3>1. \A f \in Files : Checked(f)' => decision'[f] \in {"upload", "skip"}
      BY <2>1, <1>5, <1>9, <1>13 DEF PreflightTypes, TypeOK
    <3> QED BY SMTT(60), <3>1, <2>1, <1>3, <1>7, <1>11, <1>same DEF PreflightTypes, TypeOK
  <2>3. \A c \in Contents : Backed(c) => Backed(c)'
    BY <2>1, <1>9 DEF Backed, Metadata
  <2>4. \A f \in Files : ~Checked(f)' /\ decision'[f] = "skip" => content[f] \in stored
    BY <2>1, <1>4 DEF WindowIsSound
  <2>5. WindowIsSound'
    BY <2>1, <2>4, <1>6, <1>10 DEF WindowIsSound, Metadata, PreflightTypes, TypeOK
  <2>6. RegistryIsSound'
    BY <2>1, <2>3, <1>10 DEF RegistryIsSound, Metadata
  <2>7. SkipIsBacked'
    <3> SUFFICES ASSUME NEW f \in Files, Checked(f)', decision'[f] = "skip"
                 PROVE  Backed(content[f])'
      BY DEF SkipIsBacked, Backed
    <3>1. CASE f \in Batch
      <4>1. content[f] \in stored
        BY <3>1, <1>skip
      <4> QED BY <4>1, <1>same DEF Backed
    <3>2. CASE f \notin Batch
      BY SMTT(60), <3>2, <2>1, <2>3, <1>9 DEF SkipIsBacked, Backed, PreflightTypes, Metadata
    <3> QED BY <3>1, <3>2
  <2>8. OneUploadPerHash'
    BY SMTT(60), <2>1, <1>9, <1>10 DEF OneUploadPerHash, PreflightTypes, TypeOK, Metadata
  <2> QED BY <2>2, <2>5, <2>6, <2>7, <2>8
<1> QED BY <1>12, <1>13

\* Hashing concerns candidates of the window only.
LEMMA HashStep ==
    ASSUME PreflightInv, Hash
    PROVE  PreflightInv'
<1> USE DEF PreflightInv
<1>1. PICK ok \in SUBSET (LocalCandidates \cup receiverCandidates),
           failed \in SUBSET (LocalCandidates \cup receiverCandidates) :
         hashed' = hashed \cup ok /\ unhashed' = unhashed \cup failed
  BY DEF Hash
<1>2. ok \subseteq Batch /\ failed \subseteq Files
  BY <1>1 DEF Hash, WindowIsSound, LocalCandidates, Batch
<1>same. /\ stage = "hash" /\ stage' = "verify"
         /\ UNCHANGED <<content, stored, window, decision, receiverCandidates, matched,
                        outgoingHashes, result>>
  BY DEF Hash
<1>3. /\ \A f \in Files : Checked(f)' <=> Checked(f)
      /\ Batch' = Batch
      /\ \A f \in Batch : ~Checked(f)
      /\ Batch \subseteq Files
  BY <1>same, WindowStays DEF Batch
<1>4. PreflightTypes'
  BY <1>1, <1>2, <1>3, <1>same DEF PreflightTypes, TypeOK
<1>5. WindowIsSound'
  BY <1>1, <1>2, <1>3, <1>same DEF WindowIsSound, PreflightTypes, TypeOK
<1>6. RegistryIsSound'
  BY <1>1, <1>2, <1>3, <1>same DEF RegistryIsSound, Backed, PreflightTypes, TypeOK
<1>7. SkipIsBacked'
  BY <1>3, <1>same DEF SkipIsBacked
<1>8. OneUploadPerHash'
  BY SMTT(60), <1>1, <1>2, <1>3, <1>same DEF OneUploadPerHash, PreflightTypes, TypeOK
<1> QED BY <1>4, <1>5, <1>6, <1>7, <1>8

\* The answers for the hashed candidates settle the files of the window.
LEMMA VerifyStep ==
    ASSUME PreflightInv, Verify
    PROVE  PreflightInv'
<1> USE DEF PreflightInv
<1>1. PICK answer \in [receiverCandidates \cap hashed -> {"upload", "skip", "skip-unnamed"}] :
         /\ \A f \in DOMAIN answer : answer[f] \in Answers(f)
         /\ decision' = [f \in Files |-> IF f \in DOMAIN answer THEN Decided(answer[f])
                                         ELSE IF f \in receiverCandidates THEN "upload"
                                         ELSE decision[f]]
         /\ matched' = matched \cup {f \in DOMAIN answer : answer[f] = "skip"}
  BY DEF Verify
<1>same. /\ stage = "verify" /\ stage' = "resolve"
         /\ UNCHANGED <<content, stored, window, receiverCandidates, hashed, unhashed,
                        outgoingHashes, result>>
  BY DEF Verify
<1>2. /\ DOMAIN answer = receiverCandidates \cap hashed
      /\ receiverCandidates \subseteq Batch /\ Batch \subseteq Files
  BY <1>same DEF WindowIsSound, Batch
<1>3. /\ \A f \in Files : Checked(f)' <=> Checked(f)
      /\ Batch' = Batch
      /\ \A f \in Batch : ~Checked(f)
  BY <1>same, WindowStays
<1>4. \A f \in Files \ receiverCandidates : decision'[f] = decision[f]
  BY <1>1, <1>2
<1>5. \A f \in receiverCandidates : decision'[f] = "skip" => content[f] \in stored
  BY <1>1, <1>2, SkipsAreStored DEF Decided
<1>6. \A f \in receiverCandidates : decision'[f] \in {"upload", "skip"}
  BY <1>1, <1>2 DEF Decided
<1>7. \A f \in matched' : content[f] \in stored
  BY <1>1, SkipsAreStored DEF Skips, WindowIsSound
<1>8. decision' \in [Files -> {"none", "hash_required", "upload", "skip"}]
  BY <1>1 DEF PreflightTypes, TypeOK, Decided
<1>9. \A f \in Files : Checked(f) => decision'[f] = decision[f]
  BY <1>2, <1>3, <1>4
<1>10. \A f \in Files : ~Checked(f) /\ decision'[f] = "skip" => content[f] \in stored
  <2>1. \A f \in Files \ receiverCandidates :
           ~Checked(f) /\ decision'[f] = "skip" => content[f] \in stored
    BY <1>4 DEF WindowIsSound
  <2> QED BY <2>1, <1>5
<1>11. \A f \in Batch : decision'[f] \in {"upload", "skip"}
  <2>1. \A f \in Batch \ receiverCandidates : decision'[f] \in {"upload", "skip"}
    BY <1>2, <1>4, <1>same DEF WindowIsSound
  <2> QED BY <2>1, <1>6
<1>12. matched' \subseteq Files
  BY <1>1, <1>2 DEF PreflightTypes
<1>13. PreflightTypes'
  BY <1>3, <1>8, <1>9, <1>12, <1>same DEF PreflightTypes, TypeOK
<1>14. WindowIsSound'
  BY <1>3, <1>7, <1>10, <1>11, <1>same DEF WindowIsSound, PreflightTypes, TypeOK
<1>15. \A c \in Contents : Backed(c) => Backed(c)'
  BY <1>3, <1>9, <1>same DEF Backed
<1>16. RegistryIsSound'
  BY <1>3, <1>15, <1>same DEF RegistryIsSound, PreflightTypes, TypeOK
<1>17. SkipIsBacked'
  BY SMTT(60), <1>3, <1>9, <1>15, <1>same DEF SkipIsBacked, Backed, PreflightTypes
<1>18. OneUploadPerHash'
  BY SMTT(60), <1>3, <1>9, <1>same DEF OneUploadPerHash, PreflightTypes, TypeOK
<1> QED BY <1>13, <1>14, <1>16, <1>17, <1>18

\* A content that a window has hashed is backed when the window is resolved:
\* the receiver has it, an earlier window backs it, or the first file of the
\* group is uploaded.
LEMMA ResolvedIsBacked ==
    ASSUME PreflightInv, Resolve, NEW f \in Batch \cap hashed
    PROVE  Backed(content[f])'
<1> USE DEF PreflightInv
<1> DEFINE c == content[f]
<1>same. /\ stage = "resolve" /\ window' = window + 1
         /\ UNCHANGED <<content, stored, result>>
         /\ decision' = [g \in Files |-> IF g \in Batch \cap hashed /\ Duplicate(g)
                                         THEN "skip" ELSE decision[g]]
  BY DEF Resolve, NextWindow
<1>1. \A g \in Files : Checked(g)' <=> (Checked(g) \/ g \in Batch)
  BY <1>same, WindowMoves
<1>2. /\ \A g \in Batch : g \in Files /\ ~Checked(g)
      /\ c \in Contents
  BY SMTT(60), FilesAreNumbers DEF Checked, Batch, PreflightTypes
<1>3. Backed(c) => Backed(c)'
  BY <1>same, <1>1, <1>2 DEF Backed
<1>4. CASE ReceiverMatch(c)
  <2>1. c \in stored
    BY <1>4, <1>2 DEF ReceiverMatch, Group, WindowIsSound, RegistryIsSound
  <2> QED BY <2>1, <1>same DEF Backed
<1>5. CASE outgoingHashes[c] = "outgoing"
  BY <1>5, <1>2, <1>3, <1>same DEF RegistryIsSound
<1>6. CASE ~ReceiverMatch(c) /\ outgoingHashes[c] # "outgoing"
  <2>1. f \in Group(c) /\ Group(c) \subseteq Nat
    BY <1>2, FilesAreNumbers DEF Group
  <2>2. PICK g \in Group(c) : \A h \in Group(c) : ~(h < g)
    BY <2>1, FirstOfGroup
  <2>3. g \in Batch /\ g \in Files /\ content[g] = c /\ ~Duplicate(g)
    BY <2>2, <1>2, <1>6 DEF Group, Duplicate
  <2>4. decision'[g] = decision[g] /\ decision[g] \in {"upload", "skip"}
    BY <2>3, <1>same DEF WindowIsSound
  <2>5. result[g] = "none" /\ Checked(g)'
    BY <2>3, <1>1, <1>2 DEF WindowIsSound
  <2>6. CASE decision[g] = "skip"
    BY <2>3, <2>6, <1>2, <1>same DEF WindowIsSound, Backed
  <2>7. CASE decision[g] = "upload"
    BY <2>3, <2>4, <2>5, <2>7, <1>same DEF Backed
  <2> QED BY <2>4, <2>6, <2>7
<1> QED BY <1>4, <1>5, <1>6

\* Resolving a window.
LEMMA ResolveStep ==
    ASSUME PreflightInv, Resolve
    PROVE  PreflightInv'
<1> USE DEF PreflightInv
<1>same. /\ stage = "resolve" /\ stage' = "metadata" /\ window' = window + 1
         /\ matched' = {} /\ receiverCandidates' = {}
         /\ UNCHANGED <<content, stored, hashed, unhashed, result>>
  BY DEF Resolve, NextWindow
<1>dec. decision' = [f \in Files |-> IF f \in Batch \cap hashed /\ Duplicate(f)
                                     THEN "skip" ELSE decision[f]]
  BY DEF Resolve
<1>reg. outgoingHashes' = [c \in Contents |->
                            IF Group(c) = {} THEN outgoingHashes[c]
                            ELSE IF ReceiverMatch(c) THEN "receiver"
                            ELSE "outgoing"]
  BY DEF Resolve
<1>1. \A f \in Files : Checked(f)' <=> (Checked(f) \/ f \in Batch)
  BY <1>same, WindowMoves
<1>2. \A f \in Batch : f \in Files /\ ~Checked(f)
  BY SMTT(60), FilesAreNumbers DEF Checked, Batch
<1>3. \A f \in Files : Checked(f) => decision'[f] = decision[f]
  BY <1>2, <1>dec
<1>4. \A c \in Contents : Backed(c) => Backed(c)'
  BY <1>same, <1>1, <1>3 DEF Backed
<1>5. \A f \in Batch : decision'[f] \in {"upload", "skip"}
  BY <1>2, <1>dec, <1>same DEF WindowIsSound
<1>6. decision' \in [Files -> {"none", "hash_required", "upload", "skip"}]
  BY <1>dec DEF PreflightTypes, TypeOK
<1>7. \A f \in Files : content[f] \in Contents
  BY DEF PreflightTypes
<1>8. PreflightTypes'
  <2>1. \A f \in Files : Checked(f)' => decision'[f] \in {"upload", "skip"}
    <3> SUFFICES ASSUME NEW f \in Files, Checked(f)' PROVE decision'[f] \in {"upload", "skip"}
      OBVIOUS
    <3>1. CASE f \in Batch
      BY <3>1, <1>5
    <3>2. CASE Checked(f)
      BY <3>2, <1>3 DEF PreflightTypes, TypeOK
    <3> QED BY <3>1, <3>2, <1>1
  <2>2. outgoingHashes' \in [Contents -> {"none", "outgoing", "receiver"}]
    BY <1>reg DEF PreflightTypes, TypeOK
  <2> QED BY SMTT(60), <2>1, <2>2, <1>6, <1>same DEF PreflightTypes, TypeOK
<1>9. WindowIsSound'
  <2>1. \A f \in Files : ~Checked(f)' => decision'[f] = decision[f] /\ ~Checked(f)
    BY <1>1, <1>dec
  <2> QED BY <2>1, <1>1, <1>same DEF WindowIsSound, PreflightTypes, TypeOK
<1>10. RegistryIsSound'
  <2>1. \A c \in Contents : Group(c) # {} => Backed(c)'
    <3> SUFFICES ASSUME NEW c \in Contents, NEW f \in Group(c) PROVE Backed(c)'
      OBVIOUS
    <3>1. f \in Batch \cap hashed /\ content[f] = c
      BY DEF Group
    <3>2. Backed(content[f])'
      BY <3>1, ResolvedIsBacked
    <3> QED BY <3>1, <3>2, <1>same
  <2>2. \A c \in Contents : ReceiverMatch(c) => c \in stored
    BY DEF ReceiverMatch, Group, WindowIsSound, RegistryIsSound
  <2>3. \A c \in Contents : outgoingHashes'[c] = "receiver" => c \in stored'
    BY <2>2, <1>reg, <1>same DEF RegistryIsSound
  <2>4. \A c \in Contents : outgoingHashes'[c] = "outgoing" => Backed(c)'
    <3> SUFFICES ASSUME NEW c \in Contents, outgoingHashes'[c] = "outgoing" PROVE Backed(c)'
      OBVIOUS
    <3>1. CASE Group(c) = {}
      BY <3>1, <1>4, <1>reg DEF RegistryIsSound
    <3> QED BY <3>1, <2>1
  <2>5. \A f \in hashed' : Checked(f)' => outgoingHashes'[content'[f]] # "none"
    <3> SUFFICES ASSUME NEW f \in hashed, f \in Files, Checked(f)'
                 PROVE  outgoingHashes'[content[f]] # "none"
      BY <1>same DEF PreflightTypes, TypeOK
    <3>1. CASE Checked(f)
      BY <3>1, <1>7, <1>reg DEF RegistryIsSound
    <3>2. CASE f \in Batch
      BY <3>2, <1>7, <1>reg DEF Group
    <3> QED BY <3>1, <3>2, <1>1
  <2> QED BY <2>3, <2>4, <2>5 DEF RegistryIsSound
<1>11. SkipIsBacked'
  <2> SUFFICES ASSUME NEW f \in Files, Checked(f)', decision'[f] = "skip"
               PROVE  Backed(content[f])'
    BY DEF SkipIsBacked, Backed
  <2>1. CASE f \in Batch \cap hashed
    BY <2>1, ResolvedIsBacked
  <2>2. CASE f \in Batch \ hashed
    <3>1. decision[f] = "skip"
      BY <2>2, <1>dec
    <3> QED BY <2>2, <3>1, <1>2, <1>same DEF WindowIsSound, Backed
  <2>3. CASE Checked(f)
    <3>1. Backed(content[f])
      BY <2>3, <1>3 DEF SkipIsBacked, Backed
    <3> QED BY <3>1, <1>4, <1>7, <1>same
  <2> QED BY <2>1, <2>2, <2>3, <1>1
<1>12. OneUploadPerHash'
  <2>1. ASSUME NEW f \in hashed, NEW g \in hashed, f \in Files, g \in Files,
               content[f] = content[g], f # g, f \in Batch, Checked(g) \/ g \in Batch,
               decision'[f] = "upload", decision'[g] = "upload"
        PROVE  FALSE
    <3>1. ~Duplicate(f)
      BY <2>1, <1>dec
    <3>2. CASE Checked(g)
      <4>1. outgoingHashes[content[f]] \in {"outgoing", "receiver"}
        BY <2>1, <3>2, <1>7 DEF RegistryIsSound, PreflightTypes, TypeOK
      <4> QED BY <3>1, <4>1 DEF Duplicate, ReceiverMatch
    <3>3. CASE g \in Batch
      <4>1. ~Duplicate(g)
        BY <2>1, <3>3, <1>dec
      <4>2. f \in Group(content[f]) /\ g \in Group(content[f])
        BY <2>1, <3>3 DEF Group
      <4>3. f < g \/ g < f
        <5>1. f \in Nat /\ g \in Nat /\ f # g
          BY <2>1, FilesAreNumbers
        <5> QED BY ONLY SMTT(60), <5>1
      <4> QED BY <2>1, <3>1, <4>1, <4>2, <4>3 DEF Duplicate
    <3> QED BY <2>1, <3>2, <3>3
  <2>2. ASSUME NEW f \in hashed, NEW g \in hashed, f \in Files, g \in Files,
               content[f] = content[g], f # g, Checked(f), Checked(g),
               decision'[f] = "upload", decision'[g] = "upload"
        PROVE  FALSE
    BY <2>2, <1>3 DEF OneUploadPerHash
  <2> QED BY <2>1, <2>2, <1>1, <1>same DEF OneUploadPerHash, PreflightTypes, TypeOK
<1> QED BY <1>8, <1>9, <1>10, <1>11, <1>12

\* A file of a checked window is settled: the receiver's bytes only grow, and
\* an upload that fails still backs the files that were skipped for it.
LEMMA TransferStep ==
    ASSUME PreflightInv, NEW f \in Files, Transfer(f)
    PROVE  PreflightInv'
<1> USE DEF PreflightInv
<1>same. /\ Checked(f) /\ result[f] = "none"
         /\ UNCHANGED <<content, window, stage, decision, receiverCandidates, hashed,
                        unhashed, matched, outgoingHashes>>
  BY DEF Transfer
<1>1. /\ result' \in [Files -> {"none", "saved", "skipped", "failed"}]
      /\ \A g \in Files : g # f => result'[g] = result[g]
      /\ stored \subseteq stored' /\ stored' \subseteq Contents
      /\ decision[f] = "upload" => result'[f] = "failed" \/ content[f] \in stored'
  BY SMTT(60) DEF Transfer, PreflightTypes, TypeOK
<1>2. /\ \A g \in Files : Checked(g)' <=> Checked(g)
      /\ Batch' = Batch
  BY <1>same, WindowStays
<1>3. PreflightTypes'
  BY <1>1, <1>2, <1>same DEF PreflightTypes, TypeOK
<1>4. WindowIsSound'
  BY <1>1, <1>2, <1>same DEF WindowIsSound, PreflightTypes, TypeOK
<1>5. ASSUME NEW c \in Contents, Backed(c)
      PROVE  Backed(c)'
  <2>1. CASE c \in stored
    BY <2>1, <1>1 DEF Backed
  <2>2. ASSUME NEW g \in Files, content[g] = c, Checked(g), decision[g] = "upload",
               result[g] \in {"none", "failed"}
        PROVE  Backed(c)'
    <3>1. CASE g = f
      BY <2>2, <3>1, <1>1, <1>2, <1>same DEF Backed
    <3>2. CASE g # f
      BY <2>2, <3>2, <1>1, <1>2, <1>same DEF Backed
    <3> QED BY <3>1, <3>2
  <2> QED BY <1>5, <2>1, <2>2 DEF Backed
<1>6. RegistryIsSound'
  BY <1>1, <1>2, <1>5, <1>same DEF RegistryIsSound, PreflightTypes, TypeOK
<1>7. SkipIsBacked'
  <2> SUFFICES ASSUME NEW g \in Files, Checked(g)', decision'[g] = "skip"
               PROVE  Backed(content[g])'
    BY DEF SkipIsBacked, Backed
  <2>1. Backed(content[g]) /\ content[g] \in Contents
    BY <1>2, <1>same DEF SkipIsBacked, Backed, PreflightTypes
  <2> QED BY <2>1, <1>5, <1>same
<1>8. OneUploadPerHash'
  BY SMTT(60), <1>2, <1>same DEF OneUploadPerHash, PreflightTypes, TypeOK
<1> QED BY <1>3, <1>4, <1>6, <1>7, <1>8

\* A 401 ends the preflight and changes no decision.
LEMMA UnauthorizedStep ==
    ASSUME PreflightInv, Unauthorized
    PROVE  PreflightInv'
<1> USE DEF PreflightInv
<1>same. /\ stage \in {"metadata", "verify"} /\ stage' = "aborted"
         /\ UNCHANGED <<content, stored, window, decision, receiverCandidates, hashed,
                        unhashed, matched, outgoingHashes, result>>
  BY DEF Unauthorized
<1>1. /\ \A g \in Files : Checked(g)' <=> Checked(g)
      /\ Batch' = Batch
  BY <1>same, WindowStays
<1>2. PreflightTypes'
  BY <1>1, <1>same DEF PreflightTypes, TypeOK
<1>3. WindowIsSound'
  BY <1>1, <1>same DEF WindowIsSound, PreflightTypes, TypeOK
<1>4. RegistryIsSound' /\ SkipIsBacked' /\ OneUploadPerHash'
  BY SMTT(60), <1>1, <1>same DEF RegistryIsSound, Backed, SkipIsBacked, OneUploadPerHash,
                       PreflightTypes, TypeOK
<1> QED BY <1>2, <1>3, <1>4

-----------------------------------------------------------------------------
(* The preflight: the theorems *)

\* PreflightInv is an invariant: it holds initially and every step of the
\* preflight and of the uploads beside it keeps it.
THEOREM PreflightInvariant == Spec => []PreflightInv
<1>1. PreflightInv /\ [Next]_vars => PreflightInv'
  <2> SUFFICES ASSUME PreflightInv, [Next]_vars PROVE PreflightInv'
    OBVIOUS
  <2>1. CASE UNCHANGED vars
    BY SMTT(60), <2>1 DEF vars, PreflightInv, PreflightTypes, TypeOK, WindowIsSound, RegistryIsSound,
                Backed, SkipIsBacked, OneUploadPerHash, Checked, Batch
  <2> QED
    BY <2>1, UnauthorizedStep, BypassStep, MetadataStep, HashStep, VerifyStep,
       ResolveStep, TransferStep DEF Next
<1> QED BY <1>1, InitInv, PTL DEF Spec

\* A file that runDuplicatePreflightWindow decides to skip is backed by bytes on
\* the receiver, or by a file with the same bytes that is still to be uploaded
\* or is reported as failed.
THEOREM SkippedFilesAreBacked == Spec => []SkipIsBacked
<1>1. PreflightInv => SkipIsBacked
  BY DEF PreflightInv
<1> QED BY <1>1, PreflightInvariant, PTL

\* Of the files of a transfer that were hashed to the same content at most one
\* is uploaded, whatever windows they are in (outgoingHashes).
THEOREM HashedDuplicatesSentOnce == Spec => []OneUploadPerHash
<1>1. PreflightInv => OneUploadPerHash
  BY DEF PreflightInv
<1> QED BY <1>1, PreflightInvariant, PTL

-----------------------------------------------------------------------------
(* The picker: its invariant *)

\* A sequence that has no value twice.
Distinct(s) == \A i, j \in DOMAIN s : s[i] = s[j] => i = j

\* The first n assets of album a.
FirstAssets(a, n) == {Library[a][i] : i \in {j \in DOMAIN Library[a] : j <= n}}

\* Each variable of the picker has its type, the drag's indices and cells are in
\* the grid, and they are reset with the drag.
PickTypes ==
    /\ albums \in {"loading", "loaded", "failed"}
    /\ album \in DOMAIN Library
    /\ operation \in Nat
    /\ loading \in BOOLEAN /\ loadingMore \in BOOLEAN /\ available \in BOOLEAN
    /\ hasNext \in BOOLEAN /\ suppress \in BOOLEAN
    /\ media \in Seq(Nat)
    /\ cursor \in Nat

\* A request that is not stale is of the chosen album, and of one of three kinds.
\* There is at most one, and what the screen shows as loading is its kind.
RequestsGood ==
    /\ \A r \in requests : r.op \in Nat /\ r.op <= operation
    /\ \A r \in requests : r.op = operation => r.album = album /\ r.kind \in {"first", "more", "all"}
    /\ \A r, q \in requests : r.op = operation /\ q.op = operation => r = q
    /\ loading <=> \E r \in requests : r.op = operation /\ r.kind \in {"first", "all"}
    /\ loadingMore <=> \E r \in requests : r.op = operation /\ r.kind = "more"

\* What a request captured is still so: the first page finds an empty grid, and
\* the next page starts where the grid ends.
CapturedGood ==
    \A r \in requests : r.op = operation =>
       /\ r.kind = "first" => media = <<>> /\ ~available /\ ~hasNext
       /\ r.kind = "more" => hasNext /\ r.after = cursor

\* A request is a record with the fields that its caller captured.
IsRequest(r) ==
    r = [kind |-> r.kind, op |-> r.op, album |-> r.album, after |-> r.after, all |-> r.all]

\* What Select All has collected: all that is shown, and what it fetched since.
CollectedGood ==
    \A r \in requests : r.op = operation /\ r.kind = "all" =>
       /\ IsRequest(r)
       /\ hasNext
       /\ r.all \in Seq(Nat) /\ Distinct(r.all) /\ Len(media) <= Len(r.all)
       /\ ToSet(media) \subseteq ToSet(r.all) /\ ToSet(r.all) \subseteq loaded
       /\ loaded \subseteq ToSet(r.all) \cup abandoned
       /\ r.after \in Nat /\ r.after <= Len(Library[album])
       /\ FirstAssets(album, r.after) \subseteq ToSet(r.all) \cup abandoned

\* The grid shows distinct assets of the album, and all up to the cursor, but
\* for those that a failed Select All has taken.
GridGood ==
    /\ Distinct(media)
    /\ ToSet(media) \subseteq loaded
    /\ loaded \subseteq ToSet(Library[album])
    /\ (\A r \in requests : r.op = operation => r.kind # "all") =>
          loaded \subseteq ToSet(media) \cup abandoned
    /\ selected \subseteq ToSet(media)
    /\ hasNext => available
    /\ cursor <= Len(Library[album])
    /\ available => FirstAssets(album, cursor) \subseteq ToSet(media) \cup abandoned
    /\ available /\ ~hasNext => cursor = Len(Library[album])

\* The drag's range is in the grid, and it knows what every cell of it was.
DragTypes ==
    /\ drag = [start |-> drag.start, last |-> drag.last, baseline |-> drag.baseline]
    /\ drag.start = None => drag = NoDrag /\ before = <<>>
    /\ drag.start # None =>
         /\ drag.start \in DOMAIN media /\ drag.last \in DOMAIN media
         /\ CellRange(drag.start, drag.last) \subseteq DOMAIN drag.baseline
    /\ DOMAIN drag.baseline \subseteq DOMAIN media

\* While the selection is not replaced, what the drag knows of a cell is what it
\* was when the drag began.
DragGood ==
    /\ DOMAIN before \subseteq DOMAIN media
    /\ \A i \in DOMAIN before : before[i] \in BOOLEAN
    /\ \A i \in DOMAIN before \cap DOMAIN drag.baseline : drag.baseline[i] = before[i]
    /\ DragIsExact

PickInv == PickTypes /\ RequestsGood /\ CapturedGood /\ CollectedGood /\ GridGood
             /\ DragTypes /\ DragGood
-----------------------------------------------------------------------------
(* The screen: its invariant *)

Counts == [Terminal -> Nat]

Notices == [waiting : BOOLEAN, shown : BOOLEAN, show : BOOLEAN, hide : BOOLEAN]

\* The React state is a record of five fields.
IsShown(s) == s = [x \in {"summary", "total", "phase", "eta", "results"} |-> s[x]]

\* The ids of the assets themselves, and the entries that have one status.
AssetIds(A) == {<<a, 0>> : a \in A}
Settled(statuses, s) == {id \in DOMAIN statuses : statuses[id] = s}

ScreenTypes ==
    /\ manager \in {"off", "refused", "preparing", "sending", "over"}
    /\ screen \in {"none", "active", "left"}
    /\ outcome \in {"running", "complete", "fatal", "cancelled"}
    /\ dirty \in BOOLEAN /\ uiTimer \in BOOLEAN /\ observed \in BOOLEAN
    /\ notice \in Notices
    /\ metrics \in [timer : BOOLEAN, final : BOOLEAN]
    /\ pending \in {NoProgress} \cup [activity : Activities, sent : BOOLEAN]
    /\ counts \in Counts
    /\ IsShown(shown)
    /\ shown.summary \in Counts
    /\ shown.total \in Nat
    /\ assets \subseteq DOMAIN Parts /\ IsFiniteSet(assets)

\* The entries that have a status are those of the transfer, and until an error
\* ends it only entries that have an itemId.
EntriesGood ==
    /\ DOMAIN statusById \subseteq Items \cup AssetIds(assets)
    /\ outcome = "running" => DOMAIN statusById \subseteq Items
    /\ \A s \in Terminal : counts[s] = Cardinality(Settled(statusById, s))
    /\ Cardinality(assets) <= shown.total /\ shown.total <= Cardinality(Items)

\* What the screen shows is at most what it counted, and all of it unless a
\* change waits to be rendered.
ShownGood ==
    /\ \A s \in Terminal : shown.summary[s] <= counts[s]
    /\ outcome \in {"complete", "fatal"} => shown.summary = counts /\ shown.results = statusById
    /\ outcome = "complete" => Items = DOMAIN shown.results /\ shown.total = Cardinality(Items)
    /\ ~dirty /\ outcome = "running" => shown.summary = counts

TimersGood ==
    /\ ~Ended /\ (dirty \/ pending # NoProgress) => uiTimer
    /\ Ended => ~uiTimer /\ ~notice.show /\ ~notice.hide /\ ~metrics.timer
    /\ notice.shown \/ notice.show => observed
    /\ notice.hide => notice.shown /\ ~notice.waiting
    /\ shown.eta = "estimate" \/ metrics.final => manager \in {"sending", "over"}
    /\ screen = "none" => manager = "off" /\ statusById = <<>> /\ outcome = "running"
                            /\ assets = {} /\ ~dirty /\ pending = NoProgress

ScreenInv == ScreenTypes /\ EntriesGood /\ ShownGood /\ TimersGood
-----------------------------------------------------------------------------
(* Numbers and sequences *)

\* A set of natural numbers that is not empty has a least element.
LEMMA LeastNumber ==
    ASSUME NEW I \in SUBSET Nat, I # {}
    PROVE  \E x \in I : \A y \in I : x <= y
<1> DEFINE R == OpToRel(<, Nat)
<1>1. \E x \in I : \A y \in I : <<y, x>> \notin R
  <2> HIDE DEF R
  <2>1. IsWellFoundedOn(R, Nat)
    BY NatLessThanWellFounded DEF R
  <2> QED BY <2>1, WFMin
<1>2. PICK x \in I : \A y \in I : <<y, x>> \notin R
  BY <1>1
<1>3. ASSUME NEW y \in I PROVE ~(y < x)
  BY <1>2, <1>3 DEF OpToRel
<1>4. \A y \in I : x <= y
  BY SMTT(60), <1>3
<1> QED BY <1>4

\* Induction: what holds of 0 and goes on from each number to the next holds up to n.
LEMMA CountUp ==
    ASSUME NEW n \in Nat, NEW S, 0 \in S, \A i \in 0 .. n - 1 : i \in S => i + 1 \in S
    PROVE  \A i \in 0 .. n : i \in S
<1> SUFFICES ASSUME NEW j \in 0 .. n, j \notin S PROVE FALSE
  OBVIOUS
<1> DEFINE I == {i \in 0 .. n : i \notin S}
<1>1. I \in SUBSET Nat /\ I # {}
  BY SMTT(60)
<1>2. PICK x \in I : \A y \in I : x <= y
  <2> HIDE DEF I
  <2> QED BY <1>1, LeastNumber
<1>3. x # 0 /\ x - 1 \in 0 .. n - 1 /\ (x - 1) + 1 = x
  BY SMTT(60)
<1>4. x - 1 \in S
  BY SMTT(60), <1>2, <1>3
<1> QED BY <1>3, <1>4

\* One more value at the end of a sequence.
LEMMA AppendGood ==
    ASSUME NEW s \in Seq(Nat), NEW x \in Nat
    PROVE  /\ Append(s, x) \in Seq(Nat)
           /\ ToSet(Append(s, x)) = ToSet(s) \cup {x}
           /\ Distinct(s) /\ x \notin ToSet(s) => Distinct(Append(s, x))
<1> DEFINE t == Append(s, x)
<1>1. /\ t \in Seq(Nat) /\ DOMAIN t = DOMAIN s \cup {Len(s) + 1} /\ t[Len(s) + 1] = x
      /\ \A i \in DOMAIN s : t[i] = s[i]
  BY SMTT(60)
<1> HIDE DEF t
<1>2. ToSet(t) = ToSet(s) \cup {x}
  BY <1>1 DEF ToSet
<1>3. ASSUME Distinct(s), x \notin ToSet(s) PROVE Distinct(t)
  BY <1>1, <1>3 DEF Distinct, ToSet
<1> QED BY <1>1, <1>2, <1>3 DEF t

\* Two sequences without a common value, one after the other.
LEMMA ConcatGood ==
    ASSUME NEW s \in Seq(Nat), NEW t \in Seq(Nat)
    PROVE  /\ s \o t \in Seq(Nat) /\ Len(s) <= Len(s \o t)
           /\ \A i \in DOMAIN s : (s \o t)[i] = s[i]
           /\ ToSet(s \o t) = ToSet(s) \cup ToSet(t)
           /\ Distinct(s) /\ Distinct(t) /\ ToSet(s) \cap ToSet(t) = {} => Distinct(s \o t)
<1> DEFINE u == s \o t
<1>1. /\ u \in Seq(Nat) /\ Len(u) = Len(s) + Len(t)
      /\ \A i \in 1 .. Len(s) : u[i] = s[i]
      /\ \A i \in 1 .. Len(t) : u[Len(s) + i] = t[i]
      /\ Len(s) \in Nat /\ Len(t) \in Nat
      /\ DOMAIN s = 1 .. Len(s) /\ DOMAIN t = 1 .. Len(t) /\ DOMAIN u = 1 .. Len(u)
  BY SMTT(60)
<1> HIDE DEF u
<1>2. \A i \in DOMAIN u : \/ i \in DOMAIN s /\ u[i] = s[i]
                          \/ \E j \in DOMAIN t : i = Len(s) + j /\ u[i] = t[j]
  <2> TAKE i \in DOMAIN u
  <2>1. CASE i \in 1 .. Len(s)
    BY <1>1, <2>1
  <2>2. CASE i \notin 1 .. Len(s)
    <3>1. i - Len(s) \in 1 .. Len(t) /\ i = Len(s) + (i - Len(s))
      BY SMTT(60), <1>1, <2>2
    <3> QED BY <1>1, <3>1
  <2> QED BY <2>1, <2>2
<1>3. ToSet(u) = ToSet(s) \cup ToSet(t)
  <2>1. ToSet(u) \subseteq ToSet(s) \cup ToSet(t)
    BY <1>2 DEF ToSet
  <2>2. ToSet(s) \subseteq ToSet(u)
    BY SMTT(60), <1>1 DEF ToSet
  <2>3. ToSet(t) \subseteq ToSet(u)
    <3> SUFFICES ASSUME NEW j \in 1 .. Len(t) PROVE t[j] \in ToSet(u)
      BY <1>1 DEF ToSet
    <3>1. Len(s) + j \in DOMAIN u
      BY SMTT(60), <1>1
    <3> QED BY <1>1, <3>1 DEF ToSet
  <2> QED BY <2>1, <2>2, <2>3
<1>4. ASSUME Distinct(s), Distinct(t), ToSet(s) \cap ToSet(t) = {}
      PROVE  Distinct(u)
  <2>1. \A i \in DOMAIN s, j \in DOMAIN t : s[i] # t[j]
    BY <1>4 DEF ToSet
  <2> SUFFICES ASSUME NEW i \in DOMAIN u, NEW j \in DOMAIN u, u[i] = u[j] PROVE i = j
    BY DEF Distinct
  <2>2. CASE i \in DOMAIN s /\ u[i] = s[i]
    <3>1. CASE j \in DOMAIN s /\ u[j] = s[j]
      BY <2>2, <3>1, <1>4 DEF Distinct
    <3>2. CASE \E k \in DOMAIN t : j = Len(s) + k /\ u[j] = t[k]
      BY <2>1, <2>2, <3>2
    <3> QED BY <1>2, <3>1, <3>2
  <2>3. CASE \E k \in DOMAIN t : i = Len(s) + k /\ u[i] = t[k]
    <3>1. CASE j \in DOMAIN s /\ u[j] = s[j]
      BY <2>1, <2>3, <3>1
    <3>2. CASE \E k \in DOMAIN t : j = Len(s) + k /\ u[j] = t[k]
      BY <2>3, <3>2, <1>4 DEF Distinct
    <3> QED BY <1>2, <3>1, <3>2
  <2> QED BY <1>2, <2>2, <2>3
<1> QED BY SMTT(60), <1>1, <1>3, <1>4 DEF u
-----------------------------------------------------------------------------
(* What a page adds *)

\* What the recursion of Additions gives for the first k assets of q.
Sifted(q, known, k, f) ==
    /\ f = [i \in 0 .. k |-> f[i]]
    /\ f[0] = <<>>
    /\ \A i \in 1 .. k : f[i] = IF q[i] \in known THEN f[i - 1] ELSE Append(f[i - 1], q[i])

\* There is such a function for every k.
LEMMA SiftedExists ==
    ASSUME NEW q \in Seq(Nat), NEW known
    PROVE  \E f : Sifted(q, known, Len(q), f)
<1> DEFINE S == {k \in 0 .. Len(q) : \E f : Sifted(q, known, k, f)}
<1>1. 0 \in S
  <2>1. Sifted(q, known, 0, [i \in 0 .. 0 |-> <<>>])
    BY SMTT(60) DEF Sifted
  <2> QED BY SMTT(60), <2>1
<1>2. ASSUME NEW k \in 0 .. Len(q) - 1, k \in S PROVE k + 1 \in S
  <2>1. PICK f : Sifted(q, known, k, f)
    BY <1>2
  <2> DEFINE n == IF q[k + 1] \in known THEN f[k] ELSE Append(f[k], q[k + 1])
             g == [i \in 0 .. k + 1 |-> IF i = k + 1 THEN n ELSE f[i]]
  <2> HIDE DEF n
  <2>2. g = [i \in 0 .. k + 1 |-> g[i]]
    OBVIOUS
  <2>6. g[0] = <<>> /\ g[k + 1] = n /\ \A i \in 0 .. k : g[i] = f[i]
    BY SMTT(60), <2>1 DEF Sifted
  <2> HIDE DEF g
  <2>3. ASSUME NEW i \in 1 .. k + 1
        PROVE  g[i] = IF q[i] \in known THEN g[i - 1] ELSE Append(g[i - 1], q[i])
    <3>1. CASE i = k + 1
      <4>1. i - 1 = k /\ g[i - 1] = f[k]
        BY SMTT(60), <2>6, <3>1
      <4> QED BY <2>6, <3>1, <4>1 DEF n
    <3>2. CASE i # k + 1
      <4>1. i \in 1 .. k /\ i \in 0 .. k /\ i - 1 \in 0 .. k
        BY SMTT(60), <3>2
      <4> QED BY <2>1, <2>6, <4>1 DEF Sifted
    <3> QED BY <3>1, <3>2
  <2>4. Sifted(q, known, k + 1, g)
    BY <2>2, <2>6, <2>3 DEF Sifted
  <2>5. k + 1 \in 0 .. Len(q)
    BY SMTT(60)
  <2> QED BY <2>4, <2>5
<1> HIDE DEF S
<1>3. Len(q) \in Nat
  BY SMTT(60)
<1>4. \A i \in 0 .. Len(q) : i \in S
  BY <1>1, <1>2, <1>3, CountUp
<1>5. Len(q) \in S
  BY SMTT(60), <1>3, <1>4
<1> QED BY <1>5 DEF S

\* The recursive definition has the value that its equations say.
LEMMA AdditionsAre ==
    ASSUME NEW page, page.assets \in Seq(Nat), NEW known
    PROVE  \E f : Sifted(page.assets, known, Len(page.assets), f)
                    /\ Additions(page, known) = f[Len(page.assets)]
<1> DEFINE q == page.assets
           Body(f) == [i \in 0 .. Len(q) |->
             IF i = 0 THEN <<>>
             ELSE IF q[i] \in known THEN f[i - 1] ELSE Append(f[i - 1], q[i])]
           h == CHOOSE f : f = Body(f)
<1>1. PICK g : Sifted(q, known, Len(q), g)
  BY SiftedExists
<1>2. g = Body(g)
  <2>1. ASSUME NEW i \in 0 .. Len(q) PROVE g[i] = Body(g)[i]
    <3>1. CASE i = 0
      BY <1>1, <3>1 DEF Sifted
    <3>2. CASE i \in 1 .. Len(q)
      <4>1. i \in 0 .. Len(q) /\ i # 0
        BY SMTT(60), <3>2
      <4>2. Body(g)[i] = IF q[i] \in known THEN g[i - 1] ELSE Append(g[i - 1], q[i])
        BY <4>1
      <4> HIDE DEF Body
      <4> QED BY <1>1, <3>2, <4>2 DEF Sifted
    <3> QED BY SMTT(60), <3>1, <3>2
  <2>3. g = [i \in 0 .. Len(q) |-> g[i]]
    BY <1>1 DEF Sifted
  <2> QED BY <2>1, <2>3
<1>3. h = Body(h)
  <2> HIDE DEF Body
  <2> QED BY <1>2
<1>4. Additions(page, known) = h[Len(q)]
  BY DEF Additions
<1> HIDE DEF h
<1>5. h = [i \in 0 .. Len(q) |-> h[i]] /\ \A i \in 0 .. Len(q) : h[i] = Body(h)[i]
  BY <1>3
<1>6. h[0] = <<>>
  <2>1. 0 \in 0 .. Len(q)
    BY SMTT(60)
  <2> QED BY <1>5, <2>1
<1>8. ASSUME NEW i \in 1 .. Len(q)
      PROVE  h[i] = IF q[i] \in known THEN h[i - 1] ELSE Append(h[i - 1], q[i])
  <2>1. i \in 0 .. Len(q) /\ i # 0
    BY SMTT(60)
  <2> QED BY <1>5, <2>1
<1>7. Sifted(q, known, Len(q), h)
  BY <1>5, <1>6, <1>8 DEF Sifted
<1> QED BY <1>4, <1>7

\* A page adds its assets that are not known, each once.
LEMMA AdditionsGood ==
    ASSUME NEW page, page.assets \in Seq(Nat), Distinct(page.assets), NEW known
    PROVE  /\ Additions(page, known) \in Seq(Nat)
           /\ Distinct(Additions(page, known))
           /\ ToSet(Additions(page, known)) = ToSet(page.assets) \ known
<1> DEFINE q == page.assets
           Part(i) == {q[j] : j \in 1 .. i} \ known
<1>1. PICK f : Sifted(q, known, Len(q), f) /\ Additions(page, known) = f[Len(q)]
  BY AdditionsAre
<1> DEFINE S == {i \in 0 .. Len(q) : f[i] \in Seq(Nat) /\ Distinct(f[i]) /\ ToSet(f[i]) = Part(i)}
<1>2. 0 \in S
  <2>1. f[0] = <<>> /\ 0 \in 0 .. Len(q) /\ 1 .. 0 = {}
    BY SMTT(60), <1>1 DEF Sifted
  <2>2. <<>> \in Seq(Nat) /\ DOMAIN <<>> = {}
    BY SMTT(60)
  <2>3. Distinct(<<>>) /\ ToSet(<<>>) = {} /\ Part(0) = {}
    BY <2>1, <2>2 DEF Distinct, ToSet
  <2> QED BY <2>1, <2>2, <2>3
<1>3. ASSUME NEW i \in 0 .. Len(q) - 1, i \in S PROVE i + 1 \in S
  <2>1. /\ i + 1 \in 1 .. Len(q) /\ i + 1 \in 0 .. Len(q) /\ (i + 1) - 1 = i /\ q[i + 1] \in Nat
        /\ 1 .. (i + 1) = (1 .. i) \cup {i + 1}
    BY SMTT(60)
  <2>2. f[i + 1] = IF q[i + 1] \in known THEN f[i] ELSE Append(f[i], q[i + 1])
    BY <1>1, <2>1 DEF Sifted
  <2>3. f[i] \in Seq(Nat) /\ Distinct(f[i]) /\ ToSet(f[i]) = Part(i)
    BY <1>3
  <2>4. {q[j] : j \in 1 .. (i + 1)} = {q[j] : j \in 1 .. i} \cup {q[i + 1]}
    BY <2>1
  <2>5. q[i + 1] \notin {q[j] : j \in 1 .. i}
    <3>1. \A j \in 1 .. i : j \in DOMAIN q /\ i + 1 \in DOMAIN q /\ j # i + 1
      BY SMTT(60)
    <3> QED BY <3>1 DEF Distinct
  <2>6. CASE q[i + 1] \in known
    BY <2>1, <2>2, <2>3, <2>4, <2>6
  <2>7. CASE q[i + 1] \notin known
    <3>1. q[i + 1] \notin ToSet(f[i])
      BY <2>3, <2>5
    <3>4. f[i] \in Seq(Nat) /\ q[i + 1] \in Nat /\ Distinct(f[i])
      BY <2>1, <2>3
    <3>5. f[i + 1] = Append(f[i], q[i + 1])
      BY <2>2, <2>7
    <3>2. f[i + 1] \in Seq(Nat) /\ Distinct(f[i + 1]) /\ ToSet(f[i + 1]) = ToSet(f[i]) \cup {q[i + 1]}
      <4> HIDE DEF q, S
      <4>1. /\ Append(f[i], q[i + 1]) \in Seq(Nat)
            /\ ToSet(Append(f[i], q[i + 1])) = ToSet(f[i]) \cup {q[i + 1]}
            /\ Distinct(Append(f[i], q[i + 1]))
        BY <3>1, <3>4, AppendGood
      <4> QED BY <3>5, <4>1
    <3>3. ToSet(f[i + 1]) = Part(i + 1)
      BY <2>3, <2>4, <2>7, <3>2
    <3> QED BY <2>1, <3>2, <3>3
  <2> QED BY <2>6, <2>7
<1> HIDE DEF S
<1>4. Len(q) \in Nat /\ DOMAIN q = 1 .. Len(q)
  BY SMTT(60)
<1>5. \A i \in 0 .. Len(q) : i \in S
  BY <1>2, <1>3, <1>4, CountUp
<1>6. Len(q) \in S
  BY SMTT(60), <1>4, <1>5
<1>7. Part(Len(q)) = ToSet(q) \ known
  BY <1>4 DEF ToSet
<1> QED BY <1>1, <1>6, <1>7 DEF S

\* A part of a sequence.
LEMMA PartOfSequence ==
    ASSUME NEW s \in Seq(Nat), NEW first \in Nat \ {0}, NEW end \in Nat, end <= Len(s)
    PROVE  /\ SubSeq(s, first, end) \in Seq(Nat)
           /\ \A x : x \in ToSet(SubSeq(s, first, end)) <=> \E i \in first .. end : x = s[i]
           /\ Distinct(s) => Distinct(SubSeq(s, first, end))
<1> DEFINE p == SubSeq(s, first, end)
           n == IF first <= end THEN end - first + 1 ELSE 0
<1>1. p \in Seq(Nat) /\ Len(p) = n /\ \A i \in 1 .. n : p[i] = s[i + first - 1]
  BY SMTT(60)
<1> HIDE DEF p
<1>2. DOMAIN s = 1 .. Len(s) /\ Len(s) \in Nat /\ DOMAIN p = 1 .. n
  BY SMTT(60), <1>1
<1>3. ASSUME NEW i \in 1 .. n PROVE i + first - 1 \in first .. end
  BY SMTT(60)
<1>4. ASSUME NEW i \in first .. end PROVE i - first + 1 \in 1 .. n /\ (i - first + 1) + first - 1 = i
  BY SMTT(60)
<1>5. first .. end \subseteq DOMAIN s
  BY SMTT(60), <1>2
<1>6. ASSUME NEW x PROVE x \in ToSet(p) <=> \E i \in first .. end : x = s[i]
  <2>1. ASSUME x \in ToSet(p) PROVE \E i \in first .. end : x = s[i]
    <3>1. PICK i \in 1 .. n : x = p[i]
      BY <1>2, <2>1 DEF ToSet
    <3> QED BY <1>1, <1>3, <3>1
  <2>2. ASSUME NEW i \in first .. end PROVE s[i] \in ToSet(p)
    <3>1. p[i - first + 1] = s[i] /\ i - first + 1 \in DOMAIN p
      BY <1>1, <1>2, <1>4
    <3> QED BY <3>1 DEF ToSet
  <2> QED BY <2>1, <2>2
<1>7. ASSUME Distinct(s) PROVE Distinct(p)
  <2> SUFFICES ASSUME NEW i \in 1 .. n, NEW j \in 1 .. n, p[i] = p[j] PROVE i = j
    BY <1>2 DEF Distinct
  <2>1. i + first - 1 = j + first - 1
    BY <1>1, <1>3, <1>5, <1>7 DEF Distinct
  <2>2. i \in Int /\ j \in Int
    BY SMTT(60)
  <2> HIDE DEF n
  <2> QED BY SMTT(60), <2>1, <2>2
<1> QED BY <1>1, <1>6, <1>7 DEF p

\* Where a page begins and ends.
PageStart(after, overlap) == IF after > overlap THEN after - overlap + 1 ELSE 1
PageEnd(after, n) == IF after + PageSize < n THEN after + PageSize ELSE n

BoundsGood(first, end, after, n) ==
    /\ first \in Nat \ {0} /\ end \in Nat /\ end <= n
    /\ (end < n) \in BOOLEAN /\ (~(end < n) => end = n)
    /\ first .. end \subseteq 1 .. n
    /\ \A i \in 1 .. n : i <= end /\ ~(i <= after) => i \in first .. end

\* It begins no later than after the cursor, and within the album.
LEMMA PageBounds ==
    ASSUME NEW after \in Nat, NEW overlap \in Nat, NEW n \in Nat, after <= n
    PROVE  BoundsGood(PageStart(after, overlap), PageEnd(after, n), after, n)
<1> DEFINE first == PageStart(after, overlap)
           end == PageEnd(after, n)
<1>1. first \in Nat \ {0} /\ first <= after + 1
  BY SMTT(60) DEF PageStart
<1>2. end \in Nat /\ end <= n
  BY SMTT(60), BoundAssumption DEF PageEnd
<1> HIDE DEF first, end
<1>3. (end < n) \in BOOLEAN /\ (~(end < n) => end = n)
  BY SMTT(60), <1>2
<1>4. \A i \in 1 .. n : i <= end /\ ~(i <= after) => i \in first .. end
  BY SMTT(60), <1>1, <1>2
<1>5. first .. end \subseteq 1 .. n
  BY SMTT(60), <1>1, <1>2
<1> QED BY <1>1, <1>2, <1>3, <1>4, <1>5 DEF BoundsGood, first, end

\* A page holds assets of its album, and all between the cursor it was asked for
\* and the cursor it ends at; the last page ends with the album.
LEMMA PageGood ==
    ASSUME NEW a \in DOMAIN Library,
           NEW after \in Nat, after <= Len(Library[a]), NEW overlap \in Nat,
           NEW page, page = Page(a, after, overlap)
    PROVE  /\ page.assets \in Seq(Nat) /\ Distinct(page.assets)
           /\ ToSet(page.assets) \subseteq ToSet(Library[a])
           /\ page.hasNext \in BOOLEAN
           /\ page.endCursor \in Nat /\ page.endCursor <= Len(Library[a])
           /\ ~page.hasNext => page.endCursor = Len(Library[a])
           /\ FirstAssets(a, page.endCursor) \subseteq FirstAssets(a, after) \cup ToSet(page.assets)
<1>1. PICK s : s = Library[a]
  OBVIOUS
<1>2. PICK first, end :
        /\ first = PageStart(after, overlap)
        /\ end = PageEnd(after, Len(s))
        /\ page.assets = SubSeq(s, first, end)
        /\ page.hasNext = (end < Len(s))
        /\ page.endCursor = end
  BY <1>1 DEF Page, PageStart, PageEnd
<1>3. s \in Seq(Nat) /\ Distinct(s)
  BY <1>1, LibraryAssumption DEF Distinct
<1>4. Len(s) \in Nat /\ DOMAIN s = 1 .. Len(s)
  BY ONLY SMTT(60), <1>3
<1>5. /\ first \in Nat \ {0} /\ end \in Nat /\ end <= Len(s)
      /\ (end < Len(s)) \in BOOLEAN /\ (~(end < Len(s)) => end = Len(s))
      /\ first .. end \subseteq DOMAIN s
      /\ \A i \in DOMAIN s : i <= end /\ ~(i <= after) => i \in first .. end
  <2>1. after <= Len(s)
    BY <1>1
  <2>3. BoundsGood(first, end, after, Len(s))
    BY <1>2, <1>4, <2>1, PageBounds
  <2> QED BY <1>4, <2>3 DEF BoundsGood
<1>6. /\ page.assets \in Seq(Nat) /\ Distinct(page.assets)
      /\ \A x : x \in ToSet(page.assets) <=> \E i \in first .. end : x = s[i]
  <2>1. /\ SubSeq(s, first, end) \in Seq(Nat) /\ Distinct(SubSeq(s, first, end))
        /\ \A x : x \in ToSet(SubSeq(s, first, end)) <=> \E i \in first .. end : x = s[i]
    BY <1>3, <1>5, PartOfSequence
  <2>2. page.assets = SubSeq(s, first, end)
    BY <1>2
  <2> QED BY <2>1, <2>2
<1>7. ToSet(page.assets) \subseteq ToSet(s)
  BY <1>5, <1>6 DEF ToSet
<1>8. FirstAssets(a, end) \subseteq FirstAssets(a, after) \cup ToSet(page.assets)
  <2> SUFFICES ASSUME NEW x \in FirstAssets(a, end), x \notin FirstAssets(a, after)
               PROVE  x \in ToSet(page.assets)
    OBVIOUS
  <2>1. PICK i \in DOMAIN s : i <= end /\ x = s[i] /\ ~(i <= after)
    BY <1>1 DEF FirstAssets
  <2> QED BY <1>5, <1>6, <2>1
<1> QED BY <1>1, <1>2, <1>5, <1>6, <1>7, <1>8
-----------------------------------------------------------------------------
(* Requests *)

\* No request is on its way for the operation that counts.
NoneCurrent == \A r \in requests : r.op # operation

\* The one request that is not stale says what is loading.
LEMMA TheCurrentOne ==
    ASSUME RequestsGood, NEW r \in requests, r.op = operation
    PROVE  /\ loading <=> r.kind \in {"first", "all"}
           /\ loadingMore <=> r.kind = "more"
           /\ r.album = album
           /\ \A q \in requests : q.op = operation => q = r
  BY DEF RequestsGood

\* While nothing is loading every request is stale.
LEMMA NothingLoads ==
    ASSUME RequestsGood, ~loading, ~loadingMore
    PROVE  NoneCurrent
  BY DEF RequestsGood, NoneCurrent

\* A step after which every request is stale.
LEMMA RequestsOver ==
    ASSUME operation' \in Nat, ~loading', ~loadingMore',
           \A r \in requests' : r.op \in Nat /\ r.op <= operation' /\ r.op # operation'
    PROVE  RequestsGood' /\ CapturedGood' /\ CollectedGood' /\ NoneCurrent'
<1>1. RequestsGood' /\ NoneCurrent'
  BY DEF RequestsGood, NoneCurrent
<1>2. CapturedGood' /\ CollectedGood'
  BY DEF CapturedGood, CollectedGood
<1> QED BY <1>1, <1>2

\* The answer to the request that counted.
LEMMA RequestDone ==
    ASSUME PickTypes, RequestsGood, NEW r \in requests, r.op = operation, requests' = requests \ {r},
           UNCHANGED operation, ~loading', ~loadingMore'
    PROVE  RequestsGood' /\ CapturedGood' /\ CollectedGood' /\ NoneCurrent'
<1>1. \A q \in requests' : q.op \in Nat /\ q.op <= operation' /\ q.op # operation'
  BY TheCurrentOne DEF RequestsGood
<1>2. operation' \in Nat
  BY DEF PickTypes
<1> QED BY <1>1, <1>2, RequestsOver

\* A step after which q is the request that counts.
LEMMA RequestMade ==
    ASSUME operation' \in Nat, NEW q \in requests', q.op = operation', q.album = album',
           q.kind \in {"first", "more", "all"},
           \A r \in requests' \ {q} : r.op \in Nat /\ r.op <= operation' /\ r.op # operation',
           loading' <=> q.kind \in {"first", "all"}, loadingMore' <=> q.kind = "more"
    PROVE  RequestsGood' /\ \A r \in requests' : r.op = operation' => r = q
<1>1. \A r \in requests' : r.op = operation' => r = q
  OBVIOUS
<1>2. operation' <= operation'
  BY SMTT(60)
<1>3. \A r \in requests' : r.op \in Nat /\ r.op <= operation'
  BY <1>2
<1>4. /\ loading' <=> \E r \in requests' : r.op = operation' /\ r.kind \in {"first", "all"}
      /\ loadingMore' <=> \E r \in requests' : r.op = operation' /\ r.kind = "more"
  BY <1>1
<1>5. /\ \A r \in requests' : r.op = operation' =>
            r.album = album' /\ r.kind \in {"first", "more", "all"}
      /\ \A r, s \in requests' : r.op = operation' /\ s.op = operation' => r = s
  BY <1>1
<1> QED BY <1>1, <1>3, <1>4, <1>5 DEF RequestsGood

-----------------------------------------------------------------------------
(* The drag while others move *)

\* Without a drag nothing is remembered of one.
LEMMA DragOff ==
    ASSUME drag' = NoDrag, before' = <<>>
    PROVE  DragTypes' /\ DragGood'
<1>1. /\ drag'.start = None /\ drag'.last = None /\ drag'.baseline = <<>>
      /\ drag' = [start |-> drag'.start, last |-> drag'.last, baseline |-> drag'.baseline]
  BY DEF NoDrag
<1>2. DOMAIN <<>> = {}
  BY SMTT(60)
<1>3. DragTypes'
  BY <1>1, <1>2 DEF DragTypes
<1> QED BY <1>1, <1>2, <1>3 DEF DragGood, DragIsExact

\* A grid that grows, without a change to the cells there were, is nothing to a drag.
LEMMA DragKept ==
    ASSUME DragTypes, DragGood, UNCHANGED <<drag, before>>, DOMAIN media \subseteq DOMAIN media',
           \A i \in DOMAIN media : media'[i] \in selected' <=> media[i] \in selected
    PROVE  DragTypes' /\ DragGood'
<1>1. DragTypes'
  BY DEF DragTypes
<1>2. ASSUME NEW i \in DOMAIN before PROVE Selection'[i] = Selection[i]
  <2>1. i \in DOMAIN media /\ i \in DOMAIN media'
    BY DEF DragGood
  <2>2. Selection[i] = (media[i] \in selected) /\ Selection'[i] = (media'[i] \in selected')
    BY <2>1 DEF Selection
  <2>3. (media[i] \in selected) = (media'[i] \in selected')
    BY SMTT(60), <2>1
  <2> QED BY <2>2, <2>3
<1>3. DragIsExact'
  BY <1>2 DEF DragGood, DragIsExact, NotDragging
<1> QED BY <1>1, <1>3 DEF DragGood

\* When the selection is replaced the drag goes on, and what was before is over.
LEMMA DragReplaced ==
    ASSUME DragTypes, UNCHANGED drag, before' = <<>>, DOMAIN media \subseteq DOMAIN media'
    PROVE  DragTypes' /\ DragGood'
<1>1. DragTypes'
  BY DEF DragTypes
<1>2. DOMAIN <<>> = {}
  BY SMTT(60)
<1> QED BY <1>1, <1>2 DEF DragGood, DragIsExact

\* In an empty grid there is no drag.
LEMMA NoGridNoDrag ==
    ASSUME DragTypes, media = <<>>
    PROVE  drag = NoDrag /\ before = <<>>
<1>1. DOMAIN media = {}
  BY SMTT(60)
<1> QED BY <1>1 DEF DragTypes
-----------------------------------------------------------------------------
(* The steps of the picker *)

\* What a step that is about albums and requests only leaves alone.
GridVars == <<available, media, loaded, cursor, hasNext, selected, drag, before, abandoned>>

\* The grid as it was.
LEMMA GridKept ==
    ASSUME GridGood, DragTypes, DragGood, UNCHANGED <<album, GridVars>>,
           (\A r \in requests' : r.op = operation' => r.kind # "all") =>
             (\A r \in requests : r.op = operation => r.kind # "all")
    PROVE  GridGood' /\ DragTypes' /\ DragGood'
<1>1. UNCHANGED <<album, available, media, loaded, cursor, hasNext, selected, drag, before,
                  abandoned>>
  BY DEF GridVars
<1>2. DragTypes' /\ DragGood'
  BY <1>1, DragKept
<1>3. GridGood'
  BY <1>1 DEF GridGood, FirstAssets
<1> QED BY <1>2, <1>3

\* Only the picker's variables matter.
LEMMA PickStutters ==
    ASSUME PickInv, UNCHANGED pickVars
    PROVE  PickInv'
<1>1. UNCHANGED <<albums, operation, requests, loading, loadingMore, suppress>>
      /\ UNCHANGED <<album, GridVars>>
  BY DEF pickVars, pageVars, GridVars
<1>2. GridGood' /\ DragTypes' /\ DragGood'
  BY <1>1, GridKept DEF PickInv
<1>3. PickTypes' /\ RequestsGood'
  BY <1>1 DEF PickInv, PickTypes, RequestsGood, GridVars
<1>4. CapturedGood' /\ CollectedGood'
  BY <1>1 DEF PickInv, CapturedGood, CollectedGood, GridVars, FirstAssets
<1> QED BY <1>2, <1>3, <1>4 DEF PickInv

\* The list of albums arrives, or does not.
LEMMA AlbumsAnswerStep ==
    ASSUME PickInv, AlbumsAnswer
    PROVE  PickInv'
<1>1. UNCHANGED <<operation, requests, loading, loadingMore, suppress>>
      /\ UNCHANGED <<album, GridVars>> /\ albums' \in {"loaded", "failed"}
  BY DEF AlbumsAnswer, pageVars, GridVars
<1>2. GridGood' /\ DragTypes' /\ DragGood'
  BY <1>1, GridKept DEF PickInv
<1>3. PickTypes' /\ RequestsGood'
  BY <1>1 DEF PickInv, PickTypes, RequestsGood, GridVars
<1>4. CapturedGood' /\ CollectedGood'
  BY <1>1 DEF PickInv, CapturedGood, CollectedGood, GridVars, FirstAssets
<1> QED BY <1>2, <1>3, <1>4 DEF PickInv

\* A stale answer changes nothing that counts.
LEMMA DropStaleStep ==
    ASSUME PickInv, DropStale
    PROVE  PickInv'
<1>1. PICK r \in requests : r.op # operation /\ requests' = requests \ {r}
  BY DEF DropStale
<1>2. UNCHANGED <<albums, operation, loading, loadingMore, suppress>>
      /\ UNCHANGED <<album, GridVars>>
  BY DEF DropStale, GridVars
<1>3. \A q \in requests : q.op = operation => q \in requests'
  BY <1>1
<1>4. GridGood' /\ DragTypes' /\ DragGood'
  BY <1>2, <1>3, GridKept DEF PickInv
<1>5. PickTypes'
  BY <1>2 DEF PickInv, PickTypes, GridVars
<1>6. RequestsGood'
  BY <1>1, <1>2, <1>3 DEF PickInv, RequestsGood, GridVars
<1>7. CapturedGood' /\ CollectedGood'
  BY <1>1, <1>2 DEF PickInv, CapturedGood, CollectedGood, GridVars, FirstAssets
<1> QED BY <1>4, <1>5, <1>6, <1>7 DEF PickInv

\* A change of album makes every request stale but the one it makes.
LEMMA ChangeAlbumStep ==
    ASSUME PickInv, NEW a \in DOMAIN Library, ChangeAlbum(a)
    PROVE  PickInv'
<1>1. /\ album' = a /\ operation' = operation + 1
      /\ requests' = requests \cup {FirstRequest(operation + 1, a)}
      /\ loading' = TRUE /\ loadingMore' = FALSE /\ available' = FALSE
      /\ media' = <<>> /\ loaded' = {} /\ cursor' = 0 /\ hasNext' = FALSE
      /\ selected' = {} /\ abandoned' = {} /\ drag.start = None
      /\ UNCHANGED <<albums, drag, suppress, before>>
  BY DEF ChangeAlbum, NotDragging
<1> DEFINE q == FirstRequest(operation + 1, a)
<1>2. q.op = operation + 1 /\ q.album = a /\ q.kind = "first"
  BY DEF FirstRequest
<1> HIDE DEF q
<1>3. operation \in Nat /\ operation + 1 \in Nat
      /\ \A n \in Nat : n <= operation => n <= operation + 1 /\ n # operation + 1
  BY SMTT(60) DEF PickInv, PickTypes
<1>4. \A r \in requests' \ {q} : r.op \in Nat /\ r.op <= operation' /\ r.op # operation'
  BY <1>1, <1>3 DEF PickInv, RequestsGood, q
<1>5. q \in requests' /\ q.op = operation' /\ q.album = album' /\ operation' \in Nat
      /\ (loading' <=> q.kind \in {"first", "all"}) /\ (loadingMore' <=> q.kind = "more")
  BY <1>1, <1>2, <1>3 DEF q
<1>6. RequestsGood' /\ \A r \in requests' : r.op = operation' => r = q
  BY <1>2, <1>4, <1>5, RequestMade
<1>7. CapturedGood' /\ CollectedGood'
  BY <1>1, <1>2, <1>6 DEF CapturedGood, CollectedGood
<1>8. DragTypes' /\ DragGood'
  BY <1>1, DragOff DEF PickInv, DragTypes
<1>9. Len(Library[a]) \in Nat /\ <<>> \in Seq(Nat) /\ DOMAIN <<>> = {}
  BY SMTT(60), LibraryAssumption
<1>10. GridGood'
  <2>1. 0 <= Len(Library[a])
    BY SMTT(60), <1>9
  <2>2. Distinct(media') /\ ToSet(media') = {}
    BY <1>1, <1>9 DEF Distinct, ToSet
  <2> QED BY <1>1, <2>1, <2>2 DEF GridGood
<1>11. PickTypes'
  BY <1>1, <1>3, <1>9 DEF PickInv, PickTypes
<1> QED BY <1>6, <1>7, <1>8, <1>10, <1>11 DEF PickInv

\* The first page fills the empty grid.
LEMMA FirstPageStep ==
    ASSUME PickInv, FirstPage
    PROVE  PickInv'
<1> DEFINE page == Page(album, 0, 0)
<1>1. PICK r \in requests : /\ r.op = operation /\ r.kind = "first" /\ requests' = requests \ {r}
                            /\ loaded' = ToSet(Page(r.album, 0, 0).assets)
                            /\ media' = Page(r.album, 0, 0).assets
                            /\ cursor' = Page(r.album, 0, 0).endCursor
                            /\ hasNext' = Page(r.album, 0, 0).hasNext
  BY DEF FirstPage, Current
<1>2. /\ loading' = FALSE /\ available' = TRUE
      /\ UNCHANGED <<albums, album, operation, loadingMore, selected, drag, suppress, before,
                     abandoned>>
  BY DEF FirstPage
<1>3. ~loadingMore /\ r.album = album
  BY <1>1, TheCurrentOne DEF PickInv
<1>4. /\ loaded' = ToSet(page.assets) /\ media' = page.assets
      /\ cursor' = page.endCursor /\ hasNext' = page.hasNext
  BY <1>1, <1>3
<1> HIDE DEF page
<1>5. album \in DOMAIN Library /\ Library[album] \in Seq(Nat)
  BY LibraryAssumption DEF PickInv, PickTypes
<1>6. 0 <= Len(Library[album]) /\ 0 \in Nat /\ DOMAIN Library[album] = 1 .. Len(Library[album])
  BY ONLY SMTT(60), <1>5
<1>7. /\ page.assets \in Seq(Nat) /\ Distinct(page.assets)
      /\ ToSet(page.assets) \subseteq ToSet(Library[album])
      /\ page.hasNext \in BOOLEAN
      /\ page.endCursor \in Nat /\ page.endCursor <= Len(Library[album])
      /\ ~page.hasNext => page.endCursor = Len(Library[album])
      /\ FirstAssets(album, page.endCursor) \subseteq FirstAssets(album, 0) \cup ToSet(page.assets)
  BY <1>5, <1>6, PageGood DEF page
<1>8. FirstAssets(album, 0) = {}
  <2>1. \A i \in DOMAIN Library[album] : ~(i <= 0)
    BY ONLY SMTT(60), <1>6
  <2> QED BY <2>1 DEF FirstAssets
<1>9. RequestsGood' /\ CapturedGood' /\ CollectedGood' /\ NoneCurrent'
  BY <1>1, <1>2, <1>3, RequestDone DEF PickInv
<1>10. media = <<>> /\ selected = {}
  <2>1. media = <<>>
    BY <1>1 DEF PickInv, CapturedGood
  <2>2. ToSet(<<>>) = {}
    BY SMTT(60) DEF ToSet
  <2> QED BY <2>1, <2>2 DEF PickInv, GridGood
<1>11. DragTypes' /\ DragGood'
  BY <1>2, <1>10, DragOff, NoGridNoDrag DEF PickInv
<1>12. GridGood'
  BY <1>2, <1>4, <1>7, <1>8, <1>10 DEF GridGood, FirstAssets
<1>13. PickTypes'
  BY <1>2, <1>3, <1>4, <1>7 DEF PickInv, PickTypes
<1> QED BY <1>9, <1>11, <1>12, <1>13 DEF PickInv

\* The grid stays empty.
LEMMA FirstPageFailsStep ==
    ASSUME PickInv, FirstPageFails
    PROVE  PickInv'
<1>1. PICK r \in requests : r.op = operation /\ r.kind = "first" /\ requests' = requests \ {r}
  BY DEF FirstPageFails, Current
<1>2. /\ selected' = {} /\ media' = <<>> /\ loading' = FALSE
      /\ UNCHANGED <<albums, album, operation, loadingMore, available, loaded, cursor, hasNext,
                     drag, suppress, before, abandoned>>
  BY DEF FirstPageFails
<1>3. ~loadingMore
  BY <1>1, TheCurrentOne DEF PickInv
<1>4. RequestsGood' /\ CapturedGood' /\ CollectedGood' /\ NoneCurrent'
  BY <1>1, <1>2, <1>3, RequestDone DEF PickInv
<1>5. media = <<>> /\ \A q \in requests : q.op = operation => q.kind # "all"
  BY <1>1, TheCurrentOne DEF PickInv, CapturedGood
<1>6. DragTypes' /\ DragGood'
  BY <1>2, <1>5, DragOff, NoGridNoDrag DEF PickInv
<1>7. GridGood'
  BY <1>2, <1>5 DEF PickInv, GridGood, FirstAssets
<1>8. PickTypes'
  BY <1>2, <1>5 DEF PickInv, PickTypes
<1> QED BY <1>4, <1>6, <1>7, <1>8 DEF PickInv

\* The next page is asked for, from the cursor.
LEMMA LoadMoreStep ==
    ASSUME PickInv, LoadMore
    PROVE  PickInv'
<1> DEFINE q == [kind |-> "more", op |-> operation, album |-> album, after |-> cursor, all |-> <<>>]
<1>1. /\ ~loading /\ ~loadingMore /\ hasNext /\ loadingMore' = TRUE
      /\ requests' = requests \cup {q} /\ UNCHANGED <<album, GridVars>>
      /\ UNCHANGED <<albums, operation, loading, suppress>>
  BY DEF LoadMore, GridVars
<1>2. q.kind = "more" /\ q.op = operation /\ q.album = album /\ q.after = cursor
  OBVIOUS
<1> HIDE DEF q
<1>3. NoneCurrent /\ operation \in Nat
  BY <1>1, NothingLoads DEF PickInv, PickTypes
<1>4. \A r \in requests' \ {q} : r.op \in Nat /\ r.op <= operation' /\ r.op # operation'
  BY <1>1, <1>3 DEF PickInv, RequestsGood, NoneCurrent
<1>5. RequestsGood' /\ \A r \in requests' : r.op = operation' => r = q
  <2>1. q \in requests' /\ q.op = operation' /\ q.album = album' /\ operation' \in Nat
        /\ (loading' <=> q.kind \in {"first", "all"}) /\ (loadingMore' <=> q.kind = "more")
    BY <1>1, <1>2, <1>3
  <2> QED BY <1>2, <1>4, <2>1, RequestMade
<1>6. CapturedGood' /\ CollectedGood'
  BY <1>1, <1>2, <1>5 DEF CapturedGood, CollectedGood, GridVars
<1>7. GridGood' /\ DragTypes' /\ DragGood'
  BY <1>1, <1>3, GridKept DEF PickInv, NoneCurrent
<1>8. PickTypes'
  BY <1>1 DEF PickInv, PickTypes, GridVars
<1> QED BY <1>5, <1>6, <1>7, <1>8 DEF PickInv

\* The request for the next page fails; it can be asked for again.
LEMMA MoreFailsStep ==
    ASSUME PickInv, MoreFails
    PROVE  PickInv'
<1>1. PICK r \in requests : r.op = operation /\ r.kind = "more" /\ requests' = requests \ {r}
  BY DEF MoreFails, Current
<1>2. /\ loadingMore' = FALSE /\ UNCHANGED <<album, GridVars>>
      /\ UNCHANGED <<albums, operation, loading, suppress>>
  BY DEF MoreFails, GridVars
<1>3. ~loading /\ \A q \in requests : q.op = operation => q.kind # "all"
  BY <1>1, TheCurrentOne DEF PickInv
<1>4. RequestsGood' /\ CapturedGood' /\ CollectedGood' /\ NoneCurrent'
  BY <1>1, <1>2, <1>3, RequestDone DEF PickInv
<1>5. GridGood' /\ DragTypes' /\ DragGood'
  BY <1>2, <1>3, GridKept DEF PickInv
<1>6. PickTypes'
  BY <1>2 DEF PickInv, PickTypes, GridVars
<1> QED BY <1>4, <1>5, <1>6 DEF PickInv

\* List t is list s with what the page adds; known is what is loaded now.
Appended(s, t, known, a, page) ==
    /\ t \in Seq(Nat) /\ Distinct(t) /\ Len(s) <= Len(t)
    /\ \A i \in DOMAIN s : t[i] = s[i]
    /\ ToSet(s) \subseteq ToSet(t) /\ ToSet(t) \subseteq known
    /\ known \subseteq ToSet(t) \cup abandoned
    /\ known \subseteq ToSet(Library[a])
    /\ page.hasNext \in BOOLEAN
    /\ page.endCursor \in Nat /\ page.endCursor <= Len(Library[a])
    /\ ~page.hasNext => page.endCursor = Len(Library[a])
    /\ FirstAssets(a, page.endCursor) \subseteq ToSet(t) \cup abandoned

\* All of list s is loaded, and it has all that is loaded and not abandoned, so
\* all up to a cursor.
UpTo(s, a, after) ==
    /\ s \in Seq(Nat) /\ Distinct(s) /\ ToSet(s) \subseteq loaded
    /\ loaded \subseteq ToSet(s) \cup abandoned
    /\ loaded \subseteq ToSet(Library[a])
    /\ after \in Nat /\ after <= Len(Library[a])
    /\ FirstAssets(a, after) \subseteq ToSet(s) \cup abandoned

\* What a page adds to such a list.
LEMMA PageAdded ==
    ASSUME NEW s, NEW a \in DOMAIN Library, NEW after, UpTo(s, a, after),
           NEW overlap \in Nat, NEW page, page = Page(a, after, overlap)
    PROVE  Appended(s, s \o Additions(page, loaded), loaded \cup ToSet(page.assets), a, page)
<1> DEFINE t == s \o Additions(page, loaded)
           known == loaded \cup ToSet(page.assets)
<1> USE DEF UpTo
<1> DEFINE new == Additions(page, loaded)
<1>1. /\ page.assets \in Seq(Nat) /\ Distinct(page.assets)
      /\ ToSet(page.assets) \subseteq ToSet(Library[a])
      /\ page.hasNext \in BOOLEAN
      /\ page.endCursor \in Nat /\ page.endCursor <= Len(Library[a])
      /\ ~page.hasNext => page.endCursor = Len(Library[a])
      /\ FirstAssets(a, page.endCursor) \subseteq FirstAssets(a, after) \cup ToSet(page.assets)
  BY PageGood
<1>2. new \in Seq(Nat) /\ Distinct(new) /\ ToSet(new) = ToSet(page.assets) \ loaded
  BY <1>1, AdditionsGood
<1> HIDE DEF new
<1>3. ToSet(s) \cap ToSet(new) = {}
  BY <1>2
<1>4. /\ t \in Seq(Nat) /\ Len(s) <= Len(t) /\ Distinct(t)
      /\ \A i \in DOMAIN s : t[i] = s[i]
      /\ ToSet(t) = ToSet(s) \cup ToSet(new)
  <2>1. t = s \o new
    BY DEF new
  <2> HIDE DEF t
  <2>2. /\ s \o new \in Seq(Nat) /\ Len(s) <= Len(s \o new) /\ Distinct(s \o new)
        /\ \A i \in DOMAIN s : (s \o new)[i] = s[i]
        /\ ToSet(s \o new) = ToSet(s) \cup ToSet(new)
    BY <1>2, <1>3, ConcatGood
  <2> QED BY <2>1, <2>2
<1> HIDE DEF t
<1>5. /\ ToSet(s) \subseteq ToSet(t) /\ ToSet(t) \subseteq known
      /\ known \subseteq ToSet(t) \cup abandoned /\ known \subseteq ToSet(Library[a])
  BY <1>1, <1>2, <1>4
<1>6. FirstAssets(a, page.endCursor) \subseteq ToSet(t) \cup abandoned
  BY <1>1, <1>5
<1>7. Appended(s, t, known, a, page)
  BY <1>1, <1>4, <1>5, <1>6 DEF Appended
<1> QED BY <1>7 DEF t

\* Where one sequence is as long as another, it has its positions.
LEMMA LongerHasAll ==
    ASSUME NEW s \in Seq(Nat), NEW t \in Seq(Nat), Len(s) <= Len(t)
    PROVE  DOMAIN s \subseteq DOMAIN t
  BY SMTT(60)

\* The next page is appended.
LEMMA MorePageStep ==
    ASSUME PickInv, MorePage
    PROVE  PickInv'
<1>1. PICK r \in requests, overlap \in 0 .. MaxOverlap :
         /\ r.op = operation /\ r.kind = "more" /\ requests' = requests \ {r}
         /\ media' = media \o Additions(Page(r.album, r.after, overlap), loaded)
         /\ loaded' = loaded \cup ToSet(Page(r.album, r.after, overlap).assets)
         /\ cursor' = Page(r.album, r.after, overlap).endCursor
         /\ hasNext' = Page(r.album, r.after, overlap).hasNext
  BY DEF MorePage, Current
<1>2. /\ loadingMore' = FALSE
      /\ UNCHANGED <<albums, album, operation, loading, available, selected, drag, suppress,
                     before, abandoned>>
  BY DEF MorePage
<1>3. ~loading /\ r.album = album /\ \A q \in requests : q.op = operation => q.kind # "all"
  BY <1>1, TheCurrentOne DEF PickInv
<1>4. hasNext /\ r.after = cursor
  BY <1>1 DEF PickInv, CapturedGood
<1>5. PICK page : /\ page = Page(album, cursor, overlap)
                  /\ media' = media \o Additions(page, loaded)
                  /\ loaded' = loaded \cup ToSet(page.assets)
                  /\ cursor' = page.endCursor /\ hasNext' = page.hasNext
  BY <1>1, <1>3, <1>4
<1>6. overlap \in Nat
  BY SMTT(60), BoundAssumption
<1>7. /\ UpTo(media, album, cursor) /\ album \in DOMAIN Library
      /\ media \in Seq(Nat) /\ available /\ selected \subseteq ToSet(media)
  BY <1>3, <1>4 DEF PickInv, PickTypes, GridGood, UpTo
<1>8. /\ media' \in Seq(Nat) /\ Distinct(media') /\ Len(media) <= Len(media')
      /\ \A i \in DOMAIN media : media'[i] = media[i]
      /\ ToSet(media) \subseteq ToSet(media') /\ ToSet(media') \subseteq loaded'
      /\ loaded' \subseteq ToSet(media') \cup abandoned
      /\ loaded' \subseteq ToSet(Library[album])
      /\ hasNext' \in BOOLEAN
      /\ cursor' \in Nat /\ cursor' <= Len(Library[album])
      /\ ~hasNext' => cursor' = Len(Library[album])
      /\ FirstAssets(album, cursor') \subseteq ToSet(media') \cup abandoned
  <2>1. Appended(media, media \o Additions(page, loaded), loaded \cup ToSet(page.assets), album,
                 page)
    BY <1>5, <1>6, <1>7, PageAdded
  <2>2. Appended(media, media', loaded', album, page)
    BY <1>5, <2>1
  <2> QED BY <1>5, <2>2 DEF Appended
<1>9. RequestsGood' /\ CapturedGood' /\ CollectedGood' /\ NoneCurrent'
  BY <1>1, <1>2, <1>3, RequestDone DEF PickInv
<1>10. DragTypes' /\ DragGood'
  <2>1. DOMAIN media \subseteq DOMAIN media'
    BY <1>7, <1>8, LongerHasAll
  <2> QED BY <1>2, <1>8, <2>1, DragKept DEF PickInv
<1>11. GridGood'
  BY <1>2, <1>7, <1>8 DEF GridGood, FirstAssets
<1>12. PickTypes'
  BY <1>2, <1>8 DEF PickInv, PickTypes
<1> QED BY <1>9, <1>10, <1>11, <1>12 DEF PickInv

\* All is shown and selected. The grid is list s, which has all there is.
LEMMA EverythingSelected ==
    ASSUME PickInv, NEW s \in Seq(Nat), Distinct(s), Len(media) <= Len(s),
           ToSet(s) \subseteq loaded', loaded' \subseteq ToSet(s) \cup abandoned,
           loaded' \subseteq ToSet(Library[album]), NEW after \in Nat,
           after <= Len(Library[album]),
           available => after = Len(Library[album])
                          /\ FirstAssets(album, after) \subseteq ToSet(s) \cup abandoned,
           SelectEverything(s, after), NoneCurrent',
           UNCHANGED <<albums, album, operation, loadingMore, available, drag, suppress, abandoned>>
    PROVE  PickTypes' /\ GridGood' /\ DragTypes' /\ DragGood'
<1>1. /\ cursor' = after /\ hasNext' = FALSE /\ media' = s /\ selected' = ToSet(s)
      /\ loading' = FALSE /\ before' = <<>>
  BY DEF SelectEverything
<1>2. PickTypes'
  BY <1>1 DEF PickInv, PickTypes
<1>3. GridGood'
  BY <1>1 DEF GridGood, FirstAssets
<1>4. DOMAIN media \subseteq DOMAIN media'
  BY <1>1, LongerHasAll DEF PickInv, PickTypes
<1>5. DragTypes' /\ DragGood'
  BY <1>1, <1>4, DragReplaced DEF PickInv
<1> QED BY <1>2, <1>3, <1>5

\* Select All begins, with what is shown, or is done at once.
LEMMA SelectAllStep ==
    ASSUME PickInv, SelectAll
    PROVE  PickInv'
<1>1. /\ ~loading /\ ~loadingMore
      /\ UNCHANGED <<albums, album, operation, loadingMore, available, loaded, drag, suppress,
                     abandoned>>
  BY DEF SelectAll
<1>2. NoneCurrent /\ operation \in Nat
  BY <1>1, NothingLoads DEF PickInv, PickTypes
<1>3. /\ media \in Seq(Nat) /\ cursor \in Nat /\ album \in DOMAIN Library /\ Distinct(media)
      /\ ToSet(media) \subseteq loaded /\ loaded \subseteq ToSet(media) \cup abandoned
      /\ loaded \subseteq ToSet(Library[album]) /\ cursor <= Len(Library[album])
      /\ available => FirstAssets(album, cursor) \subseteq ToSet(media) \cup abandoned
      /\ hasNext => available
  BY <1>2 DEF PickInv, PickTypes, GridGood, NoneCurrent
<1>4. Len(media) <= Len(media)
  BY ONLY SMTT(60), <1>3
<1>5. CASE hasNext
  <2> DEFINE q == [kind |-> "all", op |-> operation, album |-> album, after |-> cursor,
                   all |-> media]
  <2>1. /\ loading' = TRUE /\ requests' = requests \cup {q}
        /\ UNCHANGED <<cursor, hasNext, media, selected, before>>
    BY <1>5 DEF SelectAll
  <2>2. /\ q.kind = "all" /\ q.op = operation /\ q.album = album /\ q.after = cursor /\ q.all = media
        /\ IsRequest(q)
    BY DEF IsRequest
  <2> HIDE DEF q
  <2>3. \A r \in requests' \ {q} : r.op \in Nat /\ r.op <= operation' /\ r.op # operation'
    BY <1>1, <1>2, <2>1 DEF PickInv, RequestsGood, NoneCurrent
  <2>4. RequestsGood' /\ \A r \in requests' : r.op = operation' => r = q
    <3>1. q \in requests' /\ q.op = operation' /\ q.album = album' /\ operation' \in Nat
          /\ (loading' <=> q.kind \in {"first", "all"}) /\ (loadingMore' <=> q.kind = "more")
      BY <1>1, <1>2, <2>1, <2>2
    <3> QED BY <2>2, <2>3, <3>1, RequestMade
  <2>5. CapturedGood'
    BY <2>2, <2>4 DEF CapturedGood
  <2>6. CollectedGood'
    <3> SUFFICES ASSUME NEW p \in requests', p = q
                 PROVE  (/\ IsRequest(p)
                         /\ hasNext' /\ p.all \in Seq(Nat) /\ Distinct(p.all)
                         /\ Len(media') <= Len(p.all)
                         /\ ToSet(media') \subseteq ToSet(p.all) /\ ToSet(p.all) \subseteq loaded'
                         /\ loaded' \subseteq ToSet(p.all) \cup abandoned'
                         /\ p.after \in Nat /\ p.after <= Len(Library[album'])
                         /\ FirstAssets(album', p.after) \subseteq ToSet(p.all) \cup abandoned')
      BY <2>4 DEF CollectedGood
    <3> QED BY <1>1, <1>3, <1>4, <1>5, <2>1, <2>2
  <2>7. UNCHANGED <<album, GridVars>>
    BY <1>1, <2>1 DEF GridVars
  <2>8. GridGood' /\ DragTypes' /\ DragGood'
    BY <1>2, <2>7, GridKept DEF PickInv, NoneCurrent
  <2>9. PickTypes'
    BY <1>1, <2>1 DEF PickInv, PickTypes
  <2> QED BY <2>4, <2>5, <2>6, <2>8, <2>9 DEF PickInv
<1>6. CASE ~hasNext
  <2>1. SelectEverything(media, cursor) /\ UNCHANGED requests
    BY <1>6 DEF SelectAll
  <2>2. RequestsGood' /\ CapturedGood' /\ CollectedGood' /\ NoneCurrent'
    <3>1. /\ operation' \in Nat /\ ~loading' /\ ~loadingMore'
          /\ \A r \in requests' : r.op \in Nat /\ r.op <= operation' /\ r.op # operation'
      BY <1>1, <1>2, <2>1 DEF PickInv, RequestsGood, NoneCurrent, SelectEverything
    <3> QED BY <3>1, RequestsOver
  <2>3. available => cursor = Len(Library[album])
    BY <1>6 DEF PickInv, GridGood
  <2>4. /\ ToSet(media) \subseteq loaded' /\ loaded' \subseteq ToSet(media) \cup abandoned
        /\ loaded' \subseteq ToSet(Library[album])
    BY <1>1, <1>3
  <2>5. PickTypes' /\ GridGood' /\ DragTypes' /\ DragGood'
    BY <1>1, <1>3, <1>4, <2>1, <2>2, <2>3, <2>4, EverythingSelected
  <2> QED BY <2>2, <2>5 DEF PickInv
<1> QED BY <1>5, <1>6

\* Request q is request r with another cursor and another list.
Continues(q, r, after, all) ==
    /\ q.kind = r.kind /\ q.op = r.op /\ q.album = r.album /\ q.after = after /\ q.all = all
    /\ IsRequest(q)

\* What EXCEPT makes of a request.
LEMMA RequestContinued ==
    ASSUME NEW r, IsRequest(r), NEW f, NEW s
    PROVE  Continues([r EXCEPT !.after = f, !.all = s], r, f, s)
<1> DEFINE q == [r EXCEPT !.after = f, !.all = s]
<1>1. PICK kind, op, a, after, all :
         /\ kind = r.kind /\ op = r.op /\ a = r.album /\ after = r.after /\ all = r.all
         /\ r = [kind |-> kind, op |-> op, album |-> a, after |-> after, all |-> all]
  BY DEF IsRequest
<1>2. /\ q.kind = kind /\ q.op = op /\ q.album = a /\ q.after = f /\ q.all = s
      /\ q = [x \in {"kind", "op", "album", "after", "all"} |-> q[x]]
  BY <1>1
<1> HIDE DEF q
<1>3. IsRequest(q)
  BY <1>2 DEF IsRequest
<1>4. Continues(q, r, f, s)
  BY <1>1, <1>2, <1>3 DEF Continues
<1> QED BY <1>4 DEF q

\* A page of Select All is collected; after the last one all is shown.
LEMMA SelectAllPageStep ==
    ASSUME PickInv, SelectAllPage
    PROVE  PickInv'
<1>1. PICK r \in requests, overlap \in 0 .. MaxOverlap :
         LET page == Page(r.album, r.after, overlap)
             all == r.all \o Additions(page, loaded)
         IN /\ r.op = operation /\ r.kind = "all"
            /\ loaded' = loaded \cup ToSet(page.assets)
            /\ IF page.hasNext
               THEN /\ requests' = (requests \ {r}) \cup {[r EXCEPT !.after = page.endCursor,
                                                                   !.all = all]}
                    /\ UNCHANGED <<cursor, hasNext, media, selected, loading, before>>
               ELSE /\ requests' = requests \ {r}
                    /\ SelectEverything(all, page.endCursor)
  BY DEF SelectAllPage, Current
<1>2. UNCHANGED <<albums, album, operation, loadingMore, available, drag, suppress, abandoned>>
  BY DEF SelectAllPage
<1>3. r.op = operation /\ r.kind = "all"
  BY <1>1
<1>4. /\ loading /\ ~loadingMore /\ r.album = album
      /\ \A q \in requests : q.op = operation => q = r
  BY <1>3, TheCurrentOne DEF PickInv
<1>5. PICK page, all :
         /\ page = Page(album, r.after, overlap)
         /\ all = r.all \o Additions(page, loaded)
         /\ loaded' = loaded \cup ToSet(page.assets)
         /\ page.hasNext =>
              /\ requests' = (requests \ {r}) \cup {[r EXCEPT !.after = page.endCursor, !.all = all]}
              /\ UNCHANGED <<cursor, hasNext, media, selected, loading, before>>
         /\ ~page.hasNext => requests' = requests \ {r} /\ SelectEverything(all, page.endCursor)
  BY <1>1, <1>4
<1>6. /\ UpTo(r.all, album, r.after) /\ hasNext /\ Len(media) <= Len(r.all)
      /\ ToSet(media) \subseteq ToSet(r.all) /\ available /\ album \in DOMAIN Library
      /\ media \in Seq(Nat) /\ r.all \in Seq(Nat) /\ operation \in Nat
  BY <1>3 DEF PickInv, PickTypes, CollectedGood, GridGood, UpTo
<1>7. overlap \in Nat
  BY SMTT(60), BoundAssumption
<1>8. Appended(r.all, all, loaded', album, page)
  <2>1. Appended(r.all, r.all \o Additions(page, loaded), loaded \cup ToSet(page.assets), album,
                 page)
    BY <1>5, <1>6, <1>7, PageAdded
  <2> QED BY <1>5, <2>1
<1>9. /\ all \in Seq(Nat) /\ Distinct(all) /\ Len(media) <= Len(all)
      /\ ToSet(media) \subseteq ToSet(all) /\ ToSet(all) \subseteq loaded'
      /\ loaded' \subseteq ToSet(all) \cup abandoned
      /\ loaded' \subseteq ToSet(Library[album])
      /\ page.hasNext \in BOOLEAN
      /\ page.endCursor \in Nat /\ page.endCursor <= Len(Library[album])
      /\ ~page.hasNext => page.endCursor = Len(Library[album])
      /\ FirstAssets(album, page.endCursor) \subseteq ToSet(all) \cup abandoned
  <2>1. all \in Seq(Nat) /\ Len(r.all) <= Len(all)
    BY <1>8 DEF Appended
  <2>2. Len(media) <= Len(all)
    BY ONLY SMTT(60), <1>6, <2>1
  <2> QED BY <1>6, <1>8, <2>2 DEF Appended
<1>10. CASE page.hasNext
  <2> DEFINE q == [r EXCEPT !.after = page.endCursor, !.all = all]
  <2>1. /\ requests' = (requests \ {r}) \cup {q}
        /\ UNCHANGED <<cursor, hasNext, media, selected, loading, before>>
    BY <1>5, <1>10
  <2>2. /\ q.kind = "all" /\ q.op = operation /\ q.album = album /\ q.after = page.endCursor
        /\ q.all = all
        /\ IsRequest(q)
    <3>1. IsRequest(r)
      BY <1>3 DEF PickInv, CollectedGood
    <3>2. Continues(q, r, page.endCursor, all)
      BY <3>1, RequestContinued
    <3> HIDE DEF q
    <3> QED BY <1>3, <1>4, <3>2 DEF Continues
  <2> HIDE DEF q
  <2>3. \A p \in requests' \ {q} : p.op \in Nat /\ p.op <= operation' /\ p.op # operation'
    BY <1>2, <1>4, <2>1 DEF PickInv, RequestsGood
  <2>4. RequestsGood' /\ \A p \in requests' : p.op = operation' => p = q
    <3>1. q \in requests' /\ q.op = operation' /\ q.album = album' /\ operation' \in Nat
          /\ (loading' <=> q.kind \in {"first", "all"}) /\ (loadingMore' <=> q.kind = "more")
      BY <1>2, <1>4, <1>6, <2>1, <2>2
    <3> QED BY <2>2, <2>3, <3>1, RequestMade
  <2>5. CapturedGood'
    BY <2>2, <2>4 DEF CapturedGood
  <2>6. CollectedGood'
    <3> SUFFICES ASSUME NEW p \in requests', p = q
                 PROVE  (/\ IsRequest(p)
                         /\ hasNext' /\ p.all \in Seq(Nat) /\ Distinct(p.all)
                         /\ Len(media') <= Len(p.all)
                         /\ ToSet(media') \subseteq ToSet(p.all) /\ ToSet(p.all) \subseteq loaded'
                         /\ loaded' \subseteq ToSet(p.all) \cup abandoned'
                         /\ p.after \in Nat /\ p.after <= Len(Library[album'])
                         /\ FirstAssets(album', p.after) \subseteq ToSet(p.all) \cup abandoned')
      BY <2>4 DEF CollectedGood
    <3> QED BY <1>2, <1>6, <1>9, <2>1, <2>2
  <2>7. DragTypes' /\ DragGood'
    BY <1>2, <2>1, DragKept DEF PickInv
  <2>8. GridGood'
    <3>1. q \in requests' /\ q.op = operation' /\ q.kind = "all"
      BY <1>2, <2>1, <2>2
    <3>2. ToSet(media') \subseteq loaded'
      BY <1>9, <2>1
    <3> QED BY <1>2, <1>9, <2>1, <3>1, <3>2 DEF PickInv, GridGood, FirstAssets
  <2>9. PickTypes'
    BY <1>2, <2>1 DEF PickInv, PickTypes
  <2> QED BY <2>4, <2>5, <2>6, <2>7, <2>8, <2>9 DEF PickInv
<1>11. CASE ~page.hasNext
  <2>1. requests' = requests \ {r} /\ SelectEverything(all, page.endCursor)
    BY <1>5, <1>11
  <2>2. ~loading' /\ ~loadingMore'
    BY <1>2, <1>4, <2>1 DEF SelectEverything
  <2>3. RequestsGood' /\ CapturedGood' /\ CollectedGood' /\ NoneCurrent'
    BY <1>2, <1>3, <2>1, <2>2, RequestDone DEF PickInv
  <2>4. PickTypes' /\ GridGood' /\ DragTypes' /\ DragGood'
    BY <1>2, <1>9, <1>11, <2>1, <2>3, EverythingSelected
  <2> QED BY <2>3, <2>4 DEF PickInv
<1> QED BY <1>9, <1>10, <1>11

\* Select All gives up. What it had fetched counts as loaded but is not shown.
LEMMA SelectAllFailsStep ==
    ASSUME PickInv, SelectAllFails
    PROVE  PickInv'
<1>1. PICK r \in requests : /\ r.op = operation /\ r.kind = "all" /\ requests' = requests \ {r}
                            /\ abandoned' = abandoned \cup (ToSet(r.all) \ ToSet(media))
  BY DEF SelectAllFails, Current
<1>2. /\ loading' = FALSE
      /\ UNCHANGED <<albums, album, operation, loadingMore, available, media, loaded, cursor,
                     hasNext, selected, drag, suppress, before>>
  BY DEF SelectAllFails
<1>3. ~loadingMore
  BY <1>1, TheCurrentOne DEF PickInv
<1>4. RequestsGood' /\ CapturedGood' /\ CollectedGood' /\ NoneCurrent'
  BY <1>1, <1>2, <1>3, RequestDone DEF PickInv
<1>5. loaded \subseteq ToSet(r.all) \cup abandoned
  BY <1>1 DEF PickInv, CollectedGood
<1>6. loaded' \subseteq ToSet(media') \cup abandoned' /\ abandoned \subseteq abandoned'
  BY <1>1, <1>2, <1>5
<1>7. GridGood'
  BY <1>2, <1>6 DEF PickInv, GridGood, FirstAssets
<1>8. DragTypes' /\ DragGood'
  BY <1>2, DragKept DEF PickInv
<1>9. PickTypes'
  BY <1>2 DEF PickInv, PickTypes
<1> QED BY <1>4, <1>7, <1>8, <1>9 DEF PickInv
-----------------------------------------------------------------------------
(* Taps and drags *)

\* A step of the selection leaves the pages alone.
LEMMA PagesKept ==
    ASSUME PickInv, UNCHANGED <<albums, album, operation, pageVars, abandoned>>,
           selected' \subseteq ToSet(media), suppress' \in BOOLEAN, DragTypes', DragGood'
    PROVE  PickInv'
<1>1. UNCHANGED <<albums, album, operation, abandoned, loading, loadingMore, available, media,
                  loaded, cursor, hasNext, requests>>
  BY DEF pageVars
<1>2. PickTypes'
  BY <1>1 DEF PickInv, PickTypes
<1>3. RequestsGood'
  BY <1>1 DEF PickInv, RequestsGood
<1>4. CapturedGood'
  BY <1>1 DEF PickInv, CapturedGood
<1>5. CollectedGood'
  BY <1>1 DEF PickInv, CollectedGood, FirstAssets
<1>6. GridGood'
  BY <1>1 DEF PickInv, GridGood, FirstAssets
<1> QED BY <1>2, <1>3, <1>4, <1>5, <1>6 DEF PickInv

\* Without a drag nothing is said of the selection.
LEMMA NoDragKept ==
    ASSUME DragTypes, NotDragging, UNCHANGED <<drag, before>>
    PROVE  DragTypes' /\ DragGood'
BY DragOff DEF DragTypes, NotDragging

LEMMA DeselectAllStep ==
    ASSUME PickInv, DeselectAll
    PROVE  PickInv'
<1>1. /\ selected' = {} /\ before' = <<>>
      /\ UNCHANGED <<albums, album, operation, pageVars, drag, suppress, abandoned>>
  BY DEF DeselectAll
<1>2. DragTypes' /\ DragGood'
  BY <1>1, DragReplaced DEF PickInv, pageVars
<1>3. suppress' \in BOOLEAN
  BY <1>1 DEF PickInv, PickTypes
<1> QED BY <1>1, <1>2, <1>3, PagesKept

LEMMA TapStep ==
    ASSUME PickInv, NEW i, Tap(i)
    PROVE  PickInv'
<1>1. /\ NotDragging /\ i \in DOMAIN media
      /\ UNCHANGED <<albums, album, operation, pageVars, drag, before, abandoned>>
  BY DEF Tap
<1>2. DragTypes' /\ DragGood'
  BY <1>1, NoDragKept DEF PickInv
<1>3. suppress' \in BOOLEAN
  BY DEF PickInv, PickTypes, Tap
<1>4. media[i] \in ToSet(media)
  BY <1>1 DEF ToSet
<1>5. selected' \subseteq ToSet(media)
  BY <1>4 DEF PickInv, GridGood, Tap
<1> QED BY <1>1, <1>2, <1>3, <1>5, PagesKept

\* What DragOver does, with names for its parts.
RangeOf(d) == IF d.last = None THEN {} ELSE CellRange(d.start, d.last)

BaselineOf(d, W, N) ==
    [j \in DOMAIN d.baseline \cup ((W \ N) \cup (N \ W)) |->
       IF j \in DOMAIN d.baseline THEN d.baseline[j] ELSE media[j] \in selected]

Redrawn(W, N, b) ==
    selected' = (selected \ {media[j] : j \in W \ N})
                  \cup {media[j] : j \in (N \ W) \cup {k \in W \ N : b[k]}}

\* The selection after the range went from W to N, cell by cell. An asset is in
\* one cell only.
LEMMA CellsChanged ==
    ASSUME Distinct(media), NEW W \in SUBSET DOMAIN media, NEW N \in SUBSET DOMAIN media, NEW b,
           Redrawn(W, N, b),
           NEW i \in DOMAIN media
    PROVE  media[i] \in selected' <=>
             \/ i \in N \ W
             \/ i \in W \ N /\ b[i]
             \/ i \notin W \ N /\ media[i] \in selected
<1>1. media[i] \in {media[j] : j \in W \ N} <=> i \in W \ N
  BY DEF Distinct
<1>2. media[i] \in {media[j] : j \in (N \ W) \cup {k \in W \ N : b[k]}} <=>
        i \in (N \ W) \cup {k \in W \ N : b[k]}
  BY DEF Distinct
<1> QED BY <1>1, <1>2 DEF Redrawn

\* The range between two cells of the grid is in the grid.
LEMMA RangeInGrid ==
    ASSUME NEW m \in Seq(Nat), NEW i \in DOMAIN m, NEW j \in DOMAIN m
    PROVE  CellRange(i, j) \subseteq DOMAIN m /\ i # None /\ j # None /\ CellRange(i, i) = {i}
BY SMTT(60) DEF CellRange, None

\* DragOver in these terms.
LEMMA DragOverIs ==
    ASSUME NEW d, NEW i, DragOver(d, i)
    PROVE  /\ drag' = [d EXCEPT !.last = i,
                                !.baseline = BaselineOf(d, RangeOf(d), CellRange(d.start, i))]
           /\ Redrawn(RangeOf(d), CellRange(d.start, i),
                      BaselineOf(d, RangeOf(d), CellRange(d.start, i)))
BY DEF DragOver, RangeOf, BaselineOf, Redrawn

\* A drag by its fields.
DragIs(d, start, last, baseline) == d = [start |-> start, last |-> last, baseline |-> baseline]

\* The drag after DragOver.
LEMMA DragFields ==
    ASSUME NEW d, NEW start, NEW last, NEW baseline, DragIs(d, start, last, baseline), NEW i, NEW b
    PROVE  DragIs([d EXCEPT !.last = i, !.baseline = b], start, i, b)
<1> DEFINE e == [d EXCEPT !.last = i, !.baseline = b]
<1>1. /\ e.start = start /\ e.last = i /\ e.baseline = b
      /\ e = [x \in {"start", "last", "baseline"} |-> e[x]]
  BY DEF DragIs
<1> HIDE DEF e
<1>2. DragIs(e, start, i, b)
  BY <1>1 DEF DragIs
<1> QED BY <1>2 DEF e

\* The drag before it has a range.
LEMMA DragStartFields ==
    ASSUME NEW i
    PROVE  DragIs([NoDrag EXCEPT !.start = i], i, None, <<>>)
<1> DEFINE e == [NoDrag EXCEPT !.start = i]
<1>1. /\ e.start = i /\ e.last = None /\ e.baseline = <<>>
      /\ e = [x \in {"start", "last", "baseline"} |-> e[x]]
  BY DEF NoDrag
<1> HIDE DEF e
<1>2. DragIs(e, i, None, <<>>)
  BY <1>1 DEF DragIs
<1> QED BY <1>2 DEF e

\* The finger moves: cells that enter the range are selected, and cells that
\* leave it are again what they were.
LEMMA DragMoveStep ==
    ASSUME PickInv, NEW i \in DOMAIN media, DragMove(i)
    PROVE  PickInv'
<1>1. /\ ~NotDragging /\ DragOver(drag, i)
      /\ UNCHANGED <<albums, album, operation, pageVars, suppress, before, abandoned>>
  BY DEF DragMove
<1>2. /\ media \in Seq(Nat) /\ Distinct(media) /\ selected \subseteq ToSet(media)
      /\ suppress \in BOOLEAN /\ UNCHANGED media
  BY <1>1 DEF PickInv, PickTypes, GridGood, pageVars
<1>3. /\ drag = [start |-> drag.start, last |-> drag.last, baseline |-> drag.baseline]
      /\ drag.start # None /\ drag.start \in DOMAIN media /\ drag.last \in DOMAIN media
      /\ CellRange(drag.start, drag.last) \subseteq DOMAIN drag.baseline
      /\ DOMAIN drag.baseline \subseteq DOMAIN media
  BY <1>1 DEF PickInv, DragTypes, NotDragging
<1>16. PICK W, N, s, b :
         /\ W = RangeOf(drag) /\ N = CellRange(drag.start, i) /\ s = drag.start
         /\ b = BaselineOf(drag, RangeOf(drag), CellRange(drag.start, i))
  OBVIOUS
<1>4. /\ W = CellRange(drag.start, drag.last) /\ N = CellRange(drag.start, i) /\ s = drag.start
      /\ b = BaselineOf(drag, W, N) /\ Redrawn(W, N, b)
      /\ drag' = [start |-> s, last |-> i, baseline |-> b]
  <2>1. drag.last # None
    BY <1>2, <1>3, RangeInGrid
  <2>2. W = CellRange(drag.start, drag.last)
    BY <1>16, <2>1 DEF RangeOf
  <2>3. b = BaselineOf(drag, W, N) /\ Redrawn(W, N, b)
    BY <1>1, <1>16, DragOverIs
  <2>4. drag' = [drag EXCEPT !.last = i, !.baseline = b]
    BY <1>1, <1>16, DragOverIs
  <2>5. DragIs(drag, s, drag.last, drag.baseline)
    BY <1>3, <1>16 DEF DragIs
  <2>6. DragIs([drag EXCEPT !.last = i, !.baseline = b], s, i, b)
    BY <2>5, DragFields
  <2> QED BY <1>16, <2>2, <2>3, <2>4, <2>6 DEF DragIs
<1>5. W \subseteq DOMAIN media /\ N \subseteq DOMAIN media
  BY <1>2, <1>3, <1>4, RangeInGrid
<1>6. /\ DOMAIN b = DOMAIN drag.baseline \cup (N \ W)
      /\ \A j \in DOMAIN drag.baseline : b[j] = drag.baseline[j]
      /\ \A j \in (N \ W) \ DOMAIN drag.baseline : b[j] = (media[j] \in selected)
  <2>1. W \subseteq DOMAIN drag.baseline
    BY <1>3, <1>4
  <2>2. DOMAIN b = DOMAIN drag.baseline \cup ((W \ N) \cup (N \ W))
    BY <1>4 DEF BaselineOf
  <2> QED BY <1>4, <2>1, <2>2 DEF BaselineOf
<1>7. drag'.start = s /\ drag'.last = i /\ drag'.baseline = b
  BY <1>4
<1>8. drag' = [start |-> drag'.start, last |-> drag'.last, baseline |-> drag'.baseline]
  BY <1>4, <1>7
<1>9. DragTypes'
  <2>1. N \subseteq DOMAIN b /\ DOMAIN b \subseteq DOMAIN media
    BY <1>3, <1>4, <1>5, <1>6
  <2> QED BY <1>2, <1>3, <1>4, <1>7, <1>8, <2>1 DEF DragTypes
<1>10. \A j \in DOMAIN media : media[j] \in selected' <=>
          \/ j \in N \ W
          \/ j \in W \ N /\ b[j]
          \/ j \notin W \ N /\ media[j] \in selected
  <2>1. W \in SUBSET DOMAIN media /\ N \in SUBSET DOMAIN media /\ Redrawn(W, N, b)
    BY <1>4, <1>5
  <2> QED BY <1>2, <2>1, CellsChanged
<1>11. selected' \subseteq ToSet(media)
  BY <1>2, <1>4, <1>5 DEF ToSet, Redrawn
<1>12. ASSUME NEW j \in DOMAIN before
       PROVE  /\ j \in DOMAIN media /\ before[j] \in BOOLEAN
              /\ media[j] \in selected <=> j \in W \/ before[j]
              /\ j \in DOMAIN b => b[j] = before[j]
  <2>1. /\ j \in DOMAIN media /\ before[j] \in BOOLEAN
        /\ j \in DOMAIN drag.baseline => drag.baseline[j] = before[j]
    BY <1>12 DEF PickInv, DragGood
  <2>2. before # <<>>
    <3>1. DOMAIN <<>> = {}
      BY SMTT(60)
    <3> QED BY <1>12, <3>1
  <2>3. Selection[j] = (j \in W \/ before[j])
    BY <1>1, <1>4, <1>12, <2>2 DEF PickInv, DragGood, DragIsExact
  <2>4. Selection[j] = (media[j] \in selected)
    BY <2>1 DEF Selection
  <2>5. media[j] \in selected <=> j \in W \/ before[j]
    BY <2>3, <2>4
  <2>6. ASSUME j \in DOMAIN b, j \notin DOMAIN drag.baseline PROVE b[j] = before[j]
    <3>1. j \in N \ W /\ b[j] = (media[j] \in selected)
      BY <1>6, <2>6
    <3>2. j \notin W
      BY <3>1
    <3> QED BY ONLY SMTT(60), <2>1, <2>5, <3>1, <3>2
  <2> QED BY <1>6, <2>1, <2>5, <2>6
<1>13. ASSUME NEW j \in DOMAIN before
       PROVE  media[j] \in selected' <=> j \in N \/ before[j]
  <2>1. j \in W => j \in DOMAIN b
    BY <1>3, <1>4, <1>6
  <2> QED BY <1>10, <1>12, <1>13, <2>1
<1>14. DragGood'
  <2>1. ASSUME NEW j \in DOMAIN before
        PROVE  Selection'[j] = (j \in CellRange(drag'.start, drag'.last) \/ before[j])
    <3>1. Selection'[j] = (media[j] \in selected')
      BY <1>2, <1>12, <2>1 DEF Selection
    <3>2. CellRange(drag'.start, drag'.last) = N
      BY <1>4, <1>7
    <3>3. (media[j] \in selected' <=> j \in N \/ before[j]) /\ before[j] \in BOOLEAN
      BY <1>12, <1>13, <2>1
    <3> QED BY ONLY SMTT(60), <3>1, <3>2, <3>3
  <2>2. DragIsExact'
    BY <1>1, <2>1 DEF DragIsExact
  <2> QED BY <1>1, <1>2, <1>7, <1>12, <2>2 DEF PickInv, DragGood
<1>15. suppress' \in BOOLEAN
  BY <1>1, <1>2
<1> QED BY <1>1, <1>9, <1>11, <1>14, <1>15, PagesKept

\* The drag begins with one cell, which it selects.
LEMMA DragStartStep ==
    ASSUME PickInv, NEW i \in DOMAIN media, DragStart(i)
    PROVE  PickInv'
<1>1. /\ DragOver([NoDrag EXCEPT !.start = i], i) /\ before' = Selection /\ suppress' = TRUE
      /\ UNCHANGED <<albums, album, operation, pageVars, abandoned>>
  BY DEF DragStart
<1>2. /\ media \in Seq(Nat) /\ Distinct(media) /\ selected \subseteq ToSet(media) /\ UNCHANGED media
  BY <1>1 DEF PickInv, PickTypes, GridGood, pageVars
<1>3. i # None /\ CellRange(i, i) = {i}
  BY <1>2, RangeInGrid
<1>4. PICK d : DragOver(d, i) /\ DragIs(d, i, None, <<>>)
  BY <1>1, DragStartFields
<1>5. d.start = i /\ d.last = None /\ d.baseline = <<>> /\ DOMAIN d.baseline = {}
  <2>1. DOMAIN <<>> = {}
    BY SMTT(60)
  <2> QED BY <1>4, <2>1 DEF DragIs
<1>6. PICK W, N, b : /\ W = RangeOf(d) /\ N = CellRange(d.start, i)
                     /\ b = BaselineOf(d, RangeOf(d), CellRange(d.start, i))
  OBVIOUS
<1>15. W = {} /\ N = {i}
  BY <1>3, <1>5, <1>6 DEF RangeOf
<1>7. /\ b = [j \in {i} |-> media[j] \in selected]
      /\ drag' = [d EXCEPT !.last = i, !.baseline = b]
      /\ Redrawn({}, {i}, b)
  <2>1. b = BaselineOf(d, W, N)
    BY <1>6
  <2>2. b = [j \in {i} |-> media[j] \in selected]
    BY <1>5, <1>15, <2>1 DEF BaselineOf
  <2>3. drag' = [d EXCEPT !.last = i, !.baseline = b]
    BY <1>4, <1>6, DragOverIs
  <2>4. Redrawn(W, N, b)
    BY <1>4, <1>6, DragOverIs
  <2> QED BY <1>15, <2>2, <2>3, <2>4
<1>8. drag' = [start |-> i, last |-> i, baseline |-> b]
  <2>1. DragIs([d EXCEPT !.last = i, !.baseline = b], i, i, b)
    BY <1>4, DragFields
  <2> QED BY <1>7, <2>1 DEF DragIs
<1>9. /\ drag'.start = i /\ drag'.last = i /\ drag'.baseline = b /\ DOMAIN b = {i}
      /\ b[i] = (media[i] \in selected)
  <2>1. DOMAIN b = {i} /\ b[i] = (media[i] \in selected)
    BY <1>7
  <2>2. drag'.start = i /\ drag'.last = i /\ drag'.baseline = b
    BY <1>8
  <2> QED BY <2>1, <2>2
<1>10. DragTypes'
  BY <1>2, <1>3, <1>8, <1>9 DEF DragTypes
<1>11. \A j \in DOMAIN media : media[j] \in selected' <=> j = i \/ media[j] \in selected
  <2>1. W \in SUBSET DOMAIN media /\ N \in SUBSET DOMAIN media /\ Redrawn(W, N, b)
    BY <1>7, <1>15
  <2>2. \A j \in DOMAIN media : media[j] \in selected' <=>
          \/ j \in N \ W
          \/ j \in W \ N /\ b[j]
          \/ j \notin W \ N /\ media[j] \in selected
    BY <1>2, <2>1, CellsChanged
  <2> QED BY <1>15, <2>2
<1>12. selected' \subseteq ToSet(media)
  BY <1>2, <1>7 DEF ToSet, Redrawn
<1>13. /\ before' = [j \in DOMAIN media |-> media[j] \in selected]
       /\ DOMAIN before' = DOMAIN media
       /\ \A j \in DOMAIN media : Selection'[j] = (media[j] \in selected')
  BY <1>1, <1>2 DEF Selection
<1>16. ASSUME NEW j \in DOMAIN media
       PROVE  before'[j] \in BOOLEAN /\ (before'[j] <=> media[j] \in selected)
  <2>1. before' = [k \in DOMAIN media |-> media[k] \in selected]
    BY <1>13
  <2>2. before'[j] \in BOOLEAN
    BY ONLY SMTT(60), <1>16, <2>1
  <2>3. before'[j] <=> media[j] \in selected
    BY <1>16, <2>1
  <2> QED BY <2>2, <2>3
<1>14. DragGood'
  <2>1. ASSUME NEW j \in DOMAIN media
        PROVE  Selection'[j] = (j \in CellRange(drag'.start, drag'.last) \/ before'[j])
    <3>1. CellRange(drag'.start, drag'.last) = {i}
      BY <1>3, <1>9
    <3>2. Selection'[j] = (media[j] \in selected')
      BY <1>13, <2>1
    <3>3. media[j] \in selected' <=> j \in {i} \/ before'[j]
      BY <1>11, <1>16, <2>1
    <3> QED BY ONLY SMTT(60), <3>1, <3>2, <3>3
  <2>2. DragIsExact'
    BY <1>13, <2>1 DEF DragIsExact
  <2>3. b[i] = before'[i]
    <3>1. b[i] = (media[i] \in selected) /\ before'[i] \in BOOLEAN
            /\ (before'[i] <=> media[i] \in selected)
      BY <1>9, <1>16
    <3> QED BY ONLY SMTT(60), <3>1
  <2> QED BY <1>2, <1>9, <1>13, <1>16, <2>2, <2>3 DEF DragGood
<1> QED BY <1>1, <1>10, <1>12, <1>14, PagesKept

LEMMA DragEndStep ==
    ASSUME PickInv, DragEnd
    PROVE  PickInv'
<1>1. /\ drag' = NoDrag /\ before' = <<>>
      /\ UNCHANGED <<albums, album, operation, pageVars, selected, suppress, abandoned>>
  BY DEF DragEnd
<1>2. DragTypes' /\ DragGood'
  BY <1>1, DragOff
<1>3. suppress' \in BOOLEAN /\ selected' \subseteq ToSet(media)
  BY <1>1 DEF PickInv, PickTypes, GridGood
<1> QED BY <1>1, <1>2, <1>3, PagesKept
-----------------------------------------------------------------------------
(* The picker as a whole *)

\* The values of a function with a finite domain are finitely many, and no more
\* than the domain has elements.
LEMMA ImageFinite ==
    ASSUME NEW f, f = [x \in DOMAIN f |-> f[x]], IsFiniteSet(DOMAIN f)
    PROVE  IsFiniteSet(ToSet(f)) /\ Cardinality(ToSet(f)) <= Cardinality(DOMAIN f)
<1>1. f \in [DOMAIN f -> ToSet(f)] /\ \A t \in ToSet(f) : \E x \in DOMAIN f : f[x] = t
  BY DEF ToSet
<1>2. f \in Surjection(DOMAIN f, ToSet(f))
  BY <1>1 DEF Surjection
<1> QED BY <1>2, FS_Surjection

\* The values of a sequence are finitely many.
LEMMA ToSetFinite ==
    ASSUME NEW s \in Seq(Nat)
    PROVE  IsFiniteSet(ToSet(s))
<1>1. /\ DOMAIN s = 1 .. Len(s) /\ s = [i \in DOMAIN s |-> s[i]]
      /\ 1 \in Int /\ Len(s) \in Int
  BY SMTT(60)
<1>2. IsFiniteSet(DOMAIN s)
  BY <1>1, FS_Interval
<1> QED BY <1>1, <1>2, ImageFinite

\* The hand-over leaves an empty picker, and takes assets of one album.
LEMMA StartTransferStep ==
    ASSUME PickInv, StartTransfer
    PROVE  /\ PickInv'
           /\ handed' \subseteq DOMAIN Parts /\ IsFiniteSet(handed')
<1>1. /\ albums' = "loading" /\ album' = 1 /\ operation' = 1 /\ requests' = {}
      /\ loading' = FALSE /\ loadingMore' = FALSE /\ available' = FALSE
      /\ media' = <<>> /\ loaded' = {} /\ cursor' = 0 /\ hasNext' = FALSE
      /\ selected' = {} /\ drag' = NoDrag /\ suppress' = FALSE
      /\ before' = <<>> /\ abandoned' = {}
  BY DEF StartTransfer
<1>2. /\ 1 \in DOMAIN Library /\ 0 \in Nat /\ 1 \in Nat /\ <<>> \in Seq(Nat)
      /\ 0 <= Len(Library[1]) /\ DOMAIN <<>> = {}
  BY SMTT(60), LibraryAssumption
<1>3. PickTypes'
  BY <1>1, <1>2 DEF PickTypes
<1>4. RequestsGood' /\ CapturedGood' /\ CollectedGood' /\ NoneCurrent'
  BY <1>1, <1>2, RequestsOver
<1>5. DragTypes' /\ DragGood'
  BY <1>1, DragOff
<1>6. GridGood'
  <2>1. ToSet(<<>>) = {} /\ Distinct(<<>>)
    BY <1>2 DEF ToSet, Distinct
  <2> QED BY <1>1, <1>2, <2>1 DEF GridGood, FirstAssets
<1>7. /\ selected \subseteq ToSet(media) /\ ToSet(media) \subseteq ToSet(Library[album])
      /\ album \in DOMAIN Library
  BY DEF PickInv, PickTypes, GridGood
<1>8. handed' = selected
  BY <1>7 DEF StartTransfer
<1>9. Library[album] \in Seq(Nat) /\ ToSet(Library[album]) \subseteq DOMAIN Parts
  BY <1>7, LibraryAssumption, FlowAssumption
<1>10. IsFiniteSet(ToSet(Library[album]))
  BY <1>9, ToSetFinite
<1>11. handed' \in SUBSET ToSet(Library[album])
  BY <1>7, <1>8
<1>12. IsFiniteSet(handed')
  BY <1>10, <1>11, FS_Subset
<1> QED BY <1>3, <1>4, <1>5, <1>6, <1>9, <1>11, <1>12 DEF PickInv

\* When the picker opens, the first page of the first album is on its way.
LEMMA PickBegins ==
    ASSUME PickInit
    PROVE  PickInv
<1>1. /\ albums = "loading" /\ album = 1 /\ operation = 1
      /\ loading = TRUE /\ loadingMore = FALSE /\ available = FALSE
      /\ media = <<>> /\ loaded = {} /\ cursor = 0 /\ hasNext = FALSE
      /\ selected = {} /\ drag = NoDrag /\ suppress = FALSE /\ before = <<>> /\ abandoned = {}
  BY DEF PickInit
<1>2. PICK r : requests = {r} /\ r.kind = "first" /\ r.op = 1 /\ r.album = 1
  <2>1. requests = {FirstRequest(1, 1)}
    BY DEF PickInit
  <2>2. /\ FirstRequest(1, 1).kind = "first" /\ FirstRequest(1, 1).op = 1
        /\ FirstRequest(1, 1).album = 1
    BY DEF FirstRequest
  <2> QED BY <2>1, <2>2
<1>3. /\ 1 \in DOMAIN Library /\ 0 \in Nat /\ 1 \in Nat /\ 1 <= 1 /\ <<>> \in Seq(Nat)
      /\ 0 <= Len(Library[1]) /\ DOMAIN <<>> = {}
  BY SMTT(60), LibraryAssumption
<1>4. ToSet(<<>>) = {} /\ Distinct(<<>>)
  BY <1>3 DEF ToSet, Distinct
<1>5. PickTypes
  BY <1>1, <1>3 DEF PickTypes
<1>6. RequestsGood
  <2>1. \A q \in requests : q = r
    BY <1>2
  <2>2. r \in requests
    BY <1>2
  <2>3. "first" # "more"
    OBVIOUS
  <2> QED BY <1>1, <1>2, <1>3, <2>1, <2>2, <2>3 DEF RequestsGood
<1>7. CapturedGood /\ CollectedGood
  BY <1>1, <1>2 DEF CapturedGood, CollectedGood
<1>8. GridGood
  BY <1>1, <1>3, <1>4 DEF GridGood, FirstAssets
<1>9. drag.start = None /\ drag.last = None /\ drag.baseline = <<>>
  BY <1>1 DEF NoDrag
<1>10. drag = [start |-> drag.start, last |-> drag.last, baseline |-> drag.baseline]
  BY <1>1, <1>9 DEF NoDrag
<1>11. DragTypes
  BY <1>1, <1>3, <1>9, <1>10 DEF DragTypes
<1>12. DragGood
  BY <1>1, <1>3 DEF DragGood, DragIsExact
<1> QED BY <1>5, <1>6, <1>7, <1>8, <1>11, <1>12 DEF PickInv

\* Every step of the picker.
LEMMA PickStep ==
    ASSUME PickInv, Pick
    PROVE  PickInv'
<1>1. ASSUME NEW a \in DOMAIN Library, ChangeAlbum(a) PROVE PickInv'
  BY <1>1, ChangeAlbumStep
<1>2. ASSUME NEW i \in DOMAIN media, Tap(i) \/ DragStart(i) \/ DragMove(i) PROVE PickInv'
  BY <1>2, TapStep, DragStartStep, DragMoveStep
<1>3. CASE Answer
  BY <1>3, AlbumsAnswerStep, DropStaleStep, FirstPageStep, FirstPageFailsStep, MorePageStep,
     MoreFailsStep, SelectAllPageStep, SelectAllFailsStep DEF Answer
<1>4. CASE LoadMore \/ SelectAll \/ DeselectAll \/ DragEnd
  BY <1>4, LoadMoreStep, SelectAllStep, DeselectAllStep, DragEndStep
<1> QED BY <1>1, <1>2, <1>3, <1>4 DEF Pick

\* The invariant says what GridIsOfAlbum says.
LEMMA PickInvShows ==
    ASSUME PickInv
    PROVE  GridIsOfAlbum /\ DragIsExact
<1>1. DragIsExact
  BY DEF PickInv, DragGood
<1>2. media \in Seq(Nat) /\ cursor \in Nat
  BY DEF PickInv, PickTypes
<1>3. PickTypeOK
  <2>1. /\ albums \in {"loading", "loaded", "failed"} /\ album \in DOMAIN Library
        /\ loading \in BOOLEAN /\ loadingMore \in BOOLEAN /\ available \in BOOLEAN
        /\ hasNext \in BOOLEAN /\ suppress \in BOOLEAN
        /\ DOMAIN drag.baseline \subseteq DOMAIN media
    BY DEF PickInv, PickTypes, DragTypes
  <2>4. {loading, loadingMore, available, hasNext, suppress} \subseteq BOOLEAN
    BY <2>1
  <2>2. DOMAIN media \subseteq 0 .. Len(media) /\ 0 \in 0 .. Len(media)
    BY SMTT(60), <1>2
  <2>3. \/ drag.start = 0 /\ drag.last = 0
        \/ drag.start \in DOMAIN media /\ drag.last \in DOMAIN media
    <3>1. NoDrag.last = None
      BY DEF NoDrag
    <3>2. drag.start = None => drag.last = None
      BY <3>1 DEF PickInv, DragTypes
    <3>3. drag.start # None => drag.start \in DOMAIN media /\ drag.last \in DOMAIN media
      BY DEF PickInv, DragTypes
    <3> QED BY <3>2, <3>3 DEF None
  <2> QED BY <1>2, <2>1, <2>2, <2>3, <2>4 DEF PickTypeOK
<1>4. Cardinality({r \in requests : r.op = operation}) <= 1
  <2>1. CASE NoneCurrent
    <3>1. {r \in requests : r.op = operation} = {}
      BY <2>1 DEF NoneCurrent
    <3>2. Cardinality({}) = 0
      BY FS_EmptySet
    <3>3. 0 <= 1
      BY SMTT(60)
    <3> QED BY <3>1, <3>2, <3>3
  <2>2. CASE ~NoneCurrent
    <3>1. PICK r \in requests : r.op = operation
      BY <2>2 DEF NoneCurrent
    <3>2. {q \in requests : q.op = operation} = {r}
      BY <3>1 DEF PickInv, RequestsGood
    <3>3. Cardinality({r}) = 1
      BY FS_Singleton
    <3>4. 1 <= 1
      BY SMTT(60)
    <3> QED BY <3>2, <3>3, <3>4
  <2> QED BY <2>1, <2>2
<1>5. /\ (Current("first") \cup Current("all") # {}) = loading
      /\ (Current("more") # {}) = loadingMore
  <2>1. /\ Current("first") \cup Current("all") # {} <=> loading
        /\ Current("more") # {} <=> loadingMore
    BY DEF PickInv, RequestsGood, Current
  <2>2. loading \in BOOLEAN /\ loadingMore \in BOOLEAN
    BY DEF PickInv, PickTypes
  <2> QED BY ONLY ZenonT(60), <2>1, <2>2
<1>6. (available /\ ~hasNext /\ ~loading) => ToSet(Library[album]) \subseteq ToSet(media) \cup abandoned
  <2>1. ASSUME available, ~hasNext
        PROVE  FirstAssets(album, Len(Library[album])) \subseteq ToSet(media) \cup abandoned
    BY <2>1 DEF PickInv, GridGood
  <2>2. album \in DOMAIN Library /\ Library[album] \in Seq(Nat)
    BY LibraryAssumption DEF PickInv, PickTypes
  <2>3. ToSet(Library[album]) \subseteq FirstAssets(album, Len(Library[album]))
    BY SMTT(60), <2>2 DEF ToSet, FirstAssets
  <2> QED BY <2>1, <2>3
<1>7. /\ ToSet(media) \subseteq ToSet(Library[album]) /\ selected \subseteq ToSet(media)
      /\ \A i, j \in DOMAIN media : media[i] = media[j] => i = j
  BY DEF PickInv, GridGood, Distinct
<1> QED BY <1>1, <1>3, <1>4, <1>5, <1>6, <1>7 DEF GridIsOfAlbum
-----------------------------------------------------------------------------
(* The transfer screen: the entries *)

\* What the entries are.
LEMMA ItemsAre ==
    ASSUME NEW A, NEW x
    PROVE  /\ x \in ItemsOf(A) => \E a \in A : \E i \in 1 .. Parts[a] : x = <<a, i>>
           /\ \A a \in A : \A i \in 1 .. Parts[a] : <<a, i>> \in ItemsOf(A)
<1>1. ASSUME x \in ItemsOf(A) PROVE \E a \in A : \E i \in 1 .. Parts[a] : x = <<a, i>>
  BY <1>1 DEF ItemsOf
<1>2. ASSUME NEW a \in A, NEW i \in 1 .. Parts[a] PROVE <<a, i>> \in ItemsOf(A)
  BY SMTT(60) DEF ItemsOf
<1> QED BY <1>1, <1>2

\* The entries of finitely many assets are finitely many, and every asset has one.
LEMMA ItemsFinite ==
    ASSUME NEW A \in SUBSET DOMAIN Parts, IsFiniteSet(A)
    PROVE  IsFiniteSet(ItemsOf(A)) /\ Cardinality(A) <= Cardinality(ItemsOf(A))
<1> DEFINE Of(a) == {<<a, i>> : i \in 1 .. Parts[a]}
           All == {Of(a) : a \in A}
<1>1. ASSUME NEW a \in A PROVE IsFiniteSet(Of(a))
  <2> DEFINE f == [i \in 1 .. Parts[a] |-> <<a, i>>]
  <2>1. 1 \in Int /\ Parts[a] \in Int
    BY SMTT(60), PartsAssumption
  <2>2. DOMAIN f = 1 .. Parts[a] /\ f = [x \in DOMAIN f |-> f[x]] /\ ToSet(f) = Of(a)
    BY DEF ToSet
  <2> HIDE DEF f, Of
  <2>3. IsFiniteSet(1 .. Parts[a])
    BY <2>1, FS_Interval
  <2>4. IsFiniteSet(ToSet(f))
    BY <2>2, <2>3, ImageFinite
  <2> QED BY <2>2, <2>4
<1>2. IsFiniteSet(All)
  <2> DEFINE g == [a \in A |-> Of(a)]
  <2>1. DOMAIN g = A /\ g = [x \in DOMAIN g |-> g[x]] /\ ToSet(g) = All
    BY DEF ToSet
  <2> HIDE DEF g, Of, All
  <2>2. IsFiniteSet(ToSet(g))
    BY <2>1, ImageFinite
  <2> QED BY <2>1, <2>2
<1>3. ItemsOf(A) = UNION All
  BY DEF ItemsOf
<1>4. IsFiniteSet(ItemsOf(A))
  <2>1. \A T \in All : IsFiniteSet(T)
    BY <1>1
  <2> HIDE DEF All
  <2> QED BY <1>2, <1>3, <2>1, FS_UNION
<1>5. Cardinality(A) <= Cardinality(ItemsOf(A))
  <2> DEFINE h == [a \in A |-> <<a, 1>>]
  <2>1. \A a \in A : 1 \in 1 .. Parts[a]
    BY SMTT(60), PartsAssumption
  <2>2. h \in [A -> ItemsOf(A)]
    <3>1. \A a \in A : <<a, 1>> \in ItemsOf(A)
      BY <2>1, ItemsAre
    <3> QED BY <3>1
  <2>3. ASSUME NEW a \in A, NEW b \in A, h[a] = h[b] PROVE a = b
    <3>1. h[a] = <<a, 1>> /\ h[b] = <<b, 1>>
      OBVIOUS
    <3> HIDE DEF h
    <3>2. <<a, 1>> = <<b, 1>>
      BY <2>3, <3>1
    <3> QED BY ONLY ZenonT(60), <3>2
  <2> HIDE DEF h
  <2>4. h \in Injection(A, ItemsOf(A))
    BY <2>2, <2>3 DEF Injection, IsInjective
  <2> QED BY <1>4, <2>4, FS_Injection
<1> QED BY <1>4, <1>5

\* The ids of assets are finitely many, and none is the id of an entry.
LEMMA AssetIdsFinite ==
    ASSUME NEW A \in SUBSET DOMAIN Parts, IsFiniteSet(A)
    PROVE  IsFiniteSet(AssetIds(A)) /\ AssetIds(A) \cap ItemsOf(A) = {}
<1> DEFINE h == [a \in A |-> <<a, 0>>]
<1>1. DOMAIN h = A /\ h = [x \in DOMAIN h |-> h[x]] /\ ToSet(h) = AssetIds(A)
  BY DEF ToSet, AssetIds
<1> HIDE DEF h
<1>2. IsFiniteSet(AssetIds(A))
  BY <1>1, ImageFinite
<1>3. \A a \in A : 0 \notin 1 .. Parts[a]
  BY SMTT(60), PartsAssumption
<1>4. ASSUME NEW x \in AssetIds(A), x \in ItemsOf(A) PROVE FALSE
  <2>1. PICK a : x = <<a, 0>>
    BY DEF AssetIds
  <2>2. PICK b \in A : \E i \in 1 .. Parts[b] : x = <<b, i>>
    BY <1>4, ItemsAre
  <2>4. PICK i \in 1 .. Parts[b] : x = <<b, i>>
    BY <2>2
  <2>3. 0 = i
    BY ONLY SMTT(60), <2>1, <2>4
  <2> QED BY <1>3, <2>2, <2>3
<1> QED BY <1>2, <1>4

\* What the invariant says of the numbers of assets and entries.
LEMMA SizesGood ==
    ASSUME ScreenInv
    PROVE  /\ IsFiniteSet(Items) /\ IsFiniteSet(AssetIds(assets)) /\ IsFiniteSet(DOMAIN statusById)
           /\ AssetIds(assets) \cap Items = {}
           /\ Cardinality(assets) \in Nat /\ Cardinality(Items) \in Nat
           /\ Cardinality(assets) <= Cardinality(Items)
<1>1. assets \in SUBSET DOMAIN Parts /\ IsFiniteSet(assets)
  BY DEF ScreenInv, ScreenTypes
<1>2. IsFiniteSet(Items) /\ Cardinality(assets) <= Cardinality(Items)
  BY <1>1, ItemsFinite DEF Items
<1>3. IsFiniteSet(AssetIds(assets)) /\ AssetIds(assets) \cap Items = {}
  BY <1>1, AssetIdsFinite DEF Items
<1>4. IsFiniteSet(Items \cup AssetIds(assets))
  BY <1>2, <1>3, FS_Union
<1>5. DOMAIN statusById \in SUBSET (Items \cup AssetIds(assets))
  BY DEF ScreenInv, EntriesGood
<1>6. IsFiniteSet(DOMAIN statusById)
  BY <1>4, <1>5, FS_Subset
<1>7. Cardinality(assets) \in Nat /\ Cardinality(Items) \in Nat
  BY <1>1, <1>2, FS_CardinalityType
<1> QED BY <1>2, <1>3, <1>6, <1>7

\* Some new entries, all with the same status.
LEMMA WithNew ==
    ASSUME NEW st, NEW ids, NEW s, NEW t, \A id \in ids \cap DOMAIN st : st[id] # t
    PROVE  /\ t = s => Settled(With(st, ids, s), t) = Settled(st, t) \cup ids
           /\ t # s => Settled(With(st, ids, s), t) = Settled(st, t)
BY DEF Settled, With

\* The count of a status goes up by the number of the entries that get it.
LEMMA CountWithNew ==
    ASSUME NEW st, IsFiniteSet(DOMAIN st), NEW ids, IsFiniteSet(ids), NEW s, NEW t,
           \A id \in ids \cap DOMAIN st : st[id] # t
    PROVE  /\ t = s => Cardinality(Settled(With(st, ids, s), t))
                          = Cardinality(Settled(st, t)) + Cardinality(ids)
           /\ t # s => Cardinality(Settled(With(st, ids, s), t)) = Cardinality(Settled(st, t))
<1>1. CASE t = s
  <2>1. Settled(st, t) \in SUBSET DOMAIN st
    BY DEF Settled
  <2>2. IsFiniteSet(Settled(st, t))
    BY <2>1, FS_Subset
  <2>3. Settled(st, t) \cap ids = {}
    BY DEF Settled
  <2>4. Cardinality(Settled(st, t) \cup ids)
          = Cardinality(Settled(st, t)) + Cardinality(ids) - Cardinality(Settled(st, t) \cap ids)
    BY <2>2, FS_Union
  <2>5. Cardinality(Settled(st, t) \cap ids) = 0
    BY <2>3, FS_EmptySet
  <2>6. Cardinality(Settled(st, t)) \in Nat /\ Cardinality(ids) \in Nat
    BY <2>2, FS_CardinalityType
  <2>7. Cardinality(Settled(st, t) \cup ids) = Cardinality(Settled(st, t)) + Cardinality(ids)
    BY ONLY SMTT(60), <2>4, <2>5, <2>6
  <2>8. Settled(With(st, ids, s), t) = Settled(st, t) \cup ids
    BY SMTT(60), <1>1, WithNew
  <2> QED BY <1>1, <2>7, <2>8
<1>2. CASE t # s
  <2>1. Settled(With(st, ids, s), t) = Settled(st, t)
    BY SMTT(60), <1>2, WithNew
  <2> QED BY <1>2, <2>1
<1> QED BY <1>1, <1>2
-----------------------------------------------------------------------------
(* The transfer screen: the notice and what is rendered *)

\* A notice by its fields.
NoticeIs(n, waiting, is, show, hide) ==
    n \in Notices /\ n.waiting = waiting /\ n.shown = is /\ n.show = show /\ n.hide = hide

\* A notice with other fields.
LEMMA NoticeWith ==
    ASSUME NEW n \in Notices, NEW a \in BOOLEAN, NEW b \in BOOLEAN, NEW c \in BOOLEAN
    PROVE  NoticeIs([n EXCEPT !.waiting = a, !.show = b, !.hide = c], a, n.shown, b, c)
BY DEF Notices, NoticeIs

\* The fields of a notice.
LEMMA NoticeFields ==
    ASSUME NEW n \in Notices
    PROVE  n.waiting \in BOOLEAN /\ n.shown \in BOOLEAN /\ n.show \in BOOLEAN /\ n.hide \in BOOLEAN
BY DEF Notices

\* Notice m is n after an update: it is about to be shown only when something
\* waits, and to be hidden only when nothing does.
Updated(m, n, w, u) ==
    /\ m \in Notices /\ m.waiting = w /\ m.shown = n.shown
    /\ m.show => w /\ (n.show \/ u)
    /\ m.hide => ~w /\ (n.hide \/ n.shown)

\* QueueNotice.update does that.
LEMMA UpdateFields ==
    ASSUME NEW n \in Notices, NEW w \in BOOLEAN, NEW u \in BOOLEAN
    PROVE  Updated(Update(n, w, u), n, w, u)
<1>1. n.waiting \in BOOLEAN /\ n.shown \in BOOLEAN /\ n.show \in BOOLEAN /\ n.hide \in BOOLEAN
  BY NoticeFields
<1>2. CASE w
  <2>1. PICK b \in BOOLEAN : b = (n.show \/ (u /\ ~n.shown))
    BY <1>1
  <2>2. Update(n, w, u) = [n EXCEPT !.waiting = TRUE, !.show = b, !.hide = FALSE]
    BY <1>2, <2>1 DEF Update, Notices
  <2>3. b => n.show \/ u
    BY <2>1
  <2>4. PICK m : m = [n EXCEPT !.waiting = TRUE, !.show = b, !.hide = FALSE]
    OBVIOUS
  <2>5. NoticeIs(m, TRUE, n.shown, b, FALSE)
    BY <2>4, NoticeWith
  <2>6. w = TRUE
    BY <1>2
  <2> QED BY <2>2, <2>3, <2>4, <2>5, <2>6 DEF NoticeIs, Updated
<1>3. CASE ~w
  <2>1. PICK b \in BOOLEAN : b = (n.hide \/ n.shown)
    BY <1>1
  <2>2. Update(n, w, u) = [n EXCEPT !.waiting = FALSE, !.show = FALSE, !.hide = b]
    BY <1>3, <2>1 DEF Update, Notices
  <2>3. b => n.hide \/ n.shown
    BY <2>1
  <2>4. PICK m : m = [n EXCEPT !.waiting = FALSE, !.show = FALSE, !.hide = b]
    OBVIOUS
  <2>5. NoticeIs(m, FALSE, n.shown, FALSE, b)
    BY <2>4, NoticeWith
  <2>6. w = FALSE
    BY <1>3
  <2> QED BY <2>2, <2>3, <2>4, <2>5, <2>6 DEF NoticeIs, Updated
<1> QED BY <1>2, <1>3

\* What dispose makes of it.
LEMMA DisposeFields ==
    ASSUME NEW n \in Notices
    PROVE  /\ Dispose(n) \in Notices
           /\ Dispose(n).waiting = n.waiting /\ Dispose(n).shown = n.shown
           /\ ~Dispose(n).show /\ ~Dispose(n).hide
BY DEF Dispose, Notices

\* The notice is truthful: shown, or about to be, only after an upload; about to
\* be hidden only when shown, and when nothing waits.
NoticeGood(n, o) == n \in Notices /\ (n.shown \/ n.show => o) /\ (n.hide => n.shown /\ ~n.waiting)

\* It stays so when an upload is observed.
LEMMA ObserveUploadGood ==
    ASSUME observed \in BOOLEAN, NoticeGood(notice, observed), NEW u \in BOOLEAN, ObserveUpload(u)
    PROVE  observed' \in BOOLEAN /\ (observed => observed') /\ NoticeGood(notice', observed')
             /\ notice'.shown = notice.shown
<1>1. observed' \in BOOLEAN /\ (observed' <=> observed \/ u)
  BY DEF ObserveUpload
<1>2. CASE u /\ ~observed /\ notice.waiting
  <2>1. notice' = Update(notice, TRUE, TRUE) /\ notice \in Notices
    BY <1>2 DEF ObserveUpload, NoticeGood
  <2>2. Updated(Update(notice, TRUE, TRUE), notice, TRUE, TRUE)
    BY <2>1, UpdateFields
  <2> QED BY <1>1, <1>2, <2>1, <2>2 DEF NoticeGood, Updated
<1>3. CASE ~(u /\ ~observed /\ notice.waiting)
  <2>1. notice' = notice
    BY <1>3 DEF ObserveUpload
  <2> QED BY <1>1, <2>1 DEF NoticeGood
<1> QED BY <1>2, <1>3

\* What is shown, next to what was shown: the number of files does not go down
\* and is not more than the entries.
Renders(t, s, c) ==
    /\ IsShown(t) /\ t.summary = c
    /\ t.total \in Nat /\ s.total <= t.total /\ t.total <= Cardinality(Items)

\* The larger of two numbers.
LEMMA GreaterIs ==
    ASSUME NEW a \in Nat, NEW b \in Nat, NEW c \in Nat, a <= c, b <= c
    PROVE  /\ Greater(a, b) \in Nat /\ a <= Greater(a, b) /\ b <= Greater(a, b)
           /\ Greater(a, b) <= c
BY SMTT(60) DEF Greater

\* applyProgress
LEMMA AppliedRenders ==
    ASSUME ScreenInv, NEW p
    PROVE  /\ Renders(Applied(shown, p), shown, shown.summary)
           /\ Applied(shown, p).eta = shown.eta /\ Applied(shown, p).results = shown.results
<1>1. IsShown(shown) /\ shown.total \in Nat /\ shown.total <= Cardinality(Items)
  BY DEF ScreenInv, ScreenTypes, EntriesGood
<1>2. CASE p = NoProgress
  <2>1. Applied(shown, p) = shown /\ shown.total <= shown.total
    BY SMTT(60), <1>1, <1>2 DEF Applied
  <2> QED BY <1>1, <2>1 DEF Renders
<1>3. CASE p # NoProgress
  <2>1. PICK ph, n : /\ n \in {Cardinality(Items), Cardinality(assets)}
                     /\ Applied(shown, p)
                          = [shown EXCEPT !.phase = ph, !.total = Greater(shown.total, n)]
    BY <1>3 DEF Applied
  <2>2. n \in Nat /\ n <= Cardinality(Items) /\ Cardinality(Items) \in Nat
    <3>1. Cardinality(Items) <= Cardinality(Items)
      BY SMTT(60), SizesGood
    <3> QED BY <2>1, <3>1, SizesGood
  <2> DEFINE g == Greater(shown.total, n)
             t == [shown EXCEPT !.phase = ph, !.total = g]
  <2>3. g \in Nat /\ shown.total <= g /\ g <= Cardinality(Items)
    BY <1>1, <2>2, GreaterIs
  <2> HIDE DEF g
  <2>4. IsShown(t)
    BY <1>1 DEF IsShown
  <2>5. t.summary = shown.summary /\ t.total = g /\ t.eta = shown.eta /\ t.results = shown.results
    BY <1>1 DEF IsShown
  <2> HIDE DEF t
  <2>6. Applied(shown, p) = t
    BY <2>1 DEF t, g
  <2> QED BY <2>3, <2>4, <2>5, <2>6 DEF Renders
<1> QED BY <1>2, <1>3

\* flushUi
LEMMA FlushedRenders ==
    ASSUME ScreenInv, NEW changed \in BOOLEAN, NEW c
    PROVE  /\ Renders(Flushed(shown, changed, c), shown, IF changed THEN c ELSE shown.summary)
           /\ Flushed(shown, changed, c).eta = shown.eta
           /\ Flushed(shown, changed, c).results = shown.results
<1> DEFINE t == Applied(shown, pending)
           u == [t EXCEPT !.summary = c]
<1>1. /\ Renders(t, shown, shown.summary) /\ t.eta = shown.eta /\ t.results = shown.results
  BY AppliedRenders
<1>2. CASE changed
  <2>1. Flushed(shown, changed, c) = u
    BY <1>2 DEF Flushed
  <2> HIDE DEF t
  <2>2. /\ IsShown(u) /\ u.summary = c /\ u.total = t.total
        /\ u.eta = t.eta /\ u.results = t.results
    BY <1>1 DEF Renders, IsShown
  <2> HIDE DEF u
  <2>3. Renders(u, shown, c)
    BY <1>1, <2>2 DEF Renders
  <2> QED BY <1>1, <1>2, <2>1, <2>2, <2>3
<1>3. CASE ~changed
  <2>1. Flushed(shown, changed, c) = t
    BY <1>3 DEF Flushed
  <2> HIDE DEF t
  <2> QED BY <1>1, <1>3, <2>1
<1> QED BY <1>2, <1>3
-----------------------------------------------------------------------------
(* The transfer screen: its steps *)

\* What QuietAfterEnd says of a step.
Quiet ==
    /\ Ended => UNCHANGED <<statusById, counts, notice.shown>>
    /\ Ended /\ screen = "active" => UNCHANGED shown
    /\ screen = "active" => /\ shown'.total >= shown.total
                            /\ \A s \in Terminal : shown'.summary[s] >= shown.summary[s]

\* A screen that is not over listens, and one that listens is not over.
LEMMA ListeningIs ==
    Listening <=> ~Ended
BY DEF Listening, Ended

\* What the invariant says of the numbers that are shown.
LEMMA NumbersGood ==
    ASSUME ScreenInv
    PROVE  /\ shown.total \in Nat /\ counts \in Counts /\ shown.summary \in Counts
           /\ \A s \in Terminal : counts[s] \in Nat /\ shown.summary[s] \in Nat
           /\ shown.total >= shown.total
           /\ \A s \in Terminal : shown.summary[s] >= shown.summary[s]
           /\ \A s \in Terminal : counts[s] >= shown.summary[s]
<1>1. /\ shown.total \in Nat /\ counts \in Counts /\ shown.summary \in Counts
      /\ \A s \in Terminal : shown.summary[s] <= counts[s]
  BY DEF ScreenInv, ScreenTypes, ShownGood
<1>2. \A s \in Terminal : counts[s] \in Nat /\ shown.summary[s] \in Nat
  BY <1>1 DEF Counts
<1>3. /\ shown.total >= shown.total
      /\ \A s \in Terminal : shown.summary[s] >= shown.summary[s]
      /\ \A s \in Terminal : counts[s] >= shown.summary[s]
  BY SMTT(60), <1>1, <1>2
<1> QED BY <1>1, <1>2, <1>3

\* A step that shows nothing new is quiet.
LEMMA QuietStep ==
    ASSUME ScreenInv, UNCHANGED shown, Ended => UNCHANGED <<statusById, counts, notice.shown>>
    PROVE  Quiet
BY NumbersGood DEF Quiet

\* A step that leaves the entries and what is shown alone.
LEMMA EntriesKept ==
    ASSUME ScreenInv, UNCHANGED <<assets, statusById, counts, shown>>,
           outcome' \in {outcome, "cancelled"}, dirty' = dirty
    PROVE  EntriesGood' /\ ShownGood'
<1>1. EntriesGood'
  BY DEF ScreenInv, EntriesGood, Items, ItemsOf, AssetIds
<1>2. ShownGood'
  BY DEF ScreenInv, ShownGood, Items, ItemsOf
<1> QED BY <1>1, <1>2

\* Nothing happens on the screen.
LEMMA ScreenStutters ==
    ASSUME ScreenInv, UNCHANGED screenVars
    PROVE  ScreenInv' /\ Quiet
<1>1. UNCHANGED <<assets, manager, screen, outcome, statusById, counts, dirty, pending, uiTimer,
                  observed, notice, metrics, shown>>
  BY DEF screenVars
<1>2. EntriesGood' /\ ShownGood'
  BY <1>1, EntriesKept
<1>3. ScreenTypes' /\ TimersGood'
  <2>1. ScreenTypes'
    BY SMTT(60), <1>1 DEF ScreenInv, ScreenTypes
  <2>2. TimersGood'
    BY <1>1 DEF ScreenInv, TimersGood, Ended
  <2> QED BY <2>1, <2>2
<1>4. Quiet
  BY <1>1, QuietStep
<1> QED BY <1>2, <1>3, <1>4 DEF ScreenInv

\* The notice appears, if the queue still waits.
LEMMA ShowTimerStep ==
    ASSUME ScreenInv, ShowTimer
    PROVE  ScreenInv' /\ Quiet
<1>1. UNCHANGED <<assets, manager, screen, outcome, statusById, counts, dirty, pending, uiTimer,
                  observed, metrics, shown>>
  BY DEF ShowTimer
<1>2. notice.show /\ ~Ended /\ notice \in Notices /\ observed \in BOOLEAN
  BY DEF ShowTimer, ScreenInv, TimersGood, ScreenTypes
<1>3. PICK b \in BOOLEAN : b = (notice.shown \/ (Listening /\ notice.waiting /\ observed))
  <2>1. notice.shown \in BOOLEAN /\ notice.waiting \in BOOLEAN
    BY <1>2, NoticeFields
  <2> QED BY <1>2, <2>1 DEF Listening
<1>4. notice' = [notice EXCEPT !.show = FALSE, !.shown = b]
  BY <1>3 DEF ShowTimer
<1>5. /\ notice' \in Notices /\ notice'.waiting = notice.waiting /\ notice'.shown = b
      /\ ~notice'.show /\ notice'.hide = notice.hide
  BY <1>2, <1>4 DEF Notices
<1>6. (b => notice.shown \/ observed) /\ (notice.shown => b)
  BY <1>3
<1>7. ScreenTypes' /\ TimersGood'
  BY <1>1, <1>2, <1>5, <1>6 DEF ScreenInv, ScreenTypes, TimersGood, Ended
<1>8. EntriesGood' /\ ShownGood'
  BY <1>1, EntriesKept
<1>9. Quiet
  BY <1>1, <1>2, QuietStep
<1> QED BY <1>7, <1>8, <1>9 DEF ScreenInv

\* The notice disappears.
LEMMA HideTimerStep ==
    ASSUME ScreenInv, HideTimer
    PROVE  ScreenInv' /\ Quiet
<1>1. UNCHANGED <<assets, manager, screen, outcome, statusById, counts, dirty, pending, uiTimer,
                  observed, metrics, shown>>
  BY DEF HideTimer
<1>2. notice.hide /\ ~Ended /\ notice \in Notices /\ observed \in BOOLEAN
  BY DEF HideTimer, ScreenInv, TimersGood, ScreenTypes
<1>3. notice.shown \in BOOLEAN /\ notice.waiting \in BOOLEAN
  BY <1>2, NoticeFields
<1>4. PICK b \in BOOLEAN : b = (notice.shown /\ (~Listening \/ notice.waiting))
  BY <1>3 DEF Listening
<1>5. notice' = [notice EXCEPT !.hide = FALSE, !.shown = b]
  BY <1>4 DEF HideTimer
<1>6. /\ notice' \in Notices /\ notice'.waiting = notice.waiting /\ notice'.shown = b
      /\ ~notice'.hide /\ notice'.show = notice.show
  BY <1>2, <1>5 DEF Notices
<1>7. b => notice.shown
  BY <1>4
<1>8. ScreenTypes' /\ TimersGood'
  BY <1>1, <1>2, <1>6, <1>7 DEF ScreenInv, ScreenTypes, TimersGood, Ended
<1>9. EntriesGood' /\ ShownGood'
  BY <1>1, EntriesKept
<1>10. Quiet
  BY <1>1, <1>2, QuietStep
<1> QED BY <1>8, <1>9, <1>10 DEF ScreenInv

\* What there is to render is rendered.
LEMMA UiTimerStep ==
    ASSUME ScreenInv, UiTimer
    PROVE  ScreenInv' /\ Quiet
<1>1. UNCHANGED <<assets, manager, screen, outcome, statusById, counts, observed, metrics>>
  BY DEF UiTimer
<1>2. ~Ended /\ dirty \in BOOLEAN /\ observed \in BOOLEAN /\ NoticeGood(notice, observed)
  BY DEF UiTimer, ScreenInv, TimersGood, ScreenTypes, NoticeGood
<1>3. /\ uiTimer' = FALSE /\ pending' = NoProgress /\ dirty' = FALSE
      /\ shown' = Flushed(shown, dirty, counts)
      /\ notice' = IF pending = NoProgress THEN notice
                   ELSE Update(notice, pending.activity = "waiting", observed)
  BY <1>2, ListeningIs DEF UiTimer
<1>4. screen = "active" /\ outcome = "running"
  BY <1>2 DEF Ended
<1>5. (IF dirty THEN counts ELSE shown.summary) = counts
  BY <1>4 DEF ScreenInv, ShownGood
<1>6. Renders(shown', shown, counts) /\ shown'.eta = shown.eta /\ shown'.results = shown.results
  <2>1. /\ Renders(Flushed(shown, dirty, counts), shown, IF dirty THEN counts ELSE shown.summary)
        /\ Flushed(shown, dirty, counts).eta = shown.eta
        /\ Flushed(shown, dirty, counts).results = shown.results
    BY <1>2, FlushedRenders
  <2> QED BY <1>3, <1>5, <2>1
<1>7. NoticeGood(notice', observed)
  <2>1. CASE pending = NoProgress
    BY <1>2, <1>3, <2>1
  <2>2. CASE pending # NoProgress
    <3> DEFINE w == pending.activity = "waiting"
    <3>1. w \in BOOLEAN
      BY ONLY ZenonT(60)
    <3> HIDE DEF w
    <3>2. notice' = Update(notice, w, observed) /\ notice \in Notices
      BY <1>2, <1>3, <2>2 DEF NoticeGood, w
    <3>3. Updated(Update(notice, w, observed), notice, w, observed)
      BY <1>2, <3>1, <3>2, UpdateFields
    <3> QED BY <1>2, <3>2, <3>3 DEF NoticeGood, Updated
  <2> QED BY <2>1, <2>2
<1>8. ScreenTypes'
  BY <1>1, <1>3, <1>6, <1>7 DEF ScreenInv, ScreenTypes, NoticeGood, Renders
<1>9. EntriesGood'
  <2>1. shown'.total <= Cardinality(Items) /\ Cardinality(assets) <= shown'.total
    <3>1. /\ shown'.total \in Nat /\ shown.total \in Nat /\ shown.total <= shown'.total
          /\ Cardinality(assets) <= shown.total /\ Cardinality(assets) \in Nat
          /\ shown'.total <= Cardinality(Items)
      BY <1>6, SizesGood DEF Renders, ScreenInv, ScreenTypes, EntriesGood
    <3> QED BY ONLY SMTT(60), <3>1
  <2> QED BY <1>1, <2>1 DEF ScreenInv, EntriesGood, Items, ItemsOf, AssetIds
<1>10. ShownGood'
  <2>1. \A s \in Terminal : counts[s] <= counts[s]
    BY SMTT(60), NumbersGood
  <2> QED BY <1>1, <1>4, <1>6, <2>1 DEF ShownGood, Renders
<1>11. TimersGood'
  BY <1>1, <1>3, <1>4, <1>6, <1>7 DEF ScreenInv, TimersGood, Ended, NoticeGood
<1>12. Quiet
  <2>1. shown'.total >= shown.total
    <3>1. shown'.total \in Nat /\ shown.total \in Nat /\ shown.total <= shown'.total
      BY <1>6, NumbersGood DEF Renders
    <3> QED BY ONLY ZenonT(60), <3>1
  <2> QED BY <1>2, <1>6, <2>1, NumbersGood DEF Quiet, Renders
<1> QED BY <1>8, <1>9, <1>10, <1>11, <1>12 DEF ScreenInv

\* The estimate of the time that is left.
LEMMA MetricsTimerStep ==
    ASSUME ScreenInv, MetricsTimer
    PROVE  ScreenInv' /\ Quiet
<1>1. UNCHANGED <<assets, manager, screen, outcome, statusById, counts, dirty, pending, uiTimer,
                  observed, notice, metrics>>
  BY DEF MetricsTimer
<1>2. Listening /\ screen = "active" /\ outcome = "running"
  BY DEF MetricsTimer, Listening
<1>3. PICK e : /\ shown' = [shown EXCEPT !.eta = e]
               /\ e = "estimate" => metrics.final
  <2>1. shown' = [shown EXCEPT !.eta = IF metrics.final THEN "estimate" ELSE "calculating"]
    BY DEF MetricsTimer
  <2>2. "calculating" # "estimate"
    OBVIOUS
  <2>3. (IF metrics.final THEN "estimate" ELSE "calculating") = "estimate" => metrics.final
    BY <2>2
  <2> QED BY <2>1, <2>3
<1>4. /\ IsShown(shown') /\ shown'.summary = shown.summary /\ shown'.total = shown.total
      /\ shown'.eta = e /\ shown'.results = shown.results
  BY <1>3 DEF ScreenInv, ScreenTypes, IsShown
<1>5. ScreenTypes'
  BY <1>1, <1>4 DEF ScreenInv, ScreenTypes
<1>6. EntriesGood'
  BY <1>1, <1>4 DEF ScreenInv, EntriesGood, Items, ItemsOf, AssetIds
<1>7. ShownGood'
  BY <1>1, <1>4 DEF ScreenInv, ShownGood, Items, ItemsOf
<1>8. TimersGood'
  BY <1>1, <1>2, <1>3, <1>4 DEF ScreenInv, TimersGood, Ended
<1>9. Quiet
  BY <1>2, <1>4, ListeningIs, NumbersGood DEF Quiet
<1> QED BY <1>5, <1>6, <1>7, <1>8, <1>9 DEF ScreenInv

\* The manager reports progress; late progress is ignored.
LEMMA OnProgressStep ==
    ASSUME ScreenInv, NEW activity \in Activities, NEW sent \in BOOLEAN, OnProgress(activity, sent)
    PROVE  ScreenInv' /\ Quiet
<1>1. UNCHANGED <<assets, screen, outcome, statusById, counts, dirty, shown>>
  BY DEF OnProgress
<1>2. /\ manager \in {"preparing", "sending"} /\ screen # "none"
      /\ manager' \in {"preparing", "sending"}
      /\ activity = "complete" => manager' = "sending"
      /\ manager = "sending" => manager' = "sending"
  <2>1. manager \in {"preparing", "sending"}
    BY DEF OnProgress, Running
  <2>2. "off" \notin {"preparing", "sending"}
    OBVIOUS
  <2>3. screen # "none"
    BY <2>1, <2>2 DEF ScreenInv, TimersGood
  <2> QED BY <2>1, <2>3 DEF OnProgress
<1>3. EntriesGood' /\ ShownGood'
  BY <1>1, EntriesKept
<1>4. /\ manager' \in {"off", "refused", "preparing", "sending", "over"}
      /\ manager \in {"sending", "over"} => manager' \in {"sending", "over"}
  <2>1. "over" \notin {"preparing", "sending"}
    OBVIOUS
  <2> QED BY <1>2, <2>1
<1>5. CASE Listening
  <2>1. /\ ObserveMetrics([activity |-> activity, sent |-> sent]) /\ ObserveUpload(sent)
        /\ pending' = [activity |-> activity, sent |-> sent] /\ uiTimer' = TRUE
    BY <1>5 DEF OnProgress
  <2>2. screen = "active" /\ outcome = "running" /\ ~Ended
    BY <1>5 DEF Listening, Ended
  <2>3. observed' \in BOOLEAN /\ NoticeGood(notice', observed') /\ notice'.shown = notice.shown
    <3>1. observed \in BOOLEAN /\ NoticeGood(notice, observed)
      BY DEF ScreenInv, ScreenTypes, TimersGood, NoticeGood
    <3> QED BY <2>1, <3>1, ObserveUploadGood
  <2>4. /\ metrics' \in [timer : BOOLEAN, final : BOOLEAN]
        /\ metrics'.final => metrics.final \/ activity = "complete"
    <3>1. metrics \in [timer : BOOLEAN, final : BOOLEAN] /\ metrics.final \in BOOLEAN
      BY DEF ScreenInv, ScreenTypes
    <3> DEFINE b == metrics.final \/ activity = "complete"
    <3>2. b \in BOOLEAN
      BY ONLY ZenonT(60)
    <3>3. metrics' = [metrics EXCEPT !.final = b]
      BY <2>1 DEF ObserveMetrics
    <3>4. b => metrics.final \/ activity = "complete"
      OBVIOUS
    <3> HIDE DEF b
    <3> QED BY <3>1, <3>2, <3>3, <3>4
  <2>5. ScreenTypes'
    <3>1. pending' \in [activity : Activities, sent : BOOLEAN]
      BY <2>1
    <3> QED BY <1>1, <1>4, <2>1, <2>3, <2>4, <3>1 DEF ScreenInv, ScreenTypes, NoticeGood
  <2>6. TimersGood'
    BY <1>1, <1>2, <1>4, <2>1, <2>2, <2>3, <2>4 DEF ScreenInv, TimersGood, Ended, NoticeGood
  <2>7. Quiet
    BY <1>1, <2>2, QuietStep
  <2> QED BY <1>3, <2>5, <2>6, <2>7 DEF ScreenInv
<1>6. CASE ~Listening
  <2>1. UNCHANGED <<metrics, observed, notice, pending, uiTimer>>
    BY <1>6 DEF OnProgress
  <2>2. ScreenTypes'
    BY <1>1, <1>4, <2>1 DEF ScreenInv, ScreenTypes
  <2>3. TimersGood'
    BY <1>1, <1>2, <1>4, <2>1 DEF ScreenInv, TimersGood, Ended
  <2>4. Quiet
    BY <1>1, <2>1, QuietStep
  <2> QED BY <1>3, <2>2, <2>3, <2>4 DEF ScreenInv
<1> QED BY <1>5, <1>6

\* The status of an entry that can still change is not a terminal one.
LEMMA OpenStatus ==
    ASSUME NEW st, NEW s \in NextStatuses(st)
    PROVE  st \notin Terminal
BY DEF NextStatuses, Terminal

\* One status of a transfer changes, and its count with it.
LEMMA CountsFollow ==
    ASSUME ScreenInv, NEW i, NEW s, s \in NextStatuses(StatusOf(i)),
           statusById' = With(statusById, {i}, s), counts' = Count(StatusOf(i), s)
    PROVE  /\ counts' \in Counts
           /\ \A t \in Terminal : counts'[t] = Cardinality(Settled(statusById', t))
           /\ \A t \in Terminal : counts[t] <= counts'[t]
<1>1. StatusOf(i) \notin Terminal
  BY OpenStatus
<1>2. /\ counts \in [Terminal -> Nat]
      /\ \A t \in Terminal : counts[t] = Cardinality(Settled(statusById, t))
  BY DEF ScreenInv, ScreenTypes, EntriesGood, Counts
<1>3. ASSUME NEW t \in Terminal
      PROVE  /\ t = s => Cardinality(Settled(statusById', t))
                           = Cardinality(Settled(statusById, t)) + Cardinality({i})
             /\ t # s => Cardinality(Settled(statusById', t)) = Cardinality(Settled(statusById, t))
  <2>1. \A id \in {i} \cap DOMAIN statusById : statusById[id] # t
    BY <1>1 DEF StatusOf
  <2>2. IsFiniteSet(DOMAIN statusById) /\ IsFiniteSet({i})
    BY SizesGood, FS_Singleton
  <2>3. /\ t = s => Cardinality(Settled(With(statusById, {i}, s), t))
                      = Cardinality(Settled(statusById, t)) + Cardinality({i})
        /\ t # s => Cardinality(Settled(With(statusById, {i}, s), t))
                      = Cardinality(Settled(statusById, t))
    BY ONLY SMTT(60), <2>1, <2>2, CountWithNew
  <2> QED BY <2>3
<1>4. Cardinality({i}) = 1
  BY FS_Singleton
<1>5. CASE s \in Terminal
  <2>1. counts' = [counts EXCEPT ![s] = @ + 1]
    BY <1>1, <1>5 DEF Count
  <2>2. counts' \in Counts /\ \A t \in Terminal : counts'[t] = IF t = s THEN counts[t] + 1 ELSE counts[t]
    BY ONLY SMTT(60), <1>2, <1>5, <2>1 DEF Counts
  <2>3. ASSUME NEW t \in Terminal
        PROVE  counts'[t] = Cardinality(Settled(statusById', t)) /\ counts[t] <= counts'[t]
    <3>1. /\ counts[t] \in Nat /\ counts[t] = Cardinality(Settled(statusById, t))
          /\ counts'[t] = IF t = s THEN counts[t] + 1 ELSE counts[t]
      BY <1>2, <2>2
    <3>2. /\ t = s => Cardinality(Settled(statusById', t))
                        = Cardinality(Settled(statusById, t)) + 1
          /\ t # s => Cardinality(Settled(statusById', t)) = Cardinality(Settled(statusById, t))
      BY <1>3, <1>4
    <3> QED BY ONLY SMTT(60), <3>1, <3>2
  <2> QED BY <2>2, <2>3
<1>6. CASE s \notin Terminal
  <2>1. counts' = counts
    BY <1>6 DEF Count
  <2>2. \A t \in Terminal : t # s /\ counts[t] <= counts[t]
    BY SMTT(60), <1>2, <1>6
  <2> QED BY <1>2, <1>3, <2>1, <2>2 DEF Counts
<1> QED BY <1>5, <1>6

\* The manager reports the status of an entry; a late one is ignored.
LEMMA UpdateFileStatusStep ==
    ASSUME ScreenInv, NEW i \in Items, NEW s, UpdateFileStatus(i, s)
    PROVE  ScreenInv' /\ Quiet
<1>1. UNCHANGED <<assets, manager, screen, outcome, pending, metrics>>
  BY DEF UpdateFileStatus
<1>2. CASE ~Listening
  <2>1. UNCHANGED screenVars
    BY <1>1, <1>2 DEF UpdateFileStatus, screenVars
  <2> QED BY <2>1, ScreenStutters
<1>3. CASE Listening
  <2>1. /\ ObserveUpload(s = "uploading") /\ statusById' = With(statusById, {i}, s)
        /\ shown' = [shown EXCEPT !.total = Greater(shown.total, Cardinality(DOMAIN statusById'))]
        /\ counts' = Count(StatusOf(i), s) /\ dirty' = TRUE /\ uiTimer' = TRUE
        /\ s \in NextStatuses(StatusOf(i))
    BY <1>3 DEF UpdateFileStatus
  <2>2. screen = "active" /\ outcome = "running" /\ ~Ended
    BY <1>3 DEF Listening, Ended
  <2>3. observed' \in BOOLEAN /\ NoticeGood(notice', observed')
    <3>1. observed \in BOOLEAN /\ NoticeGood(notice, observed)
      BY DEF ScreenInv, ScreenTypes, TimersGood, NoticeGood
    <3> DEFINE u == s = "uploading"
    <3>2. u \in BOOLEAN
      BY ONLY ZenonT(60)
    <3>3. ObserveUpload(u)
      BY <2>1
    <3> HIDE DEF u
    <3> QED BY <3>1, <3>2, <3>3, ObserveUploadGood
  <2>4. /\ counts' \in Counts
        /\ \A t \in Terminal : counts'[t] = Cardinality(Settled(statusById', t))
        /\ \A t \in Terminal : counts[t] <= counts'[t]
    BY <2>1, CountsFollow
  <2>5. DOMAIN statusById' \subseteq Items
    <3>1. DOMAIN statusById' = DOMAIN statusById \cup {i}
      BY <2>1 DEF With
    <3> QED BY <2>2, <3>1 DEF ScreenInv, EntriesGood
  <2> DEFINE n == Cardinality(DOMAIN statusById')
             g == Greater(shown.total, n)
  <2>6. n \in Nat /\ n <= Cardinality(Items) /\ Cardinality(Items) \in Nat
    <3>1. DOMAIN statusById' \in SUBSET Items /\ IsFiniteSet(Items) /\ Cardinality(Items) \in Nat
      BY <2>5, SizesGood
    <3>2. IsFiniteSet(DOMAIN statusById') /\ n <= Cardinality(Items)
      BY <3>1, FS_Subset
    <3> QED BY <3>1, <3>2, FS_CardinalityType
  <2> HIDE DEF n
  <2>7. g \in Nat /\ shown.total <= g /\ g <= Cardinality(Items)
    <3>1. shown.total \in Nat /\ shown.total <= Cardinality(Items)
      BY DEF ScreenInv, ScreenTypes, EntriesGood
    <3> QED BY <2>6, <3>1, GreaterIs
  <2>8. shown' = [shown EXCEPT !.total = g]
    BY <2>1 DEF n
  <2> HIDE DEF g
  <2>9. /\ IsShown(shown') /\ shown'.summary = shown.summary /\ shown'.total = g
        /\ shown'.eta = shown.eta /\ shown'.results = shown.results
    BY <2>8 DEF ScreenInv, ScreenTypes, IsShown
  <2>10. ScreenTypes'
    BY <1>1, <2>1, <2>3, <2>4, <2>7, <2>9 DEF ScreenInv, ScreenTypes, NoticeGood
  <2>11. EntriesGood'
    <3>1. /\ shown.total \in Nat /\ Cardinality(assets) <= shown.total
          /\ Cardinality(assets) \in Nat /\ g \in Nat /\ shown.total <= g
      BY <2>7, SizesGood, NumbersGood DEF ScreenInv, EntriesGood
    <3>2. Cardinality(assets) <= g
      BY ONLY SMTT(60), <3>1
    <3>3. assets' = assets /\ Items' = Items
      BY <1>1 DEF Items, ItemsOf
    <3> QED BY <2>4, <2>5, <2>7, <2>9, <3>2, <3>3 DEF EntriesGood
  <2>12. ShownGood'
    <3>1. ASSUME NEW t \in Terminal PROVE shown.summary[t] <= counts'[t]
      <4>1. /\ shown.summary[t] \in Nat /\ counts[t] \in Nat /\ counts'[t] \in Nat
            /\ shown.summary[t] <= counts[t] /\ counts[t] <= counts'[t]
        BY <2>4, NumbersGood DEF ScreenInv, ShownGood, Counts
      <4> QED BY ONLY SMTT(60), <4>1
    <3> QED BY <1>1, <2>1, <2>2, <2>9, <3>1 DEF ShownGood
  <2>13. TimersGood'
    BY <1>1, <2>1, <2>2, <2>3, <2>9 DEF ScreenInv, TimersGood, Ended, NoticeGood
  <2>14. Quiet
    <3>1. shown'.total >= shown.total
      <4>1. shown.total \in Nat /\ g \in Nat /\ shown.total <= g /\ shown'.total = g
        BY <2>7, <2>9, NumbersGood
      <4> QED BY ONLY ZenonT(60), <4>1
    <3> QED BY <2>2, <2>9, <3>1, NumbersGood DEF Quiet
  <2> QED BY <2>10, <2>11, <2>12, <2>13, <2>14 DEF ScreenInv
<1> QED BY <1>2, <1>3

\* What finish does: everything that was counted is shown, and all timers stop.
LEMMA FinishGood ==
    ASSUME ScreenInv, Listening, NEW end, NEW changed \in BOOLEAN, NEW summary \in BOOLEAN,
           ~changed => counts' = shown.summary, Finish(end, changed, summary)
    PROVE  /\ outcome' = end /\ uiTimer' = FALSE /\ pending' = NoProgress /\ dirty' = FALSE
           /\ metrics' \in [timer : BOOLEAN, final : BOOLEAN]
           /\ ~metrics'.timer /\ metrics'.final = metrics.final
           /\ notice' \in Notices /\ ~notice'.show /\ ~notice'.hide
           /\ notice'.shown = notice.shown
           /\ Renders(shown', shown, counts') /\ shown'.results = statusById'
           /\ shown'.eta = "done"
           /\ summary => shown'.total = Cardinality(Items)
<1>1. /\ outcome' = end /\ uiTimer' = FALSE /\ pending' = NoProgress /\ dirty' = FALSE
      /\ metrics' = [metrics EXCEPT !.timer = FALSE] /\ notice' = Dispose(notice)
  BY DEF Finish
<1>2. /\ metrics' \in [timer : BOOLEAN, final : BOOLEAN]
      /\ ~metrics'.timer /\ metrics'.final = metrics.final
  BY <1>1 DEF ScreenInv, ScreenTypes
<1>3. notice' \in Notices /\ ~notice'.show /\ ~notice'.hide /\ notice'.shown = notice.shown
  BY <1>1, DisposeFields DEF ScreenInv, ScreenTypes
<1> DEFINE f == Flushed(shown, changed, counts')
           n == IF summary THEN Greater(f.total, Cardinality(Items)) ELSE f.total
           t == [f EXCEPT !.results = statusById', !.eta = "done", !.total = n]
<1>4. shown' = t
  BY DEF Finish
<1>5. Renders(f, shown, counts')
  <2>1. Renders(f, shown, IF changed THEN counts' ELSE shown.summary)
    BY FlushedRenders
  <2>2. (IF changed THEN counts' ELSE shown.summary) = counts'
    OBVIOUS
  <2> HIDE DEF f
  <2> QED BY <2>1, <2>2
<1> HIDE DEF f
<1>6. /\ n \in Nat /\ f.total <= n /\ n <= Cardinality(Items)
      /\ summary => n = Cardinality(Items)
  <2>1. f.total \in Nat /\ f.total <= Cardinality(Items) /\ Cardinality(Items) \in Nat
    BY <1>5, SizesGood DEF Renders
  <2> QED BY ONLY SMTT(60), <2>1 DEF n, Greater
<1> HIDE DEF n
<1>7. /\ IsShown(t) /\ t.summary = f.summary /\ t.total = n /\ t.eta = "done"
      /\ t.results = statusById'
  BY <1>5 DEF Renders, IsShown
<1> HIDE DEF t
<1>8. shown.total <= n
  <2>1. shown.total \in Nat /\ f.total \in Nat /\ n \in Nat /\ shown.total <= f.total /\ f.total <= n
    BY <1>5, <1>6, NumbersGood DEF Renders
  <2> QED BY ONLY SMTT(60), <2>1
<1>9. Renders(shown', shown, counts')
  BY <1>4, <1>5, <1>6, <1>7, <1>8 DEF Renders
<1> QED BY <1>1, <1>2, <1>3, <1>4, <1>6, <1>7, <1>9

\* A transfer that is over: what the two ends have in common.
LEMMA OverGood ==
    ASSUME ScreenInv, Listening, UNCHANGED <<assets, screen, observed>>, manager' = "over",
           outcome' \in {"complete", "fatal"},
           uiTimer' = FALSE, pending' = NoProgress, dirty' = FALSE,
           metrics' \in [timer : BOOLEAN, final : BOOLEAN], ~metrics'.timer,
           notice' \in Notices, ~notice'.show, ~notice'.hide, notice'.shown = notice.shown,
           Renders(shown', shown, counts'), shown'.results = statusById',
           counts' \in Counts, \A t \in Terminal : counts[t] <= counts'[t],
           DOMAIN statusById' \subseteq Items \cup AssetIds(assets),
           \A s \in Terminal : counts'[s] = Cardinality(Settled(statusById', s)),
           outcome' = "complete" => Items = DOMAIN statusById' /\ shown'.total = Cardinality(Items)
    PROVE  ScreenInv' /\ Quiet
<1>1. screen = "active" /\ outcome = "running" /\ ~Ended
  BY DEF Listening, Ended
<1>2. assets' = assets /\ Items' = Items /\ AssetIds(assets)' = AssetIds(assets)
  BY DEF Items, ItemsOf, AssetIds
<1>3. outcome' # "running"
  <2>1. "running" \notin {"complete", "fatal"}
    OBVIOUS
  <2> QED BY <2>1
<1>4. ScreenTypes'
  <2>1. /\ shown'.summary \in Counts /\ shown'.total \in Nat /\ IsShown(shown')
        /\ observed' \in BOOLEAN /\ screen' \in {"none", "active", "left"}
        /\ assets' \subseteq DOMAIN Parts /\ IsFiniteSet(assets')
    BY DEF Renders, ScreenInv, ScreenTypes
  <2> QED BY <2>1 DEF ScreenTypes
<1>5. EntriesGood'
  <2>1. /\ shown.total \in Nat /\ Cardinality(assets) <= shown.total /\ shown'.total \in Nat
        /\ Cardinality(assets) \in Nat /\ shown.total <= shown'.total
        /\ shown'.total <= Cardinality(Items)
    BY SizesGood, NumbersGood DEF ScreenInv, EntriesGood, Renders
  <2>2. Cardinality(assets) <= shown'.total
    BY ONLY SMTT(60), <2>1
  <2> QED BY <1>2, <1>3, <2>1, <2>2 DEF EntriesGood
<1>6. ShownGood'
  <2>1. ASSUME NEW s \in Terminal PROVE counts'[s] <= counts'[s]
    <3>1. counts'[s] \in Nat
      BY DEF Counts
    <3> QED BY ONLY SMTT(60), <3>1
  <2> QED BY <1>2, <1>3, <2>1 DEF ShownGood, Renders
<1>7. TimersGood'
  <2>1. "active" # "none"
    OBVIOUS
  <2>2. notice.shown => observed
    BY DEF ScreenInv, TimersGood
  <2> QED BY <1>1, <1>3, <2>1, <2>2 DEF TimersGood, Ended
<1>8. Quiet
  <2>1. shown'.total >= shown.total
    <3>1. shown.total \in Nat /\ shown'.total \in Nat /\ shown.total <= shown'.total
      BY NumbersGood DEF Renders
    <3> QED BY ONLY ZenonT(60), <3>1
  <2>2. ASSUME NEW s \in Terminal PROVE shown'.summary[s] >= shown.summary[s]
    <3>1. /\ shown'.summary[s] = counts'[s] /\ counts'[s] \in Nat /\ counts[s] \in Nat
          /\ shown.summary[s] \in Nat /\ shown.summary[s] <= counts[s] /\ counts[s] <= counts'[s]
      BY NumbersGood DEF Renders, Counts, ScreenInv, ShownGood
    <3> QED BY ONLY SMTT(60), <3>1
  <2> QED BY <1>1, <2>1, <2>2 DEF Quiet
<1> QED BY <1>4, <1>5, <1>6, <1>7, <1>8 DEF ScreenInv

\* The manager goes over, and nobody listens.
LEMMA OverUnheard ==
    ASSUME ScreenInv, ~Listening, manager # "off", manager' = "over",
           UNCHANGED <<assets, screen, outcome, statusById, counts, dirty, pending, uiTimer,
                       observed, notice, metrics, shown>>
    PROVE  ScreenInv' /\ Quiet
<1>1. EntriesGood' /\ ShownGood'
  BY EntriesKept
<1>2. ScreenTypes'
  BY DEF ScreenInv, ScreenTypes
<1>3. TimersGood'
  BY DEF ScreenInv, TimersGood, Ended
<1>4. Quiet
  BY QuietStep
<1> QED BY <1>1, <1>2, <1>3, <1>4 DEF ScreenInv

\* All entries are settled: the screen shows the whole result.
LEMMA OnCompleteStep ==
    ASSUME ScreenInv, OnComplete
    PROVE  ScreenInv' /\ Quiet
<1>1. manager = "sending" /\ manager' = "over" /\ UNCHANGED <<assets, screen, observed, statusById, counts>>
  BY DEF OnComplete
<1>2. CASE ~Listening
  <2>1. UNCHANGED <<outcome, uiTimer, metrics, notice, shown, pending, dirty>>
    BY <1>2 DEF OnComplete
  <2>2. manager # "off"
    BY <1>1
  <2> QED BY <1>1, <1>2, <2>1, <2>2, OverUnheard
<1>3. CASE Listening
  <2>1. Finish("complete", dirty, TRUE) /\ \A i \in Items : StatusOf(i) \in Terminal
    BY <1>3 DEF OnComplete
  <2>2. dirty \in BOOLEAN /\ outcome = "running" /\ (~dirty => counts' = shown.summary)
    BY <1>1, <1>3 DEF ScreenInv, ScreenTypes, ShownGood, Listening
  <2>3. /\ outcome' = "complete" /\ uiTimer' = FALSE /\ pending' = NoProgress /\ dirty' = FALSE
        /\ metrics' \in [timer : BOOLEAN, final : BOOLEAN] /\ ~metrics'.timer
        /\ notice' \in Notices /\ ~notice'.show /\ ~notice'.hide
        /\ notice'.shown = notice.shown
        /\ Renders(shown', shown, counts') /\ shown'.results = statusById'
        /\ shown'.total = Cardinality(Items)
    BY <1>3, <2>1, <2>2, FinishGood
  <2>4. Items = DOMAIN statusById
    <3>1. "none" \notin Terminal
      BY DEF Terminal
    <3>2. Items \subseteq DOMAIN statusById
      BY <2>1, <3>1 DEF StatusOf
    <3> QED BY <2>2, <3>2 DEF ScreenInv, EntriesGood
  <2>5. /\ counts' \in Counts
        /\ \A t \in Terminal : counts[t] <= counts'[t]
        /\ \A t \in Terminal : counts'[t] = Cardinality(Settled(statusById', t))
        /\ DOMAIN statusById' \subseteq Items \cup AssetIds(assets)
    <3>1. \A t \in Terminal : counts[t] <= counts[t]
      BY SMTT(60), NumbersGood
    <3> QED BY <1>1, <2>4, <3>1 DEF ScreenInv, ScreenTypes, EntriesGood
  <2> QED BY <1>1, <1>3, <2>3, <2>4, <2>5, OverGood
<1> QED BY <1>2, <1>3

\* The transfer fails: every asset is counted as an error, under its own id.
LEMMA ReportFatalErrorStep ==
    ASSUME ScreenInv, ReportFatalError
    PROVE  ScreenInv' /\ Quiet
<1>1. manager' = "over" /\ UNCHANGED <<assets, screen, observed>>
  BY DEF ReportFatalError
<1>2. CASE ~Listening
  <2>1. UNCHANGED <<statusById, counts, outcome, uiTimer, metrics, notice, shown, pending, dirty>>
    BY <1>2 DEF ReportFatalError
  <2>2. manager # "off"
    BY DEF ReportFatalError, Running
  <2> QED BY <1>1, <1>2, <2>1, <2>2, OverUnheard
<1>3. CASE Listening
  <2> DEFINE U == {id \in AssetIds(assets) : StatusOf(id) \notin Terminal}
             sum == manager # "refused"
  <2>1. /\ statusById' = With(statusById, U, "error")
        /\ counts' = [counts EXCEPT !["error"] = @ + Cardinality(U)]
        /\ Finish("fatal", TRUE, sum)
    BY <1>3 DEF ReportFatalError, AssetIds
  <2>2. U \in SUBSET AssetIds(assets)
    OBVIOUS
  <2>3. sum \in BOOLEAN
    BY ONLY ZenonT(60)
  <2> HIDE DEF U, sum
  <2>4. /\ outcome' = "fatal" /\ uiTimer' = FALSE /\ pending' = NoProgress /\ dirty' = FALSE
        /\ metrics' \in [timer : BOOLEAN, final : BOOLEAN] /\ ~metrics'.timer
        /\ notice' \in Notices /\ ~notice'.show /\ ~notice'.hide
        /\ notice'.shown = notice.shown
        /\ Renders(shown', shown, counts') /\ shown'.results = statusById'
    BY <1>3, <2>1, <2>3, FinishGood
  <2>5. outcome = "running" /\ DOMAIN statusById \subseteq Items
    BY <1>3 DEF ScreenInv, EntriesGood, Listening
  <2>6. IsFiniteSet(U) /\ Cardinality(U) \in Nat /\ U \cap DOMAIN statusById = {}
    <3>1. IsFiniteSet(U)
      BY <2>2, SizesGood, FS_Subset
    <3>2. U \cap DOMAIN statusById = {}
      BY <2>2, <2>5, SizesGood
    <3> QED BY <3>1, <3>2, FS_CardinalityType
  <2>7. /\ counts \in [Terminal -> Nat] /\ "error" \in Terminal
        /\ \A t \in Terminal : counts[t] = Cardinality(Settled(statusById, t))
    BY DEF ScreenInv, ScreenTypes, EntriesGood, Counts, Terminal
  <2>8. /\ counts' \in Counts
        /\ \A t \in Terminal : counts'[t] = IF t = "error" THEN counts[t] + Cardinality(U) ELSE counts[t]
    BY ONLY SMTT(60), <2>1, <2>6, <2>7 DEF Counts
  <2>9. ASSUME NEW t \in Terminal
        PROVE  counts'[t] = Cardinality(Settled(statusById', t)) /\ counts[t] <= counts'[t]
    <3>1. \A id \in U \cap DOMAIN statusById : statusById[id] # t
      BY <2>6
    <3>2. IsFiniteSet(DOMAIN statusById)
      BY SizesGood
    <3>3. /\ t = "error" => Cardinality(Settled(With(statusById, U, "error"), t))
                              = Cardinality(Settled(statusById, t)) + Cardinality(U)
          /\ t # "error" => Cardinality(Settled(With(statusById, U, "error"), t))
                              = Cardinality(Settled(statusById, t))
      BY ONLY SMTT(60), <2>6, <3>1, <3>2, CountWithNew
    <3>4. /\ t = "error" => Cardinality(Settled(statusById', t))
                              = Cardinality(Settled(statusById, t)) + Cardinality(U)
          /\ t # "error" => Cardinality(Settled(statusById', t))
                              = Cardinality(Settled(statusById, t))
      BY <2>1, <3>3
    <3>5. /\ counts[t] \in Nat /\ counts[t] = Cardinality(Settled(statusById, t))
          /\ counts'[t] = IF t = "error" THEN counts[t] + Cardinality(U) ELSE counts[t]
      BY <2>7, <2>8, <2>9
    <3> QED BY ONLY SMTT(60), <2>6, <3>4, <3>5
  <2>10. DOMAIN statusById' \subseteq Items \cup AssetIds(assets)
    <3>1. DOMAIN statusById' = DOMAIN statusById \cup U
      BY <2>1 DEF With
    <3> QED BY <2>2, <2>5, <3>1
  <2>11. outcome' \in {"complete", "fatal"} /\ outcome' # "complete"
    BY <2>4
  <2> QED BY <1>1, <1>3, <2>4, <2>8, <2>9, <2>10, <2>11, OverGood
<1> QED BY <1>2, <1>3

\* The timers and the notice after they were stopped.
LEMMA Stopped ==
    ASSUME ScreenInv, metrics' = [metrics EXCEPT !.timer = FALSE], notice' = Dispose(notice)
    PROVE  /\ metrics' \in [timer : BOOLEAN, final : BOOLEAN]
           /\ ~metrics'.timer /\ metrics'.final = metrics.final
           /\ notice' \in Notices /\ ~notice'.show /\ ~notice'.hide
           /\ notice'.shown = notice.shown
<1>1. metrics' \in [timer : BOOLEAN, final : BOOLEAN] /\ ~metrics'.timer /\ metrics'.final = metrics.final
  BY DEF ScreenInv, ScreenTypes
<1>2. notice' \in Notices /\ ~notice'.show /\ ~notice'.hide /\ notice'.shown = notice.shown
  BY DisposeFields DEF ScreenInv, ScreenTypes
<1> QED BY <1>1, <1>2

LEMMA CancelTransferStep ==
    ASSUME ScreenInv, CancelTransfer
    PROVE  ScreenInv' /\ Quiet
<1>1. /\ Listening /\ outcome' = "cancelled" /\ uiTimer' = FALSE
      /\ metrics' = [metrics EXCEPT !.timer = FALSE] /\ notice' = Dispose(notice)
      /\ UNCHANGED <<assets, manager, screen, statusById, counts, dirty, pending, observed, shown>>
  BY DEF CancelTransfer
<1>2. /\ metrics' \in [timer : BOOLEAN, final : BOOLEAN]
      /\ ~metrics'.timer /\ metrics'.final = metrics.final
      /\ notice' \in Notices /\ ~notice'.show /\ ~notice'.hide
      /\ notice'.shown = notice.shown
  BY <1>1, Stopped
<1>3. EntriesGood' /\ ShownGood'
  BY <1>1, EntriesKept
<1>4. ScreenTypes'
  BY <1>1, <1>2 DEF ScreenInv, ScreenTypes
<1>5. TimersGood'
  <2>1. "cancelled" # "running" /\ "active" # "none"
    OBVIOUS
  <2>2. screen = "active"
    BY <1>1 DEF Listening
  <2> QED BY <1>1, <1>2, <2>1, <2>2 DEF ScreenInv, TimersGood, Ended
<1>6. Quiet
  BY <1>1, ListeningIs, QuietStep
<1> QED BY <1>3, <1>4, <1>5, <1>6 DEF ScreenInv

LEMMA UnmountStep ==
    ASSUME ScreenInv, Unmount
    PROVE  ScreenInv' /\ Quiet
<1>1. /\ screen' = "left" /\ pending' = NoProgress /\ uiTimer' = FALSE
      /\ metrics' = [metrics EXCEPT !.timer = FALSE] /\ notice' = Dispose(notice)
      /\ UNCHANGED <<assets, manager, outcome, statusById, counts, dirty, observed, shown>>
  BY DEF Unmount
<1>2. /\ metrics' \in [timer : BOOLEAN, final : BOOLEAN]
      /\ ~metrics'.timer /\ metrics'.final = metrics.final
      /\ notice' \in Notices /\ ~notice'.show /\ ~notice'.hide
      /\ notice'.shown = notice.shown
  BY <1>1, Stopped
<1>3. EntriesGood' /\ ShownGood'
  BY <1>1, EntriesKept
<1>4. ScreenTypes'
  BY <1>1, <1>2 DEF ScreenInv, ScreenTypes
<1>5. TimersGood'
  <2>1. "left" # "active" /\ "left" # "none"
    OBVIOUS
  <2> QED BY <1>1, <1>2, <2>1 DEF ScreenInv, TimersGood, Ended
<1>6. Quiet
  BY <1>1, <1>2, QuietStep
<1> QED BY <1>3, <1>4, <1>5, <1>6 DEF ScreenInv

\* The screen opens with the assets it was handed.
LEMMA MountStep ==
    ASSUME ScreenInv, NEW S, Mount(S), S \subseteq DOMAIN Parts, IsFiniteSet(S)
    PROVE  ScreenInv' /\ Quiet
<1>1. /\ screen = "none" /\ screen' = "active" /\ assets' = S
      /\ manager' \in {"preparing", "refused"}
      /\ metrics' = [timer |-> TRUE, final |-> FALSE]
      /\ shown' = [shown EXCEPT !.total = Cardinality(S)]
      /\ UNCHANGED <<outcome, statusById, counts, dirty, pending, uiTimer, observed, notice>>
  BY DEF Mount
<1>2. /\ manager = "off" /\ statusById = <<>> /\ outcome = "running" /\ ~dirty
      /\ pending = NoProgress /\ DOMAIN statusById = {}
  <2>1. DOMAIN <<>> = {}
    BY SMTT(60)
  <2> QED BY <1>1, <2>1 DEF ScreenInv, TimersGood
<1>3. /\ IsShown(shown') /\ shown'.summary = shown.summary /\ shown'.total = Cardinality(S)
      /\ shown'.eta = shown.eta /\ shown'.results = shown.results
  BY <1>1 DEF ScreenInv, ScreenTypes, IsShown
<1>4. Cardinality(S) \in Nat /\ Cardinality(S) <= Cardinality(ItemsOf(S)) /\ Cardinality(S) <= Cardinality(S)
  <2>1. Cardinality(S) \in Nat
    BY FS_CardinalityType
  <2>2. Cardinality(S) <= Cardinality(S)
    BY ONLY SMTT(60), <2>1
  <2> QED BY <2>1, <2>2, ItemsFinite
<1>5. metrics' \in [timer : BOOLEAN, final : BOOLEAN] /\ metrics'.final = FALSE
  BY <1>1
<1>6. ScreenTypes'
  BY <1>1, <1>3, <1>4, <1>5 DEF ScreenInv, ScreenTypes
<1>7. EntriesGood'
  <2>1. Items' = ItemsOf(S)
    BY <1>1 DEF Items, ItemsOf
  <2> QED BY <1>1, <1>2, <1>3, <1>4, <2>1 DEF ScreenInv, EntriesGood
<1>8. ShownGood'
  <2>1. "running" \notin {"complete", "fatal"} /\ "running" # "complete"
    OBVIOUS
  <2> QED BY <1>1, <1>2, <1>3, <2>1 DEF ScreenInv, ShownGood
<1>9. TimersGood'
  <2>1. "off" \notin {"sending", "over"} /\ "none" # "active"
    OBVIOUS
  <2>2. shown.eta # "estimate"
    BY <1>2, <2>1 DEF ScreenInv, TimersGood
  <2> QED BY <1>1, <1>2, <1>3, <1>5, <2>1, <2>2 DEF ScreenInv, TimersGood, Ended
<1>10. Quiet
  <2>1. screen # "active"
    BY <1>1
  <2> QED BY <1>1, <2>1 DEF Quiet
<1> QED BY <1>6, <1>7, <1>8, <1>9, <1>10 DEF ScreenInv

\* Before the transfer there is nothing.
LEMMA ScreenBegins ==
    ASSUME ScreenInit
    PROVE  ScreenInv
<1>1. /\ assets = {} /\ manager = "off" /\ screen = "none" /\ outcome = "running"
      /\ statusById = <<>> /\ counts = Zero /\ dirty = FALSE
      /\ pending = NoProgress /\ uiTimer = FALSE /\ observed = FALSE
      /\ notice = [waiting |-> FALSE, shown |-> FALSE, show |-> FALSE, hide |-> FALSE]
      /\ metrics = [timer |-> FALSE, final |-> FALSE]
      /\ shown = [summary |-> Zero, total |-> 0, phase |-> "preparing", eta |-> "calculating",
                  results |-> <<>>]
  BY DEF ScreenInit
<1>2. /\ notice \in Notices /\ ~notice.shown /\ ~notice.show /\ ~notice.hide
  BY <1>1 DEF Notices
<1>3. metrics \in [timer : BOOLEAN, final : BOOLEAN] /\ ~metrics.timer /\ ~metrics.final
  BY <1>1
<1>4. /\ IsShown(shown) /\ shown.summary = Zero /\ shown.total = 0 /\ shown.eta = "calculating"
  BY <1>1 DEF IsShown
<1>5. Zero \in Counts /\ \A s \in Terminal : Zero[s] = 0
  BY DEF Zero, Counts
<1>6. /\ DOMAIN statusById = {} /\ "calculating" # "estimate" /\ "none" # "active"
      /\ "running" \notin {"complete", "fatal"} /\ "running" # "complete"
      /\ 0 \in Nat /\ 0 <= 0
  BY SMTT(60), <1>1
<1>7. Cardinality({}) = 0 /\ IsFiniteSet({})
  BY FS_EmptySet
<1>8. ScreenTypes
  BY <1>1, <1>2, <1>3, <1>4, <1>5, <1>6, <1>7 DEF ScreenTypes
<1>9. EntriesGood
  <2>1. Items = {}
    BY <1>1 DEF Items, ItemsOf
  <2>2. \A s : Settled(statusById, s) = {}
    BY <1>6 DEF Settled
  <2>3. Cardinality(assets) = 0 /\ Cardinality(Items) = 0
    BY <1>1, <1>7, <2>1
  <2> QED BY <1>1, <1>4, <1>5, <1>6, <1>7, <2>2, <2>3 DEF EntriesGood
<1>10. ShownGood
  BY <1>1, <1>4, <1>5, <1>6 DEF ShownGood
<1>11. TimersGood
  BY <1>1, <1>2, <1>3, <1>4, <1>6 DEF TimersGood, Ended
<1> QED BY <1>8, <1>9, <1>10, <1>11 DEF ScreenInv

\* Every step of the screen.
LEMMA ScreenStep ==
    ASSUME ScreenInv, ScreenNext
    PROVE  ScreenInv' /\ Quiet
<1>1. CASE ScreenTimer
  BY <1>1, ShowTimerStep, HideTimerStep, UiTimerStep, MetricsTimerStep DEF ScreenTimer
<1>2. CASE OnComplete \/ ReportFatalError \/ CancelTransfer \/ Unmount
  BY <1>2, OnCompleteStep, ReportFatalErrorStep, CancelTransferStep, UnmountStep
<1>3. ASSUME NEW activity \in Activities, NEW sent \in BOOLEAN, OnProgress(activity, sent)
      PROVE  ScreenInv' /\ Quiet
  BY <1>3, OnProgressStep
<1>4. ASSUME NEW i \in Items, NEW s \in Terminal \cup {"uploading"}, UpdateFileStatus(i, s)
      PROVE  ScreenInv' /\ Quiet
  BY <1>4, UpdateFileStatusStep
<1> QED BY <1>1, <1>2, <1>3, <1>4 DEF ScreenNext

\* The invariant says what ResultsAddUp says.
LEMMA ScreenInvShows ==
    ASSUME ScreenInv
    PROVE  ResultsAddUp
<1>1. ScreenTypeOK
  <2>1. /\ dirty \in BOOLEAN /\ uiTimer \in BOOLEAN /\ observed \in BOOLEAN
        /\ shown.total \in Nat /\ Cardinality(assets) \in Nat /\ Cardinality(Items) \in Nat
        /\ Cardinality(assets) <= shown.total /\ shown.total <= Cardinality(Items)
    BY SizesGood DEF ScreenInv, ScreenTypes, EntriesGood
  <2>2. /\ {dirty, uiTimer, observed} \subseteq BOOLEAN
        /\ shown.total \in Cardinality(assets) .. Cardinality(Items)
    BY ONLY SMTT(60), <2>1
  <2> QED BY <2>2 DEF ScreenInv, ScreenTypes, EntriesGood, AssetIds, ScreenTypeOK
<1>2. \A s \in Terminal : counts[s] = Cardinality({id \in DOMAIN statusById : statusById[id] = s})
  BY DEF ScreenInv, EntriesGood, Settled
<1> QED BY <1>1, <1>2 DEF ScreenInv, ShownGood, TimersGood, ResultsAddUp
-----------------------------------------------------------------------------
(* The way from the picker to the screen *)

FlowInv == PickInv /\ ScreenInv

\* Every step of the user, of the library, of the manager or of a timer.
LEMMA FlowStep ==
    ASSUME FlowInv, [FlowNext]_flowVars
    PROVE  FlowInv' /\ Quiet
<1>1. PickInv /\ ScreenInv
  BY DEF FlowInv
<1>2. CASE Pick /\ UNCHANGED screenVars
  BY <1>1, <1>2, PickStep, ScreenStutters DEF FlowInv
<1>3. CASE HandleTransfer
  <2>1. /\ StartTransfer
        /\ Mount(handed') \/ UNCHANGED screenVars
    BY <1>3 DEF HandleTransfer
  <2>2. PickInv' /\ handed' \subseteq DOMAIN Parts /\ IsFiniteSet(handed')
    BY <1>1, <2>1, StartTransferStep
  <2>3. ScreenInv' /\ Quiet
    BY <1>1, <2>1, <2>2, MountStep, ScreenStutters
  <2> QED BY <2>2, <2>3 DEF FlowInv
<1>4. CASE ScreenNext /\ UNCHANGED pickVars
  BY <1>1, <1>4, ScreenStep, PickStutters DEF FlowInv
<1>5. CASE UNCHANGED flowVars
  BY <1>1, <1>5, ScreenStutters, PickStutters DEF FlowInv, flowVars
<1> QED BY <1>2, <1>3, <1>4, <1>5 DEF FlowNext

\* Both invariants hold in every state on the way from the picker to the end of
\* a transfer screen (useMediaSelection, handleTransfer, useTransferController).
THEOREM FlowInvHolds ==
    FlowSpec => []FlowInv
<1>1. FlowInit => FlowInv
  BY PickBegins, ScreenBegins DEF FlowInit, FlowInv
<1>2. FlowInv /\ [FlowNext]_flowVars => FlowInv'
  BY FlowStep
<1> QED BY <1>1, <1>2, PTL DEF FlowSpec

\* The grid shows assets of the chosen album only, each once, one loader at a
\* time moves its cursor, and it is complete when the last page is there: for
\* every library, size of the pages and of their overlap, and number of album
\* changes and failures (useMediaSelection).
THEOREM GridStaysOfAlbum ==
    FlowSpec => []GridIsOfAlbum
<1>1. FlowInv => GridIsOfAlbum
  BY PickInvShows DEF FlowInv
<1> QED BY <1>1, FlowInvHolds, PTL

\* A drag selects exactly the cells of its range, whichever way the finger went
\* and whatever pages came meanwhile (updateDragSelection, dragSelectionDelta).
THEOREM DragStaysExact ==
    FlowSpec => []DragIsExact
<1>1. FlowInv => DragIsExact
  BY PickInvShows DEF FlowInv
<1> QED BY <1>1, FlowInvHolds, PTL

\* Each settled entry is counted once, a finished screen shows the whole result,
\* and no timer outlives the screen, for every selection and every number of
\* entries that its assets expand to (useTransferController, QueueNotice).
THEOREM ResultsAlwaysAddUp ==
    FlowSpec => []ResultsAddUp
<1>1. FlowInv => ResultsAddUp
  BY ScreenInvShows DEF FlowInv
<1> QED BY <1>1, FlowInvHolds, PTL

\* A screen that is over is silent, whatever callbacks come late, and until then
\* what it shows never goes backwards (isActive, finished, applyProgress).
THEOREM ScreenIsQuietAfterEnd ==
    FlowSpec => QuietAfterEnd
<1>1. FlowInv /\ [FlowNext]_flowVars =>
        [/\ Ended => UNCHANGED <<statusById, counts, notice.shown>>
         /\ Ended /\ screen = "active" => UNCHANGED shown
         /\ screen = "active" => /\ shown'.total >= shown.total
                                 /\ \A s \in Terminal :
                                      shown'.summary[s] >= shown.summary[s]]_screenVars
  BY FlowStep DEF Quiet
<1> QED BY <1>1, FlowInvHolds, PTL DEF FlowSpec, QuietAfterEnd
=============================================================================
