--------------------------- MODULE ProblemPreviews ---------------------------
(***************************************************************************)
(* The previews of problem files that the iPhone keeps for its transfers   *)
(* (ProblemPreviewStore), and the list that shows them (ProblemFilesModal).*)
(* AsyncStorage holds an index and, under keys of their own, the images it *)
(* refers to.  All that writes runs in one chain of promises, the jobs of  *)
(* "work"; "step" is the await at which the first of them is suspended.    *)
(* A load of the list is in no chain and reads between the writes.         *)
(*                                                                         *)
(* A session is identified with the receiver (scope) it was sent to.  An   *)
(* entry stands for the problem files of one asset, and the key of its     *)
(* image for the random one the code draws.                                *)
(*                                                                         *)
(* A definition marked "Wrong:" belongs to no specification: it is an      *)
(* operation with a mistake that one of the properties excludes.           *)
(***************************************************************************)
EXTENDS Integers, Sequences, FiniteSets, SequencesExt

CONSTANTS
    ScopeOf,        \* for each transfer with problem files, its receiver's address
    ProblemAssets,  \* the assets with problem files of a transfer, in order
    MaxPreviews,    \* MAX_PROBLEM_PREVIEWS
    MaxPending,     \* captures in the chain (3)
    MaxClears,      \* bound: times the history of a receiver is deleted
    MaxOpenings,    \* bound: times a list is opened
    MaxUpsets       \* bound: storage operations that fail, and restarts

ASSUME PreviewAssumption ==
    /\ ProblemAssets # <<>>
    /\ {MaxPreviews, MaxPending} \subseteq Nat \ {0}
    /\ Len(ProblemAssets) <= MaxPreviews

VARIABLES
    previews,     \* the index
    pictures,     \* the keys of the images in the storage
    work,         \* the jobs of the chain, the running one first
    step,         \* the running job: where it is, its entries and its batch
    pending,
    generations,
    viewer,       \* the session whose problem files are listed, or none
    listed,       \* the previews on the list
    loads,        \* loads of the list in flight
    newest,       \* the number of the last load, modulo 2
    aged,         \* sessions older than RETENTION_MS
    cleared,      \* history: sessions whose receiver was cleared
    unsure,       \* history: the list was not told of the last change
    saves, clears, openings, upsets

store == <<previews, pictures>>
jobs == <<work, step, pending, generations>>
list == <<viewer, listed, loads, newest>>
asked == <<saves, clears, openings>>
previewVars == <<store, jobs, list, aged, cleared, unsure, asked, upsets>>

-----------------------------------------------------------------------------
Scopes == ToSet(ScopeOf)
Session(n) == <<ScopeOf[n], n>>
PreviewSessions == {Session(n) : n \in DOMAIN ScopeOf}
NoSession == <<>>
AtStart == [at |-> "start", entries |-> <<>>, batch |-> 1]
Prune == [kind |-> "prune", session |-> NoSession, generation |-> 0]

Key(e) == <<e.session, e.asset>>
Used(entries) == {Key(e) : e \in {x \in ToSet(entries) : x.image}}
LastOf(entries) == SubSeq(entries, Max({1, Len(entries) - MaxPreviews + 1}), Len(entries))

\* persist keeps what is not too old, and the last of it.
Kept(entries) ==
    LastOf(SelectSeq(entries, LAMBDA e : e.session \notin aged))

\* The app is launched and prunes.
PreviewInit ==
    /\ previews = <<>> /\ pictures = {}
    /\ work = <<Prune>> /\ step = AtStart /\ pending = 0
    /\ generations = [s \in Scopes |-> 0]
    /\ viewer = NoSession /\ listed = {} /\ loads = {} /\ newest = 0
    /\ aged = {} /\ cleared = {} /\ unsure = FALSE
    /\ saves = 0 /\ clears = 0 /\ openings = 0 /\ upsets = 0

-----------------------------------------------------------------------------
(* What the rest of the app calls.                                         *)

\* The next transfer ends with problem files.
SaveProblemPreviews ==
    /\ saves < Len(ScopeOf) /\ saves' = saves + 1
    /\ IF pending < MaxPending
       THEN /\ work' = Append(work, [kind |-> "save", session |-> Session(saves'),
                                     generation |-> generations[ScopeOf[saves']]])
            /\ pending' = pending + 1
       ELSE UNCHANGED <<work, pending>>
    /\ UNCHANGED <<store, step, generations, list, aged, cleared, unsure, clears, openings,
                   upsets>>

\* The sessions of a receiver that are in the store or on the way to it.
OfScope(scope) ==
    {s \in PreviewSessions :
       /\ s[1] = scope
       /\ \/ \E i \in DOMAIN work : work[i].session = s
          \/ \E e \in ToSet(previews) \cup ToSet(step.entries) : e.session = s}

\* Wrong: the previews are removed at once and not by a job of the chain.
ClearAtOnce(scope) ==
    /\ clears < MaxClears /\ clears' = clears + 1
    /\ generations' = [generations EXCEPT ![scope] = @ + 1]
    /\ previews' = SelectSeq(previews, LAMBDA e : e.session[1] # scope)
    /\ cleared' = cleared \cup OfScope(scope)
    /\ UNCHANGED <<pictures, work, step, pending, list, aged, unsure, saves, openings, upsets>>

\* The receiver has acknowledged that its history is deleted.
ClearProblemPreviews(scope) ==
    /\ clears < MaxClears /\ clears' = clears + 1
    /\ generations' = [generations EXCEPT ![scope] = @ + 1]
    /\ work' = Append(work, [kind |-> "clear", session |-> <<scope, 0>>, generation |-> 0])
    /\ cleared' = cleared \cup OfScope(scope)
    /\ UNCHANGED <<store, step, pending, list, aged, unsure, saves, openings, upsets>>

\* A load begins.  The answers of those before it do not count any more, and
\* the last of them stands for all.
BeginLoad ==
    /\ newest' = (newest + 1) % 2
    /\ loads' = {l \in loads : l.number = newest}
                  \cup {[number |-> newest', at |-> "index", entries |-> <<>>]}

\* The list of problem files of a session opens, with its first load.
OpenProblemFiles(s) ==
    /\ openings < MaxOpenings /\ openings' = openings + 1
    /\ viewer = NoSession /\ s[2] <= saves
    /\ viewer' = s /\ listed' = {}
    /\ BeginLoad
    /\ unsure' = FALSE
    /\ UNCHANGED <<store, jobs, aged, cleared, saves, clears, upsets>>

\* It closes: what its loads still answer finds nobody.
CloseProblemFiles ==
    /\ viewer # NoSession
    /\ viewer' = NoSession /\ listed' = {} /\ loads' = {} /\ newest' = 0
    /\ unsure' = FALSE
    /\ UNCHANGED <<store, jobs, aged, cleared, asked, upsets>>

-----------------------------------------------------------------------------
(* The chain.                                                              *)

Job == Head(work)
Stale == generations[Job.session[1]] # Job.generation

Waits(stage) == work # <<>> /\ step.at = stage
Proceed(stage) == step' = [step EXCEPT !.at = stage]

EndJob ==
    /\ work' = Tail(work) /\ step' = AtStart
    /\ pending' = IF Job.kind = "save" THEN pending - 1 ELSE pending
    /\ UNCHANGED generations

Upset ==
    /\ upsets < MaxUpsets /\ upsets' = upsets + 1

Records(s) == [i \in DOMAIN ProblemAssets |->
                 [session |-> s, asset |-> ProblemAssets[i], image |-> FALSE]]

\* A job begins by reading the index.  A save is dropped if its receiver was
\* cleared since; a session that is saved again replaces what it had.
BeginJob ==
    /\ Waits("start")
    /\ IF Job.kind = "save" /\ Stale THEN EndJob
       ELSE /\ step' = [step EXCEPT !.at = "write", !.entries =
                 CASE Job.kind = "save" ->
                        LastOf(SelectSeq(previews, LAMBDA e : e.session # Job.session)
                                 \o Records(Job.session))
                   [] Job.kind = "clear" ->
                        SelectSeq(previews, LAMBDA e : e.session[1] # Job.session[1])
                   [] OTHER -> previews]
            /\ UNCHANGED <<work, pending, generations>>
    /\ UNCHANGED <<store, list, aged, cleared, unsure, asked, upsets>>

\* persist writes the index.
WriteIndex ==
    /\ Waits("write")
    /\ previews' = Kept(step.entries)
    /\ Proceed("sweep")
    /\ UNCHANGED <<pictures, work, pending, generations, list, aged, cleared, unsure, asked, upsets>>

\* A list that is open loads again.
Notify ==
    /\ IF viewer = NoSession THEN UNCHANGED <<newest, loads>> ELSE BeginLoad
    /\ UNCHANGED <<viewer, listed>>

\* It removes the images that the index does not use, and notifies.  A save
\* goes on with the first or the next batch of thumbnails.
Sweep ==
    /\ Waits("sweep")
    /\ pictures' = pictures \cap Used(previews)
    /\ Notify /\ unsure' = FALSE
    /\ IF Job.kind = "save"
       THEN Proceed("batch") /\ UNCHANGED <<work, pending, generations>>
       ELSE EndJob
    /\ UNCHANGED <<previews, aged, cleared, asked, upsets>>

\* The thumbnails of a batch are requested, unless all are there or the
\* receiver was cleared.
RequestThumbnails ==
    /\ Waits("batch")
    /\ IF Stale \/ step.batch > Len(ProblemAssets) THEN EndJob
       ELSE Proceed("thumbnails") /\ UNCHANGED <<work, pending, generations>>
    /\ UNCHANGED <<store, list, aged, cleared, unsure, asked, upsets>>

\* The answer: a thumbnail, or none if the capture failed.
Thumbnails ==
    /\ Waits("thumbnails")
    /\ IF Stale THEN EndJob
       ELSE /\ \/ Proceed("image")
               \/ step' = [step EXCEPT !.at = "write", !.batch = @ + 1]
            /\ UNCHANGED <<work, pending, generations>>
    /\ UNCHANGED <<store, list, aged, cleared, unsure, asked, upsets>>

WithImage(entries, key) ==
    [i \in DOMAIN entries |->
       IF Key(entries[i]) = key THEN [entries[i] EXCEPT !.image = TRUE] ELSE entries[i]]

\* Wrong: the entry refers to the image although its write may have failed.
StoreImageUnawaited ==
    /\ Waits("image")
    /\ LET key == <<Job.session, ProblemAssets[step.batch]>>
       IN  /\ pictures' \in {pictures, pictures \cup {key}}
           /\ step' = [at |-> "write", batch |-> step.batch + 1,
                       entries |-> WithImage(step.entries, key)]
    /\ UNCHANGED <<previews, work, pending, generations, list, aged, cleared, unsure, asked, upsets>>

\* Its image is stored, and then the entry that refers to it.
StoreImage ==
    /\ Waits("image")
    /\ LET key == <<Job.session, ProblemAssets[step.batch]>>
       IN  /\ pictures' = pictures \cup {key}
           /\ step' = [at |-> "write", batch |-> step.batch + 1,
                       entries |-> WithImage(step.entries, key)]
    /\ UNCHANGED <<previews, work, pending, generations, list, aged, cleared, unsure, asked, upsets>>

\* A storage operation is rejected and ends the job; the chain goes on.  The
\* removal of images may have been done, but nobody is notified.
JobFails ==
    /\ work # <<>> /\ step.at \in {"start", "write", "sweep", "image"}
    /\ Upset
    /\ EndJob
    /\ unsure' = (unsure \/ step.at = "sweep")
    /\ pictures' \in {pictures, IF step.at = "sweep" THEN pictures \cap Used(previews)
                                ELSE pictures}
    /\ cleared' = IF Job.kind = "clear" /\ step.at # "sweep"
                  THEN {s \in cleared : s[1] # Job.session[1]} ELSE cleared
    /\ UNCHANGED <<previews, list, aged, asked>>

WorkStep ==
    \/ BeginJob \/ WriteIndex \/ Sweep \/ RequestThumbnails \/ Thumbnails \/ StoreImage
    \/ JobFails

-----------------------------------------------------------------------------
(* The list of problem files.                                              *)

View(entries) == {[asset |-> e.asset, image |-> e.image /\ Key(e) \in pictures] :
                    e \in ToSet(entries)}
EntriesOf(s) == SelectSeq(previews, LAMBDA e : e.session = s /\ s \notin aged)

\* loadProblemPreviews reads the index, and then the images.
LoadIndex(l) ==
    /\ l.at = "index"
    /\ loads' = (loads \ {l}) \cup {[l EXCEPT !.at = "images", !.entries = EntriesOf(viewer)]}
    /\ UNCHANGED <<store, jobs, viewer, listed, newest, aged, cleared, unsure, asked, upsets>>

\* Only the answer of the newest load is shown.
LoadImages(l) ==
    /\ l.at = "images"
    /\ loads' = loads \ {l}
    /\ listed' = IF l.number = newest THEN View(l.entries) ELSE listed
    /\ UNCHANGED <<store, jobs, viewer, newest, aged, cleared, unsure, asked, upsets>>

LoadFails(l) ==
    /\ Upset
    /\ loads' = loads \ {l}
    /\ listed' = IF l.number = newest THEN {} ELSE listed
    /\ unsure' = (unsure \/ l.number = newest)
    /\ UNCHANGED <<store, jobs, viewer, newest, aged, cleared, asked>>

\* Thirty days pass for a session.
Age(s) ==
    /\ aged = {} /\ \E e \in ToSet(previews) : e.session = s
    /\ aged' = {s}
    /\ unsure' = (unsure \/ viewer # NoSession)
    /\ UNCHANGED <<store, jobs, list, cleared, asked, upsets>>

\* The app is killed and launched again.
RelaunchPreviews ==
    /\ Upset
    /\ work' = <<Prune>> /\ step' = AtStart /\ pending' = 0
    /\ generations' = [s \in Scopes |-> 0]
    /\ viewer' = NoSession /\ listed' = {} /\ loads' = {} /\ newest' = 0
    /\ cleared' = {} /\ unsure' = FALSE
    /\ UNCHANGED <<store, aged, asked>>

PreviewNext ==
    \/ WorkStep
    \/ SaveProblemPreviews
    \/ \E scope \in Scopes : ClearProblemPreviews(scope)
    \/ \E l \in loads : LoadIndex(l) \/ LoadImages(l) \/ LoadFails(l)
    \/ \E s \in PreviewSessions : OpenProblemFiles(s) \/ Age(s)
    \/ CloseProblemFiles \/ RelaunchPreviews

PreviewSpec == PreviewInit /\ [][PreviewNext]_previewVars

-----------------------------------------------------------------------------
\* Types and limits: three captures in the chain, MAX_PROBLEM_PREVIEWS entries
\* in the index (saveProblemPreviews, persist).
PreviewTypeOK ==
    /\ Used(previews) \cup pictures \subseteq PreviewSessions \X ToSet(ProblemAssets)
    /\ step.at \in {"start", "write", "sweep", "batch", "thumbnails", "image"}
    /\ step.batch \in 1..(Len(ProblemAssets) + 1)
    /\ pending \in 0..MaxPending /\ Len(previews) <= MaxPreviews
    /\ generations \in [Scopes -> Nat]
    /\ viewer \in PreviewSessions \cup {NoSession}
    /\ aged \cup cleared \subseteq PreviewSessions
    /\ unsure \in BOOLEAN

\* The index never refers to an image that is not there, whatever is evicted,
\* cleared, rejected by the storage or cut off by a restart; and as long as
\* nothing was rejected or cut off no image is left that it does not refer to
\* (persist writes the index before it removes, saveProblemPreviews the image
\* before the index). The captures that count against the limit are those in
\* the chain: one that fails or is dropped makes room for another. The list
\* shows what the store holds as soon as the newest load has answered, although
\* loads read between the writes and overtake each other.
ImagesAreOwned ==
    /\ PreviewTypeOK
    /\ Used(previews) \subseteq pictures
    /\ (work = <<>> /\ upsets = 0) => pictures = Used(previews)
    /\ pending = Cardinality({i \in DOMAIN work : work[i].kind = "save"})
    /\ ( /\ viewer # NoSession /\ ~unsure
         /\ \A l \in loads : l.number # newest
         /\ ~Waits("sweep") ) => listed = View(EntriesOf(viewer))

\* What was in the store, or on its way to it, when its receiver was cleared
\* does not come back: a save that was running cannot write it again after the
\* clear, which is behind it in the chain.
ClearedStaysCleared ==
    \A e \in ToSet(previews) :
       e.session \in cleared =>
          \E i \in DOMAIN work : work[i].kind = "clear" /\ work[i].session[1] = e.session[1]
=============================================================================
