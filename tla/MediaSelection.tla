--------------------------- MODULE MediaSelection ---------------------------
(***************************************************************************)
(* The media picker of the iPhone app (useMediaSelection and               *)
(* MediaPickerScreen): the grid that loads an album page by page, the       *)
(* selection by tap, by drag and by Select All, the change of album while   *)
(* answers are on their way, and the hand-over of the selection.            *)
(*                                                                          *)
(* React renders after every event, before the next one, so a handler sees  *)
(* the state as it is; what it captured before an await may be old.         *)
(*                                                                          *)
(* A definition marked "Wrong:" belongs to no specification: it is an       *)
(* operation with a mistake that one of the properties excludes.            *)
(***************************************************************************)
EXTENDS Integers, Sequences, FiniteSets

CONSTANTS
    Library,     \* the assets of each album, in the order of the grid
    PageSize,    \* MEDIA_PAGE_SIZE
    NumColumns,  \* columns of the grid
    MaxOverlap,  \* how far a page may repeat the one before it
    MaxSwitches, \* bound: changes of album
    MaxFailures  \* bound: requests for a page that fail

\* Album 1 is Recents. An album has each of its assets once.
ASSUME LibraryAssumption ==
    /\ 1 \in DOMAIN Library
    /\ \A a \in DOMAIN Library :
         /\ Library[a] \in Seq(Nat)
         /\ \A i, j \in DOMAIN Library[a] : Library[a][i] = Library[a][j] => i = j
ASSUME BoundAssumption ==
    /\ PageSize \in Nat \ {0} /\ NumColumns \in Nat \ {0}
    /\ MaxOverlap \in Nat /\ MaxSwitches \in Nat /\ MaxFailures \in Nat

VARIABLES
    albums,     \* the list of albums: loading, loaded, failed
    album,      \* selectedAlbum
    operation,  \* selectionOperationRef
    requests,   \* page requests on their way, with what their callers captured
    loading,    \* the loading state, shared by the first page and Select All
    loadingMore,
    available,  \* the first page of the album has arrived
    media,
    loaded,     \* loadedMediaIdsRef
    cursor,     \* pageCursorRef
    hasNext,    \* hasNextPageRef
    selected,   \* the selection store
    drag,       \* dragStartIndex, dragLastIndex and dragBaseline
    suppress,   \* suppressNextPress
    handed,     \* what onTransfer was given
    failures,
    before,     \* history: the selection when the drag began, unless replaced since
    abandoned   \* history: assets fetched by a Select All that failed

pageVars == <<loading, loadingMore, available, media, loaded, cursor, hasNext, requests>>
pickVars == <<albums, album, operation, pageVars, selected, drag, suppress, handed, failures,
              before, abandoned>>
-----------------------------------------------------------------------------
ToSet(s) == {s[i] : i \in DOMAIN s}
None == 0

NoDrag == [start |-> None, last |-> None, baseline |-> <<>>]
NotDragging == drag.start = None

\* What a request for the page after a cursor answers. A page may repeat assets
\* of the one before when the library has changed in between. Without permission
\* a page is empty and the last one, as the page of an empty album is; the
\* permission does not change while the app runs.
Page(a, after, overlap) ==
    LET end == IF after + PageSize < Len(Library[a]) THEN after + PageSize ELSE Len(Library[a])
        first == IF after > overlap THEN after - overlap + 1 ELSE 1
    IN [assets |-> SubSeq(Library[a], first, end), hasNext |-> end < Len(Library[a]),
        endCursor |-> end]

FirstRequest(op, a) == [kind |-> "first", op |-> op, album |-> a, after |-> 0, all |-> <<>>]

PickInit ==
    /\ albums = "loading"
    /\ album = 1
    /\ operation = 1
    /\ requests = {FirstRequest(1, 1)}
    /\ loading = TRUE /\ loadingMore = FALSE /\ available = FALSE
    /\ media = <<>> /\ loaded = {} /\ cursor = 0 /\ hasNext = FALSE
    /\ selected = {}
    /\ drag = NoDrag /\ suppress = FALSE
    /\ handed = {} /\ failures = 0
    /\ before = <<>> /\ abandoned = {}

Picking == handed = {}
-----------------------------------------------------------------------------
(* Albums.                                                                  *)

\* fetchAlbums; the covers are cosmetic and each may be missing.
AlbumsAnswer ==
    /\ Picking
    /\ albums = "loading"
    /\ albums' \in {"loaded", "failed"}
    /\ UNCHANGED <<album, operation, pageVars, selected, drag, suppress, handed, failures,
                   before, abandoned>>

\* setSelectedAlbum and the effect that follows: a new operation, everything
\* cleared, the first page requested. The drag state is left alone; no finger
\* is on the grid while the album list is open.
ChangeAlbum(a) ==
    /\ Picking /\ NotDragging
    /\ albums = "loaded"
    /\ operation <= MaxSwitches
    /\ a # album
    /\ album' = a
    /\ operation' = operation + 1
    /\ requests' = requests \cup {FirstRequest(operation + 1, a)}
    /\ loading' = TRUE /\ loadingMore' = FALSE /\ available' = FALSE
    /\ media' = <<>> /\ loaded' = {} /\ cursor' = 0 /\ hasNext' = FALSE
    /\ selected' = {}
    /\ abandoned' = {}
    /\ UNCHANGED <<albums, drag, suppress, handed, failures, before>>

\* An answer, or a failure, for an operation that is no longer the current one.
DropStale ==
    /\ Picking
    /\ \E r \in requests :
         /\ r.op # operation
         /\ requests' = requests \ {r}
    /\ UNCHANGED <<albums, album, operation, loading, loadingMore, available, media, loaded,
                   cursor, hasNext, selected, drag, suppress, handed, failures, before, abandoned>>

Current(kind) == {r \in requests : r.kind = kind /\ r.op = operation}

\* The first page of the album.
FirstPage ==
    /\ Picking
    /\ \E r \in Current("first") :
         LET page == Page(r.album, 0, 0)
         IN /\ loaded' = ToSet(page.assets)
            /\ media' = page.assets
            /\ cursor' = page.endCursor
            /\ hasNext' = page.hasNext
            /\ requests' = requests \ {r}
    /\ loading' = FALSE
    /\ available' = TRUE
    /\ UNCHANGED <<albums, album, operation, loadingMore, selected, drag, suppress, handed,
                   failures, before, abandoned>>

\* The first page cannot be loaded: the grid stays empty, with an alert.
FirstPageFails ==
    /\ Picking
    /\ failures < MaxFailures
    /\ \E r \in Current("first") : requests' = requests \ {r}
    /\ failures' = failures + 1
    /\ selected' = {}
    /\ media' = <<>>
    /\ loading' = FALSE
    /\ UNCHANGED <<albums, album, operation, loadingMore, available, loaded, cursor, hasNext,
                   drag, suppress, handed, before, abandoned>>
-----------------------------------------------------------------------------
(* More pages.                                                              *)

\* loadMoreMedia, when the end of the grid comes near.
LoadMore ==
    /\ Picking
    /\ ~loading /\ ~loadingMore /\ hasNext
    /\ loadingMore' = TRUE
    /\ requests' = requests \cup {[kind |-> "more", op |-> operation, album |-> album,
                                   after |-> cursor, all |-> <<>>]}
    /\ UNCHANGED <<albums, album, operation, loading, available, media, loaded, cursor, hasNext,
                   selected, drag, suppress, handed, failures, before, abandoned>>

\* Wrong: assets that are shown already are shown again.
AdditionsUnfiltered(page, known) == page.assets

\* The assets of a page that are not known to be loaded.
Additions(page, known) ==
    LET new[i \in 0..Len(page.assets)] ==
          IF i = 0 THEN <<>>
          ELSE IF page.assets[i] \in known THEN new[i - 1]
          ELSE Append(new[i - 1], page.assets[i])
    IN new[Len(page.assets)]

MorePage ==
    /\ Picking
    /\ \E r \in Current("more"), overlap \in 0..MaxOverlap :
         LET page == Page(r.album, r.after, overlap)
         IN /\ media' = media \o Additions(page, loaded)
            /\ loaded' = loaded \cup ToSet(page.assets)
            /\ cursor' = page.endCursor
            /\ hasNext' = page.hasNext
            /\ requests' = requests \ {r}
    /\ loadingMore' = FALSE
    /\ UNCHANGED <<albums, album, operation, loading, available, selected, drag, suppress, handed,
                   failures, before, abandoned>>

MoreFails ==
    /\ Picking
    /\ failures < MaxFailures
    /\ \E r \in Current("more") : requests' = requests \ {r}
    /\ failures' = failures + 1
    /\ loadingMore' = FALSE
    /\ UNCHANGED <<albums, album, operation, loading, available, media, loaded, cursor, hasNext,
                   selected, drag, suppress, handed, before, abandoned>>
-----------------------------------------------------------------------------
(* Select All.                                                              *)

\* Everything is loaded: shown, and selected.
SelectEverything(all, after) ==
    /\ cursor' = after
    /\ hasNext' = FALSE
    /\ media' = all
    /\ selected' = ToSet(all)
    /\ loading' = FALSE
    /\ before' = <<>>

\* The button, shown unless something loads or everything is selected already.
\* The grid as it is now is captured for the end.
SelectAll ==
    /\ Picking
    /\ ~loading /\ ~loadingMore
    /\ hasNext \/ Cardinality(selected) < Len(media) \/ selected = {}
    /\ IF hasNext
       THEN /\ loading' = TRUE
            /\ requests' = requests \cup {[kind |-> "all", op |-> operation, album |-> album,
                                           after |-> cursor, all |-> media]}
            /\ UNCHANGED <<cursor, hasNext, media, selected, before>>
       ELSE SelectEverything(media, cursor) /\ UNCHANGED requests
    /\ UNCHANGED <<albums, album, operation, loadingMore, available, loaded, drag, suppress,
                   handed, failures, abandoned>>

\* One page of Select All: its assets count as loaded at once, but are shown
\* only after the last page.
SelectAllPage ==
    /\ Picking
    /\ \E r \in Current("all"), overlap \in 0..MaxOverlap :
         LET page == Page(r.album, r.after, overlap)
             all == r.all \o Additions(page, loaded)
         IN /\ loaded' = loaded \cup ToSet(page.assets)
            /\ IF page.hasNext
               THEN /\ requests' = (requests \ {r}) \cup {[r EXCEPT !.after = page.endCursor,
                                                                   !.all = all]}
                    /\ UNCHANGED <<cursor, hasNext, media, selected, loading, before>>
               ELSE /\ requests' = requests \ {r}
                    /\ SelectEverything(all, page.endCursor)
    /\ UNCHANGED <<albums, album, operation, loadingMore, available, drag, suppress, handed,
                   failures, abandoned>>

\* A page cannot be loaded: an alert asks to try again.
SelectAllFails ==
    /\ Picking
    /\ failures < MaxFailures
    /\ \E r \in Current("all") :
         /\ requests' = requests \ {r}
         /\ abandoned' = abandoned \cup (ToSet(r.all) \ ToSet(media))
    /\ failures' = failures + 1
    /\ loading' = FALSE
    /\ UNCHANGED <<albums, album, operation, loadingMore, available, media, loaded, cursor,
                   hasNext, selected, drag, suppress, handed, before>>

\* The button in place of Select All when everything is selected.
DeselectAll ==
    /\ Picking
    /\ ~loading /\ ~loadingMore /\ ~hasNext
    /\ Cardinality(selected) >= Len(media) /\ selected # {}
    /\ selected' = {}
    /\ before' = <<>>
    /\ UNCHANGED <<albums, album, operation, pageVars, drag, suppress, handed, failures, abandoned>>
-----------------------------------------------------------------------------
(* Taps and drags.                                                          *)

\* A tap on a cell; the first one after a drag is swallowed.
Tap(i) ==
    /\ Picking /\ NotDragging
    /\ i \in DOMAIN media
    /\ IF suppress
       THEN suppress' = FALSE /\ UNCHANGED selected
       ELSE /\ selected' = (selected \ {media[i]}) \cup ({media[i]} \ selected)
            /\ UNCHANGED suppress
    /\ UNCHANGED <<albums, album, operation, pageVars, drag, handed, failures, before, abandoned>>

\* gridIndexForPoint: the cell under the finger, or the last one.
GridIndex(row, column) ==
    LET i == row * NumColumns + column + 1 IN IF i > Len(media) THEN Len(media) ELSE i

Cells == {GridIndex(row, column) : row \in 0..(Len(media) \div NumColumns),
                                   column \in 0..(NumColumns - 1)}

CellRange(i, j) == IF i <= j THEN i..j ELSE j..i

Selection == [i \in DOMAIN media |-> media[i] \in selected]

\* Wrong: a cell that leaves the range keeps what the drag made of it.
DragOverForgetting(d, target) ==
    LET was == IF d.last = None THEN {} ELSE CellRange(d.start, d.last)
        now == CellRange(d.start, target)
    IN /\ drag' = [d EXCEPT !.last = target]
       /\ selected' = selected \cup {media[i] : i \in now \ was}

\* updateDragSelection with dragSelectionDelta: only cells that entered or left
\* the range change; a cell that left gets back what it was when the drag first
\* came to it.
DragOver(d, target) ==
    LET was == IF d.last = None THEN {} ELSE CellRange(d.start, d.last)
        now == CellRange(d.start, target)
        touched == (was \ now) \cup (now \ was)
        baseline == [i \in DOMAIN d.baseline \cup touched |->
                       IF i \in DOMAIN d.baseline THEN d.baseline[i] ELSE media[i] \in selected]
    IN /\ drag' = [d EXCEPT !.last = target, !.baseline = baseline]
       /\ selected' = (selected \ {media[i] : i \in was \ now})
                        \cup {media[i] : i \in (now \ was) \cup {j \in was \ now : baseline[j]}}

\* A long press starts the drag, which selects.
DragStart(i) ==
    /\ Picking /\ NotDragging
    /\ i \in Cells
    /\ media # <<>>
    /\ DragOver([NoDrag EXCEPT !.start = i], i)
    /\ before' = Selection
    /\ suppress' = TRUE
    /\ UNCHANGED <<albums, album, operation, pageVars, handed, failures, abandoned>>

\* The finger moves, or the grid scrolls under it.
DragMove(i) ==
    /\ Picking /\ ~NotDragging
    /\ i \in Cells
    /\ i # drag.last
    /\ DragOver(drag, i)
    /\ UNCHANGED <<albums, album, operation, pageVars, suppress, handed, failures, before,
                   abandoned>>

DragEnd ==
    /\ Picking /\ ~NotDragging
    /\ drag' = NoDrag
    /\ before' = <<>>
    /\ UNCHANGED <<albums, album, operation, pageVars, selected, suppress, handed, failures,
                   abandoned>>

\* startTransfer with selectedAssets: the visible assets, or a scan of the album
\* when not all that is selected is visible. The picker is unmounted, and all it
\* held is gone; answers that are still to come find nobody.
StartTransfer ==
    /\ Picking
    /\ selected # {}
    /\ handed' = IF selected \subseteq ToSet(media) THEN selected
                 ELSE selected \cap ToSet(Library[album])
    /\ albums' = "loading" /\ album' = 1 /\ operation' = 1
    /\ requests' = {}
    /\ loading' = FALSE /\ loadingMore' = FALSE /\ available' = FALSE
    /\ media' = <<>> /\ loaded' = {} /\ cursor' = 0 /\ hasNext' = FALSE
    /\ selected' = {}
    /\ drag' = NoDrag /\ suppress' = FALSE
    /\ failures' = 0 /\ before' = <<>> /\ abandoned' = {}
-----------------------------------------------------------------------------
Answer ==
    \/ AlbumsAnswer \/ DropStale \/ FirstPage \/ FirstPageFails \/ MorePage \/ MoreFails
    \/ SelectAllPage \/ SelectAllFails

Pick ==
    \/ Answer
    \/ \E a \in DOMAIN Library : ChangeAlbum(a)
    \/ LoadMore \/ SelectAll \/ DeselectAll \/ DragEnd
    \/ \E i \in DOMAIN media : Tap(i) \/ DragStart(i) \/ DragMove(i)

PickNext == Pick \/ StartTransfer

PickSpec == PickInit /\ [][PickNext]_pickVars

-----------------------------------------------------------------------------
PickTypeOK ==
    /\ albums \in {"loading", "loaded", "failed"}
    /\ album \in DOMAIN Library
    /\ {loading, loadingMore, available, hasNext, suppress} \subseteq BOOLEAN
    /\ cursor \in Nat
    /\ drag.start \in 0..Len(media) /\ drag.last \in 0..Len(media)
    /\ DOMAIN drag.baseline \subseteq DOMAIN media

\* The grid shows assets of the album that is chosen, each once, whatever
\* answers arrive late and however the pages overlap (selectionOperationRef,
\* loadedMediaIdsRef). What is selected is in the grid, so that the hand-over
\* never has to scan the album for it. Only one loader at a time moves the
\* cursor: a page and Select All never run together. When the last page is
\* there the grid is complete, except for assets that a failed Select All had
\* fetched.
GridIsOfAlbum ==
    /\ PickTypeOK
    /\ ToSet(media) \subseteq ToSet(Library[album])
    /\ \A i, j \in DOMAIN media : media[i] = media[j] => i = j
    /\ selected \subseteq ToSet(media)
    /\ Cardinality({r \in requests : r.op = operation}) <= 1
    /\ (Current("first") \cup Current("all") # {}) = loading
    /\ (Current("more") # {}) = loadingMore
    /\ (available /\ ~hasNext /\ ~loading) =>
         ToSet(Library[album]) \subseteq ToSet(media) \cup abandoned

\* A drag that goes to and fro selects exactly its range: every other cell is
\* as it was when the drag began, although only the cells that enter or leave
\* the range are touched and pages may be appended meanwhile. Select All and
\* Deselect All replace the selection, and end what is promised of the drag.
DragIsExact ==
    (~NotDragging /\ before # <<>>) =>
       \A i \in DOMAIN before :
          Selection[i] = (i \in CellRange(drag.start, drag.last) \/ before[i])
=============================================================================
