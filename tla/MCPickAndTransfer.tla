------------------------- MODULE MCPickAndTransfer --------------------------
(* Small instances of PickAndTransfer for TLC.                             *)
EXTENDS PickAndTransfer

\* Recents, an album that shares an asset with it, and an empty one.
ThreeAlbums == <<<<1, 2, 3>>, <<3, 4>>, <<>>>>

\* The second asset is a Live Photo: still and motion.
MCParts == <<1, 2, 1, 1>>
=============================================================================
