-------------------------- MODULE MCBrowserUpload --------------------------
(* Small instances of BrowserUpload for TLC.                               *)
EXTENDS BrowserUpload

\* A file that is sent whole, and one that takes two chunks.
WholeAndChunked == <<1, 3>>
\* One worker for which a file has too many chunks, and two for which not.
TwoConfigs == {[chunkSize |-> 1, parallel |-> 1], [chunkSize |-> 2, parallel |-> 2]}
=============================================================================
