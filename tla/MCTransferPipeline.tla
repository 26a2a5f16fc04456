------------------------ MODULE MCTransferPipeline ------------------------
(* Small instances of TransferPipeline for TLC.                            *)
EXTENDS TransferPipeline

TwoWorkers == {0, 1}
\* A Live Photo with two components, and a picture.
LiveAndPicture == <<2, 1>>
\* The second component of the Live Photo.
OneFile == {<<1, 2>>}

Setting(native, mode, thermal) == [native |-> native, mode |-> mode, thermal |-> thermal]
\* Each mode with and without the native module, under either thermal policy.
FourSettings ==
    {Setting(TRUE, "streaming", "monitor-only"), Setting(TRUE, "prepare-first", "adaptive"),
     Setting(FALSE, "streaming", "adaptive"), Setting(FALSE, "prepare-first", "monitor-only")}
=============================================================================
