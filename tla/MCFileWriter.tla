---------------------------- MODULE MCFileWriter ----------------------------
(* Small instances of FileWriter for TLC. *)
EXTENDS FileWriterInv, FileWriterLive, TLC

CONSTANTS a1, a2, b1, u1, u2, u3, w1, w2, w3

\* Ids a1 and a2 belong to one client, b1 to another.
MCOwner == (a1 :> "a" @@ a2 :> "a" @@ b1 :> "b")

\* Two original names that sanitizeFilename maps to the same stored name.
MCSafeName == ("p?.jpg" :> "p_.jpg" @@ "p*.jpg" :> "p_.jpg")

Meta(n, s, c, k) == [name |-> n, size |-> s, chunks |-> c, skip |-> k]
TwoChunks == {Meta("p?.jpg", 2, 2, TRUE)}
OneChunk == {Meta("p?.jpg", 1, 1, TRUE), Meta("p*.jpg", 1, 1, FALSE)}

\* One small file and one as large as a client may have.
TwoSizes == {Meta("p?.jpg", 1, 1, TRUE), Meta("p*.jpg", 2, 1, FALSE)}

\* Others may delete a file, or put another one in its place.
MCExternal == {NoFile, <<Blank>>}

Sym == Permutations(Uploads) \cup Permutations(Workers)
=============================================================================
