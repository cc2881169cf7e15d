----------------------------- MODULE DownloadPaths -----------------------------
(***************************************************************************)
(* download_paths (Plazma/src/storage/download_paths.cpp): choosing the    *)
(* name a download is saved under.  A name is <<base, ext, n>>: the        *)
(* sanitized title, the extension, and the collision number ("Foo.mp4" has *)
(* n = 0, "Foo (1).mp4" has n = 1).                                        *)
(***************************************************************************)
EXTENDS PartFile

CONSTANTS
    Titles,              \* sanitized titles
    MaxCollisionAttempts \* kMaxCollisionAttempts

ASSUME CollisionAssumption == MaxCollisionAttempts \in Nat \ {0}

(* "guess" is the extension extensionFor() falls back to when neither the  *)
(* URL nor the MIME type it was given says better; "true" is the one it    *)
(* derives from the type the server reports.                               *)
Exts == {"guess", "true"}

Paths == Titles \X Exts \X (0 .. MaxCollisionAttempts)

(* Mutant: a leftover ".part" is looked for, the file itself is not.       *)
PartFreeNumbers(files, parts, t, x) ==
    {n \in 0 .. MaxCollisionAttempts - 1 : parts[<<t, x, n>>] = NoFile}

(* The numbers whose candidate the loop looks at and finds unused: neither *)
(* the name nor its ".part" exists.  The last candidate is not looked at.  *)
FreeNumbers(files, parts, t, x) ==
    {n \in 0 .. MaxCollisionAttempts - 1 :
        files[<<t, x, n>>] = NoFile /\ parts[<<t, x, n>>] = NoFile}

(* computeDestPath: the least free number, or the last candidate when the  *)
(* loop gives up.                                                          *)
DestPath(files, parts, t, x) ==
    LET free == FreeNumbers(files, parts, t, x)
    IN <<t, x, IF free = {} THEN MaxCollisionAttempts
               ELSE CHOOSE k \in free : \A m \in free : k <= m>>
================================================================================
