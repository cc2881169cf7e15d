------------------------------- MODULE PartFile -------------------------------
(***************************************************************************)
(* PartFile (Plazma/src/storage/part_file.cpp): the "<name>.part, renamed  *)
(* to <name> on success" file behind one download.                         *)
(*                                                                         *)
(* A file's content is a sequence of cells.  A cell is an opaque block of  *)
(* bytes; the module that uses this one decides what it stands for, and    *)
(* byte counts are counts of cells.  NoFile stands for a name that does    *)
(* not exist on disk.                                                      *)
(*                                                                         *)
(* The operators are functions of what is on disk under the part's name.   *)
(* No two handles are ever open on one part.  So a handle writes to what   *)
(* is on disk under the part's name or, when somebody removed the name     *)
(* while it was open, to an inode nobody can find any more: its writes     *)
(* succeed and change nothing on disk.                                     *)
(***************************************************************************)
EXTENDS Naturals, Sequences

CONSTANTS
    NoFile,     \* the content of a name that is not on disk
    MinResume   \* kMinResumeBytes: a shorter leftover is not worth a Range request

ASSUME MinResumeAssumption == MinResume \in Nat

(* A leftover is resumed unless it is too small to bother, or already as   *)
(* long as the file is known to be.  total = 0 is "size not known".        *)
Resumable(c, total) ==
    /\ c # NoFile
    /\ Len(c) >= MinResume
    /\ ~ (total > 0 /\ Len(c) >= total)

(* What is under the part's name after open() succeeds ...                 *)
Opened(c, total) == IF Resumable(c, total) THEN c ELSE <<>>

(* ... and after it fails: the junk leftover has been removed already.     *)
OpenFailed(c, total) == IF Resumable(c, total) THEN c ELSE NoFile

(* A write of chunk.                                                       *)
Written(c, chunk) == IF c = NoFile THEN NoFile ELSE c \o chunk

(* What the file can hold when write() reports a short or failed write:    *)
(* none or some of the chunk's cells landed before the error.              *)
WriteFailed(c, chunk) == {Written(c, SubSeq(chunk, 1, k)) : k \in 0 .. Len(chunk)}

(* A successful truncate().                                                *)
Truncated(c) == IF c = NoFile THEN NoFile ELSE <<>>

(* What is left of a file when bytes still buffered are lost.              *)
LostTail(c) == IF c = NoFile THEN {NoFile} ELSE {SubSeq(c, 1, k) : k \in 0 .. Len(c)}
===============================================================================
