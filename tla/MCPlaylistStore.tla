---------------------------- MODULE MCPlaylistStore ----------------------------
(* Instances of PlaylistStore for TLC.                                     *)
EXTENDS PlaylistStore, TLC

CONSTANTS a, A

TwoCases == [n \in Names |-> IF n = A THEN a ELSE n]    \* A and a are one name
Symmetry == Permutations(Users) \cup Permutations(Playlists) \cup Permutations(Slots)
================================================================================
