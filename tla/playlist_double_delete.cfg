CONSTANTS
  a = a
  A = A
  Users = {u1}
  Playlists = {p1, p2, p3}
  Videos = {v1}
  Names = {a}
  Fold <- TwoCases
  Thumbnailed = {}
  MaxPlaylists = 2
  MaxItems = 1
  MaxCovers = 1
  NoUser = NoUser
  NoName = NoName
  NoRow = NoRow
  NoPlaylist = NoPlaylist
  Slots = {s1, s2}
  MaxStamp = 0
  Ops = {"create", "delete"}
  Overlap = {"delete"}
  Faults = {}
SPECIFICATION Spec
SYMMETRY Symmetry
INVARIANT NamesUnique
CHECK_DEADLOCK FALSE
