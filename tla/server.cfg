CONSTANTS
  u1 = u1
  u2 = u2
  Users = {u1, u2}
  NoUser = NoUser
  Videos = {v1}
  Owner <- OneOwner
  Slots = {s1, s2}
  NoVideo = NoVideo
  NoRow = NoRow
  Faults = {"error", "crash"}
  Searches = {q1, q2}
  Threshold = 2
  Ids = {1, 2, 3}
  MaxTime = 1
  MaxLimit = 2
  LimitArgs = {Absent, Garbled, 0, 3}
  Absent = Absent
  Garbled = Garbled
  NoCursor = NoCursor
SPECIFICATION ServerSpec
INVARIANTS UrlsResolve PagesKeepPrivate SettledAgree GoneStaysGone ListsAnswer FewProbes EachOnce
PROPERTIES ImagesArrive Protects
CHECK_DEADLOCK FALSE
