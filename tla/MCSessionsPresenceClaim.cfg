SPECIFICATION Spec
CONSTANTS
  g = g
  s = s
  u1 = u1
  u2 = u2
  anon = anon
  dev = dev
  devs = devs
  qa = qa
  Chats = {g}
  Users = {u1, u2}
  Bots = {}
  Names = {dev, devs, qa}
  StartsWith <- LongerName
  Contains <- LongerName
  MaxTagId = 1
  MAX_TAGS_PER_CHAT = 2
  Updates <- PresenceUpdates
  Tasks = {t1, t2}
  NoTask = NoTask
  NoUpdate = NoUpdate
  LocksTimeOut = FALSE
  MaxUpdates = 4
  MaxCrashes = 0
INVARIANTS
  OnlyPresentCalled
