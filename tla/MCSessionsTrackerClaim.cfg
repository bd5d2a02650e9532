SPECIFICATION Spec
CONSTANTS
  g = g
  s = s
  u1 = u1
  u2 = u2
  anon = anon
  dev = dev
  devs = devs
  qa = qa
  Chats = {g}
  Users = {u1, anon}
  Bots = {anon}
  Names = {dev, devs, qa}
  StartsWith <- LongerName
  Contains <- LongerName
  MaxTagId = 4
  MAX_TAGS_PER_CHAT = 2
  Updates <- TagUpdates
  Tasks = {t1, t2}
  NoTask = NoTask
  NoUpdate = NoUpdate
  LocksTimeOut = TRUE
  MaxUpdates = 3
  MaxCrashes = 0
INVARIANTS
  TrackerNeverBreaksHandler
