SPECIFICATION Spec
CONSTANTS
  g = g
  s = s
  u1 = u1
  u2 = u2
  anon = anon
  dev = dev
  devs = devs
  qa = qa
  Chats = {g, s}
  Users = {u1, u2}
  Bots = {}
  Names = {dev, devs, qa}
  StartsWith <- LongerName
  Contains <- LongerName
  MaxTagId = 3
  MAX_TAGS_PER_CHAT = 2
  Updates <- MigrationUpdates
  TrackerMayFail = FALSE
PROPERTIES
  MuteIsPermanent
