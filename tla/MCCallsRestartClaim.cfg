SPECIFICATION Spec
CONSTANTS
  g = g
  u1 = u1
  u2 = u2
  u3 = u3
  anon = anon
  dev = dev
  devs = devs
  sun = sun
  all = all
  everyone = everyone
  Chats = {g}
  Users = {u1, u2, u3, anon}
  Bots = {anon}
  Names = {dev, devs, sun}
  StartsWith <- LongerName
  Contains <- LongerName
  MaxTagId = 2
  MAX_TAGS_PER_CHAT = 2
  ALL_TAG_ALIASES = {all, everyone}
  suns = suns
  sunny = sunny
  Titles = {suns, sunny}
  None = None
  TitleLevel <- SunLevels
  MAX_MENTIONS_PER_MESSAGE = 2
  MAX_FUZZY_TAG_MATCHES = 2
  COOLDOWN = 2
  BatchSize = 1
  MaxTime = 3
  MAX_RETRY_AFTER_ATTEMPTS = 3
  MaxCrashes = 1
  Updates <- FewUpdates
  Messages <- FewMessages
PROPERTIES
  PauseKept
