SPECIFICATION FairSpec
CONSTANTS
  g = g
  u1 = u1
  u2 = u2
  anon = anon
  kyiv = kyiv
  n = n
  Chats = {g}
  Users = {u1, u2, anon}
  Bots = {anon}
  Names = {n}
  StartsWith = {}
  Contains = {}
  MaxTagId = 0
  MAX_TAGS_PER_CHAT = 0
  People = {u1, u2, anon}
  ANON = anon
  Zones = {kyiv}
  TTL = 2
  Group = g
  Updates <- SomeUpdates
  Commands <- SomeCommands
  Promoted = {u1}
  Totals = {3}
  Defaults <- NewChat
  COUNTER_REFRESH_SECONDS = 1
  MaxWait = 1
  Nothing = Nothing
INVARIANTS
  TypeOK
  
  StateMatchesChat
PROPERTIES
  RightsAreRecent
  PressShows
  ToldIsRecorded
  UpdateEnds
