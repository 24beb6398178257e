\* The watchers of MCComponents, without dropped connections.
CONSTANTS
  s1 = s1
  s2 = s2
  w1 = w1
  w2 = w2
  w3 = w3
  FeedSessions = {s1, s2}
  Everything = Everything
  Watchers = {w1, w2, w3}
  KindOf <- OneOfEachKind
  ScopeOf <- TheirScopes
  CatchUp = 1
  MaxFeed = 2
  MaxDrops = 0
SPECIFICATION LiveFeedSpec
PROPERTIES
  EventsArriveInMemory
