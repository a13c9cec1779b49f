SPECIFICATION FairSpec
CONSTANTS
  Url <- Trackers
  Empty = "none given"
  Protocol <- Protocols
  AnnounceLists <- Lists
  PeerBytes = {0, 6, 13}
INVARIANTS
  TypeOK
  AnswerIsReturned
  AllTrackersTried
PROPERTIES
  FetchEnds
