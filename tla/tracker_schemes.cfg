SPECIFICATION Spec
CONSTANTS
  Url <- Trackers
  Empty = "none given"
  Protocol <- Protocols
  AnnounceLists <- Lists
  PeerBytes = {0, 6, 13}
INVARIANTS
  TriedIsContacted
