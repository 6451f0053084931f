SPECIFICATION MCSpec
CONSTANTS
  Indicator = {"a", "b"}
  Request = {"r1", "r2", "r3"}
  Kind <- KindOf
  AskedFor <- LookedUp
  Feed = {"f", "g", "h"}
  FeedType <- TypeOfFeed
  Attribute = {"x", "y", "z"}
  FeedOf <- FeedOfItem
  KeyOf <- KeyOfItem
  Interval = {1}
  Lookback = 1
  AnswerLimit <- Page
  LastHour = 1
  MaxFeedEdits = 2
  MaxFeedFaults = 1
INVARIANT PulledIsListed
PROPERTIES RequestsEnd FeedsComeRound
CHECK_DEADLOCK FALSE
