\* Four requests, two at a time: of every kind but chat, or all of them chats.  Two logins
\* per window let a minute straddle two windows.
CONSTANTS
  MaxRequests = 4
  MaxInFlight = 2
  MaxTime = 4
  Mixes <- TwoMixes
  Ips = {i1, i2}
  Tokens <- AllTokens
  Ttl = 3
  MaxSessions = 2
  Minute = 2
  MaxKeys = 1
  LoginRate = 2
  ReadRate = 1
  RunsRate = 1
  Turns <- Requests
  MaxRounds = 2
  MaxHistories = 1
  HistoryCap = 2
  Hits = {h1, h2}
  Qualified = {h1}
SPECIFICATION Spec
INVARIANT RateBounded
INVARIANT SessionTableSound
INVARIANT ChatsAreStateless
INVARIANT HistoriesAreBounded
INVARIANT AnswersAreHonest
CHECK_DEADLOCK FALSE
