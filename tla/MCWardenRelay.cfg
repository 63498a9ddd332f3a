SPECIFICATION FairSpec
CONSTANTS
  MaxSessions = 3
  MaxChallenges = 2
  MaxFaults = 2
CHECK_DEADLOCK FALSE
INVARIANTS FramesIntact ChallengesKept
PROPERTIES ImplementsService Answered
