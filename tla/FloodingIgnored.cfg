SPECIFICATION Spec
CONSTANTS
  Players = {ann, bob}
  MaxScore = 2
  MaxQuestions = 2
  MaxTriviaFaults = 2
  Voters = {u1, u2, u3}
  Victims = {v1, v2}
  Hosts = {east, west}
  VotesNeeded = 2
  ChatRoom = 0
  Slaves = {s1, s2}
  MaxCommands = 3
  MaxConnections = 3
  MaxQueueFaults = 1
  QueueLimit = 1
  Owners = {o1, o2}
  Bots = {b1, b2}
  MaxGames = 3
  Triggers <- TwoTriggers
  MaxLines = 3
  Speakers = {"stranger", "member"}
  AccessOf <- Access
  BannedSpeakers = {"member"}
  Texts = {"hi", "YO"}
  YelledTexts = {"YO"}
  PhraseTexts = {"hi"}
  CommandAccess <- Levels
  ChatSettings <- TwoSettings
  CacheSizes = {1, 3}
  MaxPackets = 13
  MaxAnswers = 1
CHECK_DEADLOCK FALSE
PROPERTY FloodingIgnored
