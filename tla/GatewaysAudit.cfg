SPECIFICATION MCSpec
CONSTANTS
  media = media
  other = other
  Guild <- MCGuild
  ReadyEvent <- MCReady
  StatesOf <- MCStatesOf
  MaxSessions = 1
  MaxDispatch = 1
  MaxFaults = 1
  MaxBursts = 2
  MaxTold = 5
  Permission = {"view", "send", "admin"}
  Administrator = "admin"
  Required = {"view", "send"}
  Watched = {"help"}
  Bot = "bot"
  Malformed = Malformed
  NotYet = NotYet
  Down = Down
  status = status
  reply = reply
  eve = eve
  bob = bob
  ann = ann
  Post <- MCPost
  Account <- MCAccount
  reporter = eve
  email <- MCEmail
  name <- MCName
  NoEmail = NoEmail
  botName = "blitzcrank"
  UserPage = 3
  MaxComments = 1
  MaxSaved = 1
  MaxSaid = 1
  MaxLate = 1
  MaxGrants = 0
INVARIANTS SeesWhatItWatches
CHECK_DEADLOCK FALSE
