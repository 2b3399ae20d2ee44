SPECIFICATION MCSpec
CONSTANTS
  media = media
  other = other
  Guild <- MCGuild
  ReadyEvent <- MCReady
  StatesOf <- MCStatesOf
  MaxSessions = 3
  MaxDispatch = 4
  MaxFaults = 2
  MaxBursts = 2
  MaxTold = 5
  Permission = {"view", "send", "admin"}
  Administrator = "admin"
  Required = {"view", "send"}
  Watched = {"help"}
  Bot = "bot"
  Malformed = Malformed
  NotYet = NotYet
  Down = Down
  status = status
  reply = reply
  eve = eve
  bob = bob
  ann = ann
  Post <- MCPost
  Account <- MCAccount
  reporter = eve
  email <- MCEmail
  name <- MCName
  NoEmail = NoEmail
  botName = "blitzcrank"
  UserPage = 3
  MaxComments = 1
  MaxSaved = 4
  MaxSaid = 2
  MaxLate = 1
  MaxGrants = 1
INVARIANTS DeathToldOnce AuditHonest CommentsApart
PROPERTIES FeedImplemented EverythingHeard SenderChecked
CHECK_DEADLOCK FALSE
