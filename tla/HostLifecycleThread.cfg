SPECIFICATION FairSpec
CONSTANTS
  request = request
  followup = followup
  stranger = stranger
  webhook = webhook
  Message <- MCMessage
  gateway <- MCGateway
  author <- MCAuthor
  roles <- MCRoles
  memberless = {}
  botOrOther = {}
  home <- MCHome
  saysKind <- MCMessage
  mentioned <- MCMentioned
  wordless = {}
  starters = {}
  users = {"ann"}
  memberRoles = {"helpers"}
  adminUsers = {}
  adminRoles = {}
  MaxKnownThreads = 1
  MaxStarts = 2
PROPERTY NoThreadWithoutRun
CHECK_DEADLOCK FALSE
