SPECIFICATION FairSpec
CONSTANTS
  request = request
  followup = followup
  stranger = stranger
  webhook = webhook
  Message <- MCMessage
  gateway <- MCGateway
  author <- MCAuthor
  roles <- MCRoles
  memberless = {}
  botOrOther = {}
  home <- MCHome
  saysKind <- MCMessage
  mentioned <- MCMentioned
  wordless = {}
  starters = {}
  users = {"ann"}
  memberRoles = {"helpers"}
  adminUsers = {}
  adminRoles = {}
  MaxKnownThreads = 1
  MaxStarts = 2
PROPERTIES OpenedThreadRuns ActsInService JournalOutlivesRuns HostEnds
CHECK_DEADLOCK FALSE
