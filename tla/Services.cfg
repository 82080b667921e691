SPECIFICATION Spec
CONSTANTS
  s1 = s1
  c1 = c1
  d1 = d1
  d2 = d2
  j1 = j1
  j2 = j2
  j3 = j3
  t1 = t1
  t2 = t2
  u1 = u1
  u2 = u2
  e1 = e1
  f1 = f1
  f2 = f2
  Sessions <- MCSessions
  MaxInbox = 2
  MaxFaults = 2
  Chats <- MCChats
  MaxTurns = 3
  MaxHistory = 3
  MaxChatActs = 1
  Serials <- MCSerials
  Jobs <- MCJobs
  Requests <- MCRequests
  MaxTargets = 2
  MaxTargetCrashes = 1
  Urls <- MCUrls
  Pending <- MCPending
  Blobs <- MCBlobs
  Edits = {"merged"}
  MaxRows = 2
  Mailboxes <- MCMailboxes
  TrackerRows <- MCRows
  Editors <- MCEditors
  Paths <- MCPaths
  BaseNameOf <- MCBaseNameOf
  SafeNameOf <- MCSafeNameOf
  Texts <- MCTexts
  Selections <- MCSelections
  MaxSeconds = 1
  MaxOutside = 1
  Terminals <- MCTerminals
  MaxNumber = 2
  MaxKills = 2
  MaxCommands = 1
  MaxAuditFaults = 1
CONSTRAINT RequestsInOrder
INVARIANTS
  TypesOK
  SshLeakOnlyEarly SshTabTruth
  ChatRowsAgree
  TargetSettles TargetRunIsTrue
  TrackedOnce HandStatusKept
  ThreadsAreWhole SummaryAddsUp
  AutofixSettles
  AliveMeansOwnPty
PROPERTIES
  SshSettles SshReadersLeave
  EndIsNoticed
  ChatForgetsFairly
CHECK_DEADLOCK FALSE
