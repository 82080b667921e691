SPECIFICATION ParserSpec
CONSTANTS
  Mailboxes <- MCPostedAgain
  TrackerRows <- NoRows
INVARIANT RerollsAreRecent
CHECK_DEADLOCK FALSE
