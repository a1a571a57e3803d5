\* Every id, flow and delivery may have been used.
CHECK_DEADLOCK FALSE
SPECIFICATION MCSpec
CONSTANTS
  Callers = {c1, c2}
  Processes = {p, q}
  Migrations <- MCMigrations
  Contents = {0, 1}
  Checksum <- MCChecksum
  Shards = {"s"}
  Default = "default"
  BadName = "/"
  NoDb = NoDb
  None = None
  Rows <- MCRows
  QueryCalls <- MCCalls
  DefaultPerPage = 1
  MaxPerPage = 2
  MaxWrites = 2
  Ulids <- MCUlids
  PathPrefixes <- MCPathPrefixes
  Files <- MCFiles
  BucketConfigs <- MCBuckets
  Kilo = 2
  MaxUsize = 15
  PageSize = 1
  Stored <- MCStored
  MaxCalls = 3
  MaxLate = 1
  Chars = {"a", "/", "&", "&amp;", ".", "f", "png", "1", "2", "3", "4"}
  Senders = {c1, c2}
  Emails <- MCEmails
  TemplateFiles <- MCWritten
  Edits <- MCEdits
  LayoutFiles <- MCLayoutFiles
  DefaultLocale = "en"
  Configs <- MCConfigs
  Browsers = {c1, c2}
  Tabs = {1, 2}
  Accounts <- MCAccounts
  Pkce = {"google"}
  MaxFlows = 2
  Written <- MCSecrets
  Ids = {"", "i", "j"}
  Bodies = {"b", "c"}
  Tolerance = 1
  Skew = 2
  MaxTime = 1
  MaxSends = 1
SYMMETRY Symmetry
INVARIANTS MigratedOnce WalkSeesEachOnce AcknowledgedIsStored PrefixIsGone CacheIsLru
            LoginIsBound 
