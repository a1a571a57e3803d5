\* Every token and message may have been used.
CHECK_DEADLOCK FALSE
SPECIFICATION MCSpec
CONSTANTS
  k1 = k1
  k2 = k2
  k3 = k3
  Keys = {k1, k2, k3}
  NoKey = NoKey
  Shards <- MCShards
  ShardOf <- MCShardOf
  Callers = {c1, c2}
  Burst = 1
  Rate = 2
  Scale = 3
  MaxKeys = 1
  MaxTime = 2
  Tabs = {k1, k2}
  Requests = {c1, c2}
  CsrfTokens = {x1, x2}
  Messages = {m1, m2}
  None = None
  ClaimIds = {k1, k2}
  Tenants = {x1, x2}
  DomainNames = {"d"}
  ClaimCalls = {c1, c2}
  Expiry = 0
  MaxHours = 1
  KeyIds = {"k"}
  KeyCalls = {c1, c2}
  Threshold = 1
  MaxSeconds = 1
  Names <- MCNames
  Base <- MCBase
  Exact <- MCExact
  Wildcards <- MCWildcards
  Fallback = FALSE
  Prefix <- MCPrefix
  Directory <- MCDirectory
  PluralRules <- MCPluralRules
  DefaultLocale = "en"
  MaxDepth = 2
  Stacks <- MCStacks
  Parts <- MCParts
  Addresses = {"p", "q"}
  Accepted <- MCAccepted
  LocaleKeys <- MCLocaleKeys
  Counts <- MCCounts
  MaxUsage = 1
SYMMETRY Symmetry
INVARIANTS KeysBounded RetryAfterIsEnough TabsStayValid ShownOnce
           GuardsFailClosed  HeadersSurvive RouterAndTenantAgree RoutedWasProved
PROPERTIES  UnreadLeavesForACause RemovedStaysRemoved RevokedStaysRevoked
